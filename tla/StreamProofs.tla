---------------------------- MODULE StreamProofs ----------------------------
(***************************************************************************)
(* Proofs about the backend's subscriptions, for any number of clients and *)
(* events and any capacity of the channel: they keep the promise of        *)
(* EventStream, have no gap, tell an address only of transactions that are *)
(* its own or that a caller put under it, and leave the sender of a stored *)
(* request with what the store holds.                                      *)
(***************************************************************************)
EXTENDS Subscriptions, StoreProofs

\* The inductive invariant: types; a task that has not subscribed has nothing
\* in its hand and has sent nothing; and what is in a task's hand is the event
\* it received last, which is the client's.
TaskInv(c) ==
  /\ "hand" \in DOMAIN subs[c] /\ "state" \in DOMAIN subs[c]
  /\ subs[c].state \in {"none", "accepted", "joined"} =>
       subs[c].hand = <<>> /\ subs[c].delivered = <<>>
  /\ subs[c].state \in {"active", "ended"} => subs[c].next >= 1
  /\ subs[c].hand # <<>> =>
       /\ subs[c].next - 1 \in DOMAIN log
       /\ subs[c].hand = << log[subs[c].next - 1] >>
       /\ ShouldSend(log[subs[c].next - 1], AddressOf[c])
StreamInv ==
  /\ StoreInv
  /\ ServiceTypeOK
  /\ \A c \in Clients : TaskInv(c)

\* A service that has just started satisfies the invariant.
LEMMA StreamInvInit == ServiceInit => StreamInv
<1> SUFFICES ASSUME ServiceInit PROVE StreamInv
  OBVIOUS
<1>1. StoreInv
  BY StoreInvInit DEF ServiceInit
<1>2. ServiceTypeOK
  BY DEF ServiceInit, ServiceTypeOK, Subscription
<1>3. \A c \in Clients : TaskInv(c)
  BY DEF ServiceInit, TaskInv
<1>4. QED
  BY <1>1, <1>2, <1>3 DEF StreamInv

\* A step of the task of one client leaves the others alone.
LEMMA TaskStepsFrame ==
  ASSUME StreamInv, NEW c \in Clients, Accept(c) \/ TaskStep(c)
  PROVE  /\ log' = log /\ outbox' = outbox /\ UNCHANGED backendVars
         /\ DOMAIN subs' = Clients
         /\ \A d \in Clients \ {c} : subs'[d] = subs[d]
  BY DEF StreamInv, ServiceTypeOK, TaskStep, Accept, Join, Subscribe, Receive,
         Lag, Deliver, SinkFails, Quiet

\* A step of a subscription task keeps what is known of that task.
LEMMA TaskStepKeepsTask ==
  ASSUME StreamInv, NEW c \in Clients, Accept(c) \/ TaskStep(c)
  PROVE  /\ subs'[c] \in Subscription
         /\ subs'[c].start <= subs'[c].next
         /\ subs'[c].next <= Len(log) + 1
         /\ Len(subs'[c].hand) <= 1
         /\ TaskInv(c)'
<1>0. /\ subs[c] \in Subscription /\ log \in Seq(BackendEvent)
      /\ subs[c].start <= subs[c].next /\ subs[c].next <= Len(log) + 1
      /\ Len(subs[c].hand) <= 1 /\ TaskInv(c) /\ Len(log) \in Nat
      /\ subs[c].start \in Nat /\ subs[c].next \in Nat
      /\ subs[c].hand \in Seq(BackendEvent)
      /\ subs[c].delivered \in Seq(BackendEvent)
      /\ c \in DOMAIN subs
  BY DEF StreamInv, ServiceTypeOK, Subscription
<1>f. log' = log
  BY TaskStepsFrame
<1>1. CASE Accept(c)
  BY <1>0, <1>1, <1>f DEF Accept, Subscription, TaskInv
<1>2. CASE Join(c)
  BY <1>0, <1>2, <1>f DEF Join, Subscription, TaskInv
<1>3. CASE Subscribe(c)
  <2>1. /\ subs'[c] = [subs[c] EXCEPT !.state = "active",
                         !.start = Len(log) + 1, !.next = Len(log) + 1]
        /\ subs[c].hand = <<>> /\ subs[c].delivered = <<>>
    BY <1>0, <1>3 DEF Subscribe, TaskInv
  <2>2. subs'[c] = [ state |-> "active", start |-> Len(log) + 1,
                     next |-> Len(log) + 1, hand |-> <<>>, delivered |-> <<>> ]
    BY <1>0, <2>1 DEF Subscription
  <2>3. QED
    BY <1>0, <2>2, <1>f DEF Subscription, TaskInv
<1>4. CASE Receive(c)
  <2> DEFINE n == subs[c].next
             e == log[n]
  <2>1. /\ subs[c].state = "active" /\ subs[c].hand = <<>>
        /\ n \in DOMAIN log
        /\ subs'[c] = [subs[c] EXCEPT !.next = n + 1,
                         !.hand = IF ShouldSend(e, AddressOf[c]) THEN <<e>>
                                                                 ELSE <<>>]
    BY <1>0, <1>4 DEF Receive, Backlog, TaskInv
  <2>2. e \in BackendEvent
    BY <1>0, <2>1
  <2> HIDE DEF n, e
  <2>3. subs'[c] = [ state |-> "active", start |-> subs[c].start,
                     next |-> n + 1, delivered |-> subs[c].delivered,
                     hand |-> IF ShouldSend(e, AddressOf[c]) THEN <<e>>
                                                             ELSE <<>> ]
    BY <1>0, <2>1 DEF Subscription
  <2>4. n \in Nat /\ n + 1 - 1 = n /\ n + 1 <= Len(log) + 1
    BY <1>0, <2>1 DEF n
  <2>5. CASE ShouldSend(e, AddressOf[c])
    <3>1. /\ subs'[c].hand = <<e>> /\ subs'[c].next = n + 1
          /\ subs'[c].state = "active" /\ Len(subs'[c].hand) = 1
          /\ subs'[c].start = subs[c].start
      BY <2>3, <2>5
    <3>2. subs'[c] \in Subscription
      BY <1>0, <2>2, <2>3, <2>4, <2>5 DEF Subscription
    <3>3. TaskInv(c)'
      <4>1. "hand" \in DOMAIN subs'[c] /\ "state" \in DOMAIN subs'[c]
        BY <2>3
      <4>2. /\ subs'[c].next - 1 = n /\ subs'[c].next >= 1
            /\ n \in DOMAIN log' /\ log'[n] = e
        BY <2>1, <2>4, <3>1, <1>f DEF e
      <4>3. QED
        BY <2>5, <3>1, <4>1, <4>2 DEF TaskInv
    <3>4. QED
      BY <1>0, <2>4, <3>1, <3>2, <3>3 DEF n
  <2>6. CASE ~ShouldSend(e, AddressOf[c])
    <3>1. /\ subs'[c].hand = <<>> /\ subs'[c].next = n + 1
          /\ subs'[c].state = "active" /\ Len(subs'[c].hand) = 0
          /\ subs'[c].start = subs[c].start
      BY <2>3, <2>6
    <3>2. subs'[c] \in Subscription
      BY <1>0, <2>3, <2>4, <2>6 DEF Subscription
    <3>3. TaskInv(c)'
      BY <2>3, <2>4, <3>1, <1>f DEF TaskInv
    <3>4. QED
      BY <1>0, <2>4, <3>1, <3>2, <3>3 DEF n
  <2>7. QED
    BY <2>5, <2>6
<1>5. CASE Lag(c)
  BY <1>0, <1>5, <1>f DEF Lag, Subscription, TaskInv
<1>6. CASE Deliver(c)
  <2>1. /\ subs[c].state = "active"
        /\ subs'[c] = [subs[c] EXCEPT !.hand = <<>>,
                         !.delivered = subs[c].delivered \o subs[c].hand]
    BY <1>0, <1>6 DEF Deliver
  <2>2. subs[c].delivered \o subs[c].hand \in Seq(BackendEvent)
    BY <1>0
  <2>3. subs'[c] = [ state |-> "active", start |-> subs[c].start,
                     next |-> subs[c].next, hand |-> <<>>,
                     delivered |-> subs[c].delivered \o subs[c].hand ]
    BY <1>0, <2>1 DEF Subscription
  <2>4. subs'[c] \in Subscription
    BY <1>0, <2>2, <2>3 DEF Subscription
  <2>5. /\ subs'[c].hand = <<>> /\ subs'[c].next = subs[c].next
        /\ subs'[c].state = "active" /\ Len(subs'[c].hand) = 0
        /\ subs'[c].start = subs[c].start
        /\ "hand" \in DOMAIN subs'[c] /\ "state" \in DOMAIN subs'[c]
    BY <2>3
  <2>6. subs[c].next >= 1
    BY <1>0, <2>1 DEF TaskInv
  <2>7. TaskInv(c)'
    BY <2>5, <2>6 DEF TaskInv
  <2>8. QED
    BY <1>0, <2>4, <2>5, <2>7
<1>7. CASE SinkFails(c)
  BY <1>0, <1>7, <1>f DEF SinkFails, Subscription, TaskInv
<1>8. QED
  BY <1>1, <1>2, <1>3, <1>4, <1>5, <1>6, <1>7 DEF TaskStep

\* Every step keeps the invariant.
LEMMA StreamInvStep == StreamInv /\ [ServiceNext]_serviceVars => StreamInv'
<1> SUFFICES ASSUME StreamInv, [ServiceNext]_serviceVars PROVE StreamInv'
  OBVIOUS
<1>1. ASSUME [BackendNext]_backendVars
      PROVE  StoreInv'
  BY <1>1, StoreInvStep DEF StreamInv
<1>2. CASE Call
  <2>1. StoreInv'
    BY <1>1, <1>2 DEF Call, BackendNext
  <2>2. outbox' \in Seq(BackendEvent) /\ UNCHANGED <<log, subs>>
    BY <1>2, <2>1 DEF Call, StoreInv, RestOK, Events
  <2>3. ServiceTypeOK' /\ \A c \in Clients : TaskInv(c)'
    BY <2>2 DEF StreamInv, ServiceTypeOK, TaskInv
  <2>4. QED
    BY <2>1, <2>3 DEF StreamInv
<1>3. CASE TimePasses
  <2>1. StoreInv'
    BY <1>1, <1>3 DEF TimePasses, BackendNext
  <2>2. ServiceTypeOK' /\ \A c \in Clients : TaskInv(c)'
    BY <1>3 DEF TimePasses, StreamInv, ServiceTypeOK, TaskInv
  <2>3. QED
    BY <2>1, <2>2 DEF StreamInv
<1>4. CASE Broadcast
  <2>1. StoreInv'
    BY <1>1, <1>4 DEF Broadcast
  <2>2. /\ log \in Seq(BackendEvent) /\ Head(outbox) \in BackendEvent
        /\ outbox' \in Seq(BackendEvent)
        /\ log' = Append(log, Head(outbox)) /\ subs' = subs
    BY <1>4 DEF Broadcast, StreamInv, ServiceTypeOK
  <2>3. /\ log' \in Seq(BackendEvent) /\ Len(log') = Len(log) + 1
        /\ \A i \in DOMAIN log : i \in DOMAIN log' /\ log'[i] = log[i]
    BY <2>2
  <2>4. ServiceTypeOK'
    BY <2>2, <2>3 DEF StreamInv, ServiceTypeOK, Subscription
  <2>5. \A c \in Clients : TaskInv(c)'
    BY <2>2, <2>3 DEF StreamInv, TaskInv
  <2>6. QED
    BY <2>1, <2>4, <2>5 DEF StreamInv
<1>5. ASSUME NEW c \in Clients, Accept(c) \/ TaskStep(c) PROVE StreamInv'
  <2>1. StoreInv'
    BY <1>1, <1>5, TaskStepsFrame
  <2>2. /\ log' = log /\ outbox' = outbox /\ DOMAIN subs' = Clients
        /\ \A d \in Clients \ {c} : subs'[d] = subs[d]
    BY <1>5, TaskStepsFrame
  <2>3. \A d \in Clients : /\ subs'[d] \in Subscription
                           /\ subs'[d].start <= subs'[d].next
                           /\ subs'[d].next <= Len(log') + 1
                           /\ Len(subs'[d].hand) <= 1
    BY <1>5, <2>2, TaskStepKeepsTask DEF StreamInv, ServiceTypeOK
  <2>4. subs' = [d \in Clients |-> subs'[d]]
    BY <1>5 DEF StreamInv, ServiceTypeOK, TaskStep, Accept, Join, Subscribe,
                Receive, Lag, Deliver, SinkFails
  <2>5. ServiceTypeOK'
    BY <2>2, <2>3, <2>4 DEF StreamInv, ServiceTypeOK
  <2>6. \A d \in Clients \ {c} : TaskInv(d)'
    BY <2>2 DEF StreamInv, TaskInv
  <2>7. QED
    BY <1>5, <2>1, <2>5, <2>6, TaskStepKeepsTask DEF StreamInv
<1>6. CASE UNCHANGED serviceVars
  <2>1. StoreInv'
    BY <1>1, <1>6 DEF serviceVars
  <2>2. ServiceTypeOK' /\ \A c \in Clients : TaskInv(c)'
    BY <1>6 DEF serviceVars, StreamInv, ServiceTypeOK, TaskInv
  <2>3. QED
    BY <2>1, <2>2 DEF StreamInv
<1>7. QED
  BY <1>2, <1>3, <1>4, <1>5, <1>6 DEF ServiceNext

\* Types of the service: the outbox and the log hold events, and every task is
\* at a position within the log.
THEOREM ServiceTypeCorrect == ServiceSpec => []ServiceTypeOK
<1>1. StreamInv => ServiceTypeOK
  BY DEF StreamInv
<1>2. QED
  BY <1>1, StreamInvInit, StreamInvStep, PTL DEF ServiceSpec

-----------------------------------------------------------------------------
(* The refinement *)

\* A step of the task of a client is a step of the reader, or none.
LEMMA TaskStepIsReaderStep ==
  ASSUME StreamInv, StreamInv', NEW c \in Clients, Accept(c) \/ TaskStep(c)
  PROVE  Stream!StreamNext \/ UNCHANGED Stream!streamVars
<1> DEFINE R == [d \in Clients |-> ReaderOf(d)]
<1>0. /\ subs[c] \in Subscription /\ log \in Seq(BackendEvent)
      /\ subs[c].next <= Len(log) + 1 /\ Len(log) \in Nat
      /\ TaskInv(c) /\ subs[c].next \in Nat
      /\ subs[c].hand \in Seq(BackendEvent)
      /\ subs[c].delivered \in Seq(BackendEvent)
      /\ c \in DOMAIN subs
  BY DEF StreamInv, ServiceTypeOK, Subscription
<1>f. log' = log /\ \A d \in Clients \ {c} : ReaderOf(d)' = ReaderOf(d)
  BY TaskStepsFrame DEF ReaderOf
<1>g. R' = [R EXCEPT ![c] = ReaderOf(c)']
  BY <1>f
<1>h. ASSUME ReaderOf(c)' = ReaderOf(c) PROVE UNCHANGED Stream!streamVars
  BY <1>f, <1>h DEF Stream!streamVars
<1>r. /\ R[c].state = ReaderOf(c).state /\ R[c].pos = ReaderOf(c).pos
      /\ R[c].got = ReaderOf(c).got
  OBVIOUS
<1> HIDE DEF R
<1>1. CASE Accept(c) \/ Join(c)
  <2>1. /\ subs[c].state \in {"none", "accepted", "joined"}
        /\ subs'[c].state \in {"none", "accepted", "joined"}
        /\ subs'[c].delivered = subs[c].delivered
    BY <1>0, <1>1 DEF Accept, Join, Subscription
  <2>2. ReaderOf(c)' = ReaderOf(c)
    BY <2>1 DEF ReaderOf
  <2>3. QED
    BY <1>h, <2>2
<1>2. CASE Subscribe(c)
  <2>1. ReaderOf(c).state = "waiting"
    BY <1>2 DEF Subscribe, ReaderOf
  <2>2. /\ subs'[c].state = "active" /\ subs'[c].next = Len(log) + 1
        /\ subs'[c].hand = <<>> /\ subs'[c].delivered = <<>>
    BY <1>0, <1>2 DEF Subscribe, TaskInv, Subscription
  <2>3. ReaderOf(c)' = [state |-> "open", got |-> <<>>, pos |-> Len(log)]
    BY <1>0, <2>2 DEF ReaderOf
  <2>4. Stream!Open(c)
    BY <1>f, <1>g, <1>r, <2>1, <2>3 DEF Stream!Open, R
  <2>5. QED
    BY <2>4 DEF Stream!StreamNext
<1>3. CASE Lag(c) \/ SinkFails(c)
  <2>1. /\ subs[c].state = "active" /\ subs'[c].state = "ended"
        /\ subs'[c].next = subs[c].next /\ subs'[c].hand = subs[c].hand
        /\ subs'[c].delivered = subs[c].delivered
    BY <1>0, <1>3 DEF Lag, SinkFails, Subscription
  <2>2. /\ ReaderOf(c)' = [ state |-> "over", got |-> ReaderOf(c).got,
                            pos |-> ReaderOf(c).pos ]
        /\ ReaderOf(c).state = "open"
    BY <2>1 DEF ReaderOf
  <2>3. Stream!Close(c)
    BY <1>f, <1>g, <1>r, <2>2 DEF Stream!Close, R
  <2>4. QED
    BY <2>3 DEF Stream!StreamNext
<1>4. CASE Receive(c)
  <2> DEFINE n == subs[c].next
  <2>a. /\ subs[c].state = "active" /\ subs[c].hand = <<>>
        /\ n \in 1..Len(log)
    BY <1>0, <1>4 DEF Receive, Backlog, TaskInv
  <2>b. subs'[c] = [subs[c] EXCEPT !.next = n + 1,
                      !.hand = IF ShouldSend(log[n], AddressOf[c])
                               THEN <<log[n]>> ELSE <<>>]
    BY <1>0, <1>4 DEF Receive
  <2>1. /\ subs[c].state = "active" /\ subs[c].hand = <<>>
        /\ n \in 1..Len(log) /\ subs'[c].state = "active"
        /\ subs'[c].next = n + 1 /\ subs'[c].delivered = subs[c].delivered
        /\ subs'[c].hand = IF ShouldSend(log[n], AddressOf[c]) THEN <<log[n]>>
                                                               ELSE <<>>
    BY <1>0, <2>a, <2>b DEF Subscription
  <2>2. /\ ReaderOf(c).state = "open" /\ ReaderOf(c).pos = n - 1
        /\ ReaderOf(c).got = subs[c].delivered
    BY <1>0, <2>1 DEF ReaderOf
  <2>3. CASE ShouldSend(log[n], AddressOf[c])
    <3>1. ReaderOf(c)' = ReaderOf(c)
      BY <1>0, <2>1, <2>3 DEF ReaderOf
    <3>2. QED
      BY <1>h, <3>1
  <2>4. CASE ~ShouldSend(log[n], AddressOf[c])
    <3>1. ReaderOf(c)' = [ state |-> "open", got |-> ReaderOf(c).got,
                           pos |-> ReaderOf(c).pos + 1 ]
      BY <1>0, <2>1, <2>2, <2>4 DEF ReaderOf
    <3>2. ReaderOf(c).pos + 1 = n /\ ReaderOf(c).pos < Len(log)
      BY <1>0, <2>1, <2>2
    <3>3. Stream!Skip(c)
      BY <1>f, <1>g, <1>r, <2>2, <2>4, <3>1, <3>2
      DEF Stream!Skip, Stream!HasNext, Stream!NextEvent, Wants, R
    <3>4. QED
      BY <3>3 DEF Stream!StreamNext
  <2>5. QED
    BY <2>3, <2>4
<1>5. CASE Deliver(c)
  <2> DEFINE n == subs[c].next - 1
  <2>1. /\ subs[c].state = "active" /\ subs[c].hand # <<>>
        /\ subs'[c].state = "active" /\ subs'[c].hand = <<>>
        /\ subs'[c].next = subs[c].next
        /\ subs'[c].delivered = subs[c].delivered \o subs[c].hand
    BY <1>0, <1>5 DEF Deliver, Subscription
  <2>2. /\ n \in 1..Len(log) /\ subs[c].hand = <<log[n]>>
        /\ ShouldSend(log[n], AddressOf[c]) /\ log[n] \in BackendEvent
    BY <1>0, <2>1 DEF TaskInv
  <2>3. subs[c].delivered \o subs[c].hand = Append(subs[c].delivered, log[n])
    BY <1>0, <2>2
  <2>4. /\ ReaderOf(c).state = "open" /\ ReaderOf(c).pos = n - 1
        /\ ReaderOf(c).got = subs[c].delivered
    BY <1>0, <2>1, <2>2 DEF ReaderOf
  <2>5. ReaderOf(c)' = [ state |-> "open", pos |-> ReaderOf(c).pos + 1,
                         got |-> Append(ReaderOf(c).got, log[n]) ]
    <3>1. /\ subs'[c].next - 1 - Len(subs'[c].hand) = ReaderOf(c).pos + 1
          /\ subs'[c].delivered = Append(ReaderOf(c).got, log[n])
      BY <1>0, <2>1, <2>2, <2>3, <2>4
    <3>2. QED
      BY <2>1, <3>1 DEF ReaderOf
  <2>6. ReaderOf(c).pos + 1 = n /\ ReaderOf(c).pos < Len(log)
    BY <1>0, <2>2, <2>4
  <2>7. Stream!Take(c)
    BY <1>f, <1>g, <1>r, <2>2, <2>4, <2>5, <2>6
    DEF Stream!Take, Stream!HasNext, Stream!NextEvent, Wants, R
  <2>8. QED
    BY <2>7 DEF Stream!StreamNext
<1>6. QED
  BY <1>1, <1>2, <1>3, <1>4, <1>5 DEF TaskStep

\* What a client is sent is what EventStream promises: the events of the
\* channel that concern it, from the moment its task subscribed, in order, each
\* once and none left out (subscribe_to_events).
THEOREM SubscriptionsImplementStream == ServiceSpec => ImplementsStream
<1>1. ServiceInit => Stream!StreamInit
  BY DEF ServiceInit, Stream!StreamInit, ReaderOf
<1>2. StreamInv /\ StreamInv' /\ [ServiceNext]_serviceVars
        => [Stream!StreamNext]_Stream!streamVars
  <2> SUFFICES ASSUME StreamInv, StreamInv', [ServiceNext]_serviceVars
               PROVE  Stream!StreamNext \/ UNCHANGED Stream!streamVars
    OBVIOUS
  <2>1. CASE UNCHANGED <<log, subs>>
    BY <2>1 DEF Stream!streamVars, ReaderOf
  <2>2. CASE Broadcast
    <3>1. /\ log \in Seq(BackendEvent) /\ Head(outbox) \in BackendEvent
          /\ log' = Append(log, Head(outbox)) /\ subs' = subs
      BY <2>2 DEF Broadcast, StreamInv, ServiceTypeOK
    <3>2. /\ Len(log') = Len(log) + 1
          /\ \A i \in DOMAIN log : log'[i] = log[i]
      BY <3>1
    <3>3. Stream!Publish
      BY <3>1, <3>2 DEF Stream!Publish, ReaderOf
    <3>4. QED
      BY <3>3 DEF Stream!StreamNext
  <2>3. ASSUME NEW c \in Clients, Accept(c) \/ TaskStep(c)
        PROVE  Stream!StreamNext \/ UNCHANGED Stream!streamVars
    BY <2>3, TaskStepIsReaderStep
  <2>4. CASE Call \/ TimePasses \/ UNCHANGED serviceVars
    BY <2>1, <2>4 DEF Call, TimePasses, serviceVars
  <2>5. QED
    BY <2>2, <2>3, <2>4 DEF ServiceNext
<1>3. QED
  BY <1>1, <1>2, StreamInvInit, StreamInvStep, PTL
  DEF ServiceSpec, ImplementsStream, Stream!StreamSpec
-----------------------------------------------------------------------------
(* No gap *)

\* StreamHasNoGap of one client, with the place it starts from.
NoGap(c) ==
  /\ subs[c].state \in {"active", "ended"} => subs[c].start >= 1
  /\ subs[c].delivered \o subs[c].hand =
       IF subs[c].state \in {"active", "ended"} THEN Keep(Received(c), Mine(c))
                                                ELSE <<>>

\* A step of a task keeps it: the only one that moves the place in the stream
\* is the receipt of the next event, which the filter takes or leaves.
LEMMA TaskStepKeepsNoGap ==
  ASSUME StreamInv, NEW c \in Clients, NoGap(c), Accept(c) \/ TaskStep(c)
  PROVE  NoGap(c)'
<1>0. /\ subs[c] \in Subscription /\ log \in Seq(BackendEvent)
      /\ subs[c].start <= subs[c].next /\ subs[c].next <= Len(log) + 1
      /\ TaskInv(c) /\ Len(log) \in Nat
      /\ subs[c].start \in Nat /\ subs[c].next \in Nat
      /\ subs[c].hand \in Seq(BackendEvent)
      /\ subs[c].delivered \in Seq(BackendEvent)
      /\ c \in DOMAIN subs
  BY DEF StreamInv, ServiceTypeOK, Subscription
<1>f. log' = log
  BY TaskStepsFrame
<1> DEFINE s == subs[c].start
           n == subs[c].next
<1>1. CASE Accept(c)
  <2>1. subs[c].state = "none" /\ subs'[c] = [subs[c] EXCEPT !.state = "accepted"]
    BY <1>0, <1>1 DEF Accept
  <2>2. /\ subs'[c].state = "accepted" /\ subs'[c].hand = subs[c].hand
        /\ subs'[c].delivered = subs[c].delivered
    BY <1>0, <2>1 DEF Subscription
  <2>3. QED
    BY <2>1, <2>2 DEF NoGap
<1>2. CASE Join(c)
  <2>1. subs[c].state = "accepted" /\ subs'[c] = [subs[c] EXCEPT !.state = "joined"]
    BY <1>0, <1>2 DEF Join
  <2>2. /\ subs'[c].state = "joined" /\ subs'[c].hand = subs[c].hand
        /\ subs'[c].delivered = subs[c].delivered
    BY <1>0, <2>1 DEF Subscription
  <2>3. QED
    BY <2>1, <2>2 DEF NoGap
<1>3. CASE Subscribe(c)
  <2>1. /\ subs[c].state = "joined"
        /\ subs'[c] = [subs[c] EXCEPT !.state = "active",
                         !.start = Len(log) + 1, !.next = Len(log) + 1]
    BY <1>0, <1>3 DEF Subscribe
  <2>2. /\ subs'[c].state = "active" /\ subs'[c].hand = subs[c].hand
        /\ subs'[c].delivered = subs[c].delivered
        /\ subs'[c].start = Len(log) + 1 /\ subs'[c].next = Len(log) + 1
    BY <1>0, <2>1 DEF Subscription
  <2>3. Received(c)' = <<>>
    BY <1>0, <1>f, <2>2 DEF Received
  <2>4. Keep(<<>>, Mine(c)) = <<>> /\ Mine(c)' = Mine(c)
    BY KeepAppend DEF Mine
  <2>5. subs[c].delivered \o subs[c].hand = <<>>
    BY <2>1 DEF NoGap
  <2>6. /\ (subs[c].delivered \o subs[c].hand)' = <<>>
        /\ Keep(Received(c), Mine(c))' = <<>>
    BY <2>2, <2>3, <2>4, <2>5
  <2>7. subs'[c].start >= 1
    BY <1>0, <2>2
  <2>8. QED
    BY <2>2, <2>6, <2>7 DEF NoGap
<1>4. CASE Receive(c)
  <2> DEFINE e == log[n]
  <2>1. /\ subs[c].state = "active" /\ subs[c].hand = <<>>
        /\ n \in 1..Len(log)
        /\ subs'[c] = [subs[c] EXCEPT !.next = n + 1,
                         !.hand = IF ShouldSend(e, AddressOf[c]) THEN <<e>>
                                                                 ELSE <<>>]
    BY <1>0, <1>4 DEF Receive, Backlog, TaskInv
  <2>2. /\ subs'[c].state = "active" /\ subs'[c].start = s
        /\ subs'[c].next = n + 1 /\ subs'[c].delivered = subs[c].delivered
        /\ subs'[c].hand = IF ShouldSend(e, AddressOf[c]) THEN <<e>> ELSE <<>>
    BY <1>0, <2>1 DEF Subscription
  <2>3. /\ s >= 1 /\ subs[c].delivered = Keep(Received(c), Mine(c))
    BY <1>0, <2>1 DEF NoGap
  <2>4. e = log[n] /\ s \in Nat \ {0} /\ n \in Nat /\ s <= n /\ n <= Len(log)
    BY <1>0, <2>1, <2>3
  <2> HIDE DEF s, n, e
  <2>5. /\ SubSeq(log, s, n - 1) \in Seq(BackendEvent) /\ e \in BackendEvent
        /\ SubSeq(log, s, n) = Append(SubSeq(log, s, n - 1), e)
    BY <1>0, <2>4, SubSeqGrows
  <2>6. Received(c) = SubSeq(log, s, n - 1) /\ Received(c)' = SubSeq(log, s, n)
    <3>1. Received(c) = SubSeq(log, s, n - 1)
      BY DEF Received, s, n
    <3>2. subs'[c].next - 1 = n
      BY <2>2, <2>4
    <3>3. Received(c)' = SubSeq(log', subs'[c].start, subs'[c].next - 1)
      BY DEF Received
    <3>4. Received(c)' = SubSeq(log, s, n)
      BY <1>f, <2>2, <3>2, <3>3, Zenon
    <3>5. QED
      BY <3>1, <3>4
  <2>7. Mine(c)' = Mine(c) /\ (e \in Mine(c) <=> ShouldSend(e, AddressOf[c]))
    BY <2>5 DEF Mine
  <2>8. Keep(Received(c)', Mine(c)) = AddIf(subs[c].delivered, e, Mine(c))
    <3> DEFINE r == SubSeq(log, s, n - 1)
               T == Mine(c)
               B == BackendEvent
    <3> HIDE DEF r, T, B
    <3>1. r \in Seq(B) /\ e \in B /\ Received(c)' = Append(r, e)
          /\ subs[c].delivered = Keep(r, T)
      BY <2>3, <2>5, <2>6 DEF r, T, B
    <3>2. \A t \in Seq(B), x \in B :
             Keep(Append(t, x), T) = AddIf(Keep(t, T), x, T)
      BY KeepAppend
    <3>3. Keep(Append(r, e), T) = AddIf(Keep(r, T), e, T)
      BY <3>1, <3>2
    <3>4. QED
      BY <3>1, <3>3 DEF T
  <2>9. AddIf(subs[c].delivered, e, Mine(c)) =
          subs[c].delivered \o subs'[c].hand
    <3> DEFINE d == subs[c].delivered
               T == Mine(c)
               B == BackendEvent
    <3> HIDE DEF d, T, B
    <3>1. d \in Seq(B) /\ e \in B
      BY <1>0, <2>5 DEF d, B
    <3>2. AddIf(d, e, T) = d \o (IF e \in T THEN <<e>> ELSE <<>>)
      BY <3>1, AddIfIsConcat
    <3>3. subs'[c].hand = IF e \in T THEN <<e>> ELSE <<>>
      BY <2>2, <2>7 DEF T
    <3>4. QED
      BY <3>2, <3>3 DEF d, T
  <2>10. QED
    BY <2>2, <2>3, <2>7, <2>8, <2>9 DEF NoGap, s
<1>5. ASSUME subs[c].state = "active",
             subs'[c] = [subs[c] EXCEPT !.state = "ended"]
      PROVE  NoGap(c)'
  <2>1. /\ subs'[c].state = "ended" /\ subs'[c].start = subs[c].start
        /\ subs'[c].next = subs[c].next /\ subs'[c].hand = subs[c].hand
        /\ subs'[c].delivered = subs[c].delivered
    BY <1>0, <1>5 DEF Subscription
  <2>2. Received(c)' = Received(c) /\ Mine(c)' = Mine(c)
    BY <1>f, <2>1 DEF Received, Mine
  <2>3. QED
    BY <1>5, <2>1, <2>2 DEF NoGap
<1>6. CASE Lag(c)
  BY <1>0, <1>5, <1>6 DEF Lag
<1>7. CASE Deliver(c)
  <2>1. /\ subs[c].state = "active"
        /\ subs'[c] = [subs[c] EXCEPT !.hand = <<>>,
                         !.delivered = subs[c].delivered \o subs[c].hand]
    BY <1>0, <1>7 DEF Deliver
  <2>2. /\ subs'[c].state = "active" /\ subs'[c].start = subs[c].start
        /\ subs'[c].next = subs[c].next /\ subs'[c].hand = <<>>
        /\ subs'[c].delivered = subs[c].delivered \o subs[c].hand
    BY <1>0, <2>1 DEF Subscription
  <2>3. Received(c)' = Received(c) /\ Mine(c)' = Mine(c)
    BY <1>f, <2>2 DEF Received, Mine
  <2>4. subs[c].delivered \o subs[c].hand \in Seq(BackendEvent)
    BY <1>0
  <2>5. subs'[c].delivered \o subs'[c].hand = subs[c].delivered \o subs[c].hand
    BY <2>2, <2>4
  <2>6. QED
    BY <2>1, <2>2, <2>3, <2>5 DEF NoGap
<1>8. CASE SinkFails(c)
  BY <1>0, <1>5, <1>8 DEF SinkFails
<1>9. QED
  BY <1>1, <1>2, <1>3, <1>4, <1>6, <1>7, <1>8 DEF TaskStep

GapInv == StreamInv /\ \A c \in Clients : NoGap(c)

\* It holds of every client in every reachable state.
LEMMA GapInvHolds == ServiceSpec => []GapInv
<1>1. ServiceInit => GapInv
  <2> SUFFICES ASSUME ServiceInit, NEW c \in Clients PROVE NoGap(c)
    BY StreamInvInit DEF GapInv
  <2>1. /\ subs[c].state = "none" /\ subs[c].hand = <<>>
        /\ subs[c].delivered = <<>>
    BY DEF ServiceInit
  <2>2. QED
    BY <2>1 DEF NoGap
<1>2. GapInv /\ [ServiceNext]_serviceVars => GapInv'
  <2> SUFFICES ASSUME GapInv, [ServiceNext]_serviceVars,
                      NEW c \in Clients
               PROVE  NoGap(c)'
    BY StreamInvStep DEF GapInv
  <2>1. NoGap(c) /\ subs[c].start \in Nat /\ subs[c].next \in Nat
        /\ subs[c].next <= Len(log) + 1 /\ log \in Seq(BackendEvent)
        /\ outbox \in Seq(BackendEvent)
    BY DEF GapInv, StreamInv, ServiceTypeOK, Subscription
  <2>2. CASE UNCHANGED <<log, subs>>
    BY <2>1, <2>2 DEF NoGap, Received, Mine
  <2>3. CASE Broadcast
    <3>1. /\ subs' = subs /\ Head(outbox) \in BackendEvent
          /\ log' = Append(log, Head(outbox)) /\ Mine(c)' = Mine(c)
      BY <2>1, <2>3 DEF Broadcast, Mine
    <3>2. CASE subs[c].state \in {"active", "ended"}
      <4>1. subs[c].start \in Nat \ {0}
        BY <2>1, <3>2 DEF NoGap
      <4>2. subs[c].next - 1 \in Nat /\ subs[c].next - 1 <= Len(log)
        BY <2>1, <3>2 DEF GapInv, StreamInv, TaskInv
      <4>3. Received(c)' = Received(c)
        BY <2>1, <3>1, <4>1, <4>2, SubSeqOfAppend DEF Received
      <4>4. QED
        BY <2>1, <3>1, <4>3 DEF NoGap
    <3>3. CASE subs[c].state \notin {"active", "ended"}
      BY <2>1, <3>1, <3>3 DEF NoGap
    <3>4. QED
      BY <3>2, <3>3
  <2>4. ASSUME NEW d \in Clients, Accept(d) \/ TaskStep(d)
        PROVE  NoGap(c)'
    <3>1. CASE d = c
      BY <2>1, <2>4, <3>1, TaskStepKeepsNoGap DEF GapInv
    <3>2. CASE d # c
      <4>1. log' = log /\ subs'[c] = subs[c]
        BY <2>4, <3>2, TaskStepsFrame DEF GapInv
      <4>2. QED
        BY <2>1, <4>1 DEF NoGap, Received, Mine
    <3>3. QED
      BY <3>1, <3>2
  <2>5. CASE Call \/ TimePasses \/ UNCHANGED serviceVars
    BY <2>2, <2>5 DEF Call, TimePasses, serviceVars
  <2>6. QED
    BY <2>3, <2>4, <2>5 DEF ServiceNext
<1>3. QED
  BY <1>1, <1>2, PTL DEF ServiceSpec

\* What a client is sent has no gap and no duplicate, for any capacity of the
\* channel and whatever the other clients and the handlers do
\* (subscribe_to_events).
THEOREM StreamsHaveNoGap == ServiceSpec => []StreamHasNoGap
<1>1. GapInv => StreamHasNoGap
  BY DEF GapInv, NoGap, StreamHasNoGap
<1>2. QED
  BY <1>1, GapInvHolds, PTL

-----------------------------------------------------------------------------
(* Who is told *)

\* An answer to a fetch holds only transactions that its address may fetch,
\* when the routes in  N  were named.
Honest(e, N) ==
  e.type = "PendingTransactionsFetched" =>
    \A t \in Range(e.transactions) :
      \/ e.address \in {MultiId(t)[1], MultiId(t)[2]}
      \/ <<e.address, MultiId(t)>> \in N

\* What may be sent to an address.
MayBeTold(x, e, N) ==
  \A t \in Carried(e) :
    \/ x \in {MultiId(t)[1], MultiId(t)[2]}
    \/ <<x, MultiId(t)>> \in N
    \/ e.type \in DataEventType /\ e.address = x

\* The filter lets an address have what it may be told.
LEMMA FilteredMayBeTold ==
  ASSUME NEW e \in BackendEvent, NEW x, NEW N, Honest(e, N), ShouldSend(e, x)
  PROVE  MayBeTold(x, e, N)
<1>0. \A d : Concerns(d, x) => x \in {MultiId(d)[1], MultiId(d)[2]}
  BY DEF Concerns, MultiId
<1>1. CASE e.type \in DataEventType
  <2>1. Carried(e) = {e.data} \ {Undecodable}
    BY <1>1 DEF Carried, DataEventType
  <2>2. e.address = x \/ Concerns(e.data, x)
    BY <1>1 DEF ShouldSend, DataEventType
  <2>3. QED
    BY <1>0, <1>1, <2>1, <2>2 DEF MayBeTold
<1>2. CASE e.type = "DataExpired"
  <2>1. Carried(e) = {e.data} \ {Undecodable}
    BY <1>2 DEF Carried
  <2>2. Concerns(e.data, x)
    BY <1>2 DEF ShouldSend, DataEventType
  <2>3. QED
    BY <1>0, <2>1, <2>2 DEF MayBeTold
<1>3. CASE e.type = "PendingTransactionsFetched"
  <2>1. Carried(e) = Range(e.transactions)
    BY <1>3 DEF Carried, DataEventType
  <2>2. e.address = x
    BY <1>3 DEF ShouldSend, DataEventType
  <2>3. QED
    BY <1>3, <2>1, <2>2 DEF Honest, MayBeTold
<1>4. CASE e.type = "PeerDisconnected"
  <2>1. Carried(e) = {}
    BY <1>4 DEF Carried, DataEventType
  <2>2. QED
    BY <2>1 DEF MayBeTold
<1>5. QED
  BY <1>1, <1>2, <1>3, <1>4 DEF BackendEvent

\* The handlers answer a fetch honestly.
LEMMA HandlersAreHonest ==
  ASSUME StoreInv, RpcCall
  PROVE  \A i \in DOMAIN emitted' : Honest(emitted'[i], named)
<1>1. ASSUME NEW x \in Addr, FetchPendingTransactions(x)
      PROVE  \A i \in DOMAIN emitted' : Honest(emitted'[i], named)
  <2> DEFINE P == PendingTransactions(x)
             ev == [ type |-> "PendingTransactionsFetched", address |-> x,
                     transactions |-> P ]
  <2>1. emitted' = <<ev>>
    BY <1>1 DEF FetchPendingTransactions
  <2>2. \A t \in Range(P) : \/ x \in {MultiId(t)[1], MultiId(t)[2]}
                            \/ <<x, MultiId(t)>> \in named
    BY PendingFacts DEF MayFetch
  <2> HIDE DEF P
  <2>3. Honest(ev, named)
    BY <2>2 DEF Honest
  <2> HIDE DEF ev
  <2>4. QED
    BY <2>1, <2>3
<1>2. CASE ~ \E x \in Addr : FetchPendingTransactions(x)
  BY <1>2, OnlyFetchAnswers DEF Honest, BackendNext
<1>3. QED
  BY <1>1, <1>2

\* Routes that were named stay named.
LEMMA NamedStays ==
  ASSUME [BackendNext]_backendVars
  PROVE  named \subseteq named'
<1>1. ASSUME NEW a \in Addr, NEW t \in Tx, HandleSenderRequest(a, t)
      PROVE  named \subseteq named'
  BY <1>1 DEF HandleSenderRequest
<1>2. ASSUME NEW a \in Addr, NEW t \in Tx, NEW type, SenderUpdate(type, a, t)
      PROVE  named \subseteq named'
  BY <1>2 DEF SenderUpdate, history
<1>3. ASSUME NEW a \in Addr, NEW t \in Tx,
             HandleReceiverResponse(a, t) \/ DisconnectPeer(a, t)
      PROVE  named \subseteq named'
  <2>1. named' = named
    BY <1>3 DEF HandleReceiverResponse, DisconnectPeer
  <2>2. QED
    BY <2>1
<1>4. QED
  BY <1>1, <1>2, <1>3, KindsOfSteps, QuietStepFacts

\* The steps of the service are steps of the store or leave it alone.
LEMMA ServiceStepIsBackendStep ==
  ASSUME [ServiceNext]_serviceVars
  PROVE  [BackendNext]_backendVars
  BY DEF ServiceNext, serviceVars, Call, TimePasses, Broadcast, BackendNext,
         TaskStep, Accept, Join, Subscribe, Receive, Lag, Deliver, SinkFails,
         Quiet

-----------------------------------------------------------------------------
(* The streams *)

\* The inductive invariant: every event on its way or in the log is honest, and
\* every client was sent only what its address may be told.
HonestFor(N) ==
  /\ \A i \in DOMAIN outbox : Honest(outbox[i], N)
  /\ \A i \in DOMAIN log : Honest(log[i], N)
  /\ \A c \in Clients : \A i \in DOMAIN subs[c].delivered :
       MayBeTold(AddressOf[c], subs[c].delivered[i], N)
PartyInv == HonestFor(named)

\* What is honest stays so when more routes are named.
LEMMA HonestyStays ==
  ASSUME NEW N, NEW M, N \subseteq M, HonestFor(N)
  PROVE  HonestFor(M)
  BY DEF HonestFor, Honest, MayBeTold

\* Every step keeps the events honest.
LEMMA PartyInvStep ==
  ASSUME StreamInv, StreamInv', PartyInv, [ServiceNext]_serviceVars
  PROVE  PartyInv'
<1> DEFINE M == named'
<1>0. named \subseteq M /\ HonestFor(named)
  BY ServiceStepIsBackendStep, NamedStays DEF PartyInv
<1> HIDE DEF M
<1>m. HonestFor(M)
  BY <1>0, HonestyStays
<1> SUFFICES /\ \A i \in DOMAIN outbox' : Honest(outbox'[i], M)
             /\ \A i \in DOMAIN log' : Honest(log'[i], M)
             /\ \A c \in Clients : \A i \in DOMAIN subs'[c].delivered :
                  MayBeTold(AddressOf[c], subs'[c].delivered[i], M)
  BY DEF PartyInv, HonestFor, M
<1> DEFINE Goal == /\ \A i \in DOMAIN outbox' : Honest(outbox'[i], M)
                   /\ \A i \in DOMAIN log' : Honest(log'[i], M)
                   /\ \A c \in Clients : \A i \in DOMAIN subs'[c].delivered :
                        MayBeTold(AddressOf[c], subs'[c].delivered[i], M)
<1>1. CASE Call
  <2>1. outbox' = emitted' /\ UNCHANGED <<log, subs>> /\ RpcCall
    BY <1>1 DEF Call
  <2>2. \A i \in DOMAIN emitted' : Honest(emitted'[i], named)
    BY <2>1, HandlersAreHonest DEF StreamInv
  <2>3. \A i \in DOMAIN emitted' : Honest(emitted'[i], M)
    BY <1>0, <2>2 DEF Honest
  <2>4. QED
    BY <1>m, <2>1, <2>3 DEF HonestFor
<1>2. CASE TimePasses \/ UNCHANGED serviceVars
  BY <1>m, <1>2 DEF TimePasses, serviceVars, HonestFor
<1>3. CASE Broadcast
  <2>1. /\ outbox \in Seq(BackendEvent) /\ log \in Seq(BackendEvent)
        /\ outbox # <<>> /\ outbox' = Tail(outbox)
        /\ log' = Append(log, Head(outbox)) /\ subs' = subs
    BY <1>3 DEF Broadcast, StreamInv, ServiceTypeOK
  <2>2. \A i \in DOMAIN outbox' : i + 1 \in DOMAIN outbox
                                  /\ outbox'[i] = outbox[i + 1]
    BY <2>1
  <2>3. Head(outbox) = outbox[1] /\ 1 \in DOMAIN outbox
    BY <2>1
  <2>4. \A i \in DOMAIN log' : log'[i] = Head(outbox)
                               \/ (i \in DOMAIN log /\ log'[i] = log[i])
    BY <2>1
  <2>5. QED
    BY <1>m, <2>1, <2>2, <2>3, <2>4 DEF HonestFor
<1>4. ASSUME NEW c \in Clients, Accept(c) \/ TaskStep(c) PROVE Goal
  <2>1. /\ log' = log /\ outbox' = outbox
        /\ \A d \in Clients \ {c} : subs'[d] = subs[d]
    BY <1>4, TaskStepsFrame
  <2>2. /\ subs[c] \in Subscription /\ TaskInv(c) /\ c \in DOMAIN subs
        /\ log \in Seq(BackendEvent)
        /\ subs[c].delivered \in Seq(BackendEvent)
    BY DEF StreamInv, ServiceTypeOK, Subscription
  <2>3. \A i \in DOMAIN subs'[c].delivered :
          MayBeTold(AddressOf[c], subs'[c].delivered[i], M)
    <3>1. CASE Deliver(c)
      <4> DEFINE n == subs[c].next - 1
                 e == log[n]
      <4>1. subs'[c].delivered = subs[c].delivered \o subs[c].hand
            /\ subs[c].hand # <<>>
        BY <2>2, <3>1 DEF Deliver, Subscription
      <4>2. /\ n \in DOMAIN log /\ subs[c].hand = <<e>>
            /\ ShouldSend(e, AddressOf[c])
        BY <2>2, <4>1 DEF TaskInv
      <4>3. e \in BackendEvent /\ Honest(e, M)
        BY <1>m, <2>2, <4>2 DEF HonestFor
      <4> HIDE DEF e, n
      <4>4. MayBeTold(AddressOf[c], e, M)
        BY <4>2, <4>3, FilteredMayBeTold
      <4>5. \A i \in DOMAIN subs'[c].delivered :
              \/ subs'[c].delivered[i] = e
              \/ /\ i \in DOMAIN subs[c].delivered
                 /\ subs'[c].delivered[i] = subs[c].delivered[i]
        BY <2>2, <4>1, <4>2, <4>3
      <4>6. QED
        BY <1>m, <4>4, <4>5 DEF HonestFor
    <3>2. CASE ~Deliver(c)
      <4>1. subs'[c].delivered = subs[c].delivered
        BY <1>4, <2>2, <3>2 DEF TaskStep, Accept, Join, Subscribe, Receive, Lag,
                                SinkFails, Subscription
      <4>2. QED
        BY <1>m, <4>1 DEF HonestFor
    <3>3. QED
      BY <3>1, <3>2
  <2>4. QED
    BY <1>m, <2>1, <2>3 DEF HonestFor
<1>5. QED
  BY <1>1, <1>2, <1>3, <1>4 DEF ServiceNext

\* Every event of the log, and every event on its way, is honest.
LEMMA PartyInvHolds == ServiceSpec => []PartyInv
<1>1. ServiceInit => PartyInv
  BY DEF ServiceInit, PartyInv, HonestFor
<1>2. StreamInv /\ StreamInv' /\ PartyInv /\ [ServiceNext]_serviceVars => PartyInv'
  BY PartyInvStep
<1>3. QED
  BY <1>1, <1>2, StreamInvInit, StreamInvStep, PTL DEF ServiceSpec

\* No client is told of a transaction that its address is not a party of, but
\* by an event of a call made under the client's address, or by a fetch of a
\* route for which a sender request was made under it (subscribe_to_events,
\* matches_direct, matches_tx).
THEOREM ToldOnlyByCallers == ServiceSpec => []OnlyPartiesAreTold
<1>1. PartyInv => OnlyPartiesAreTold
  BY DEF PartyInv, HonestFor, OnlyPartiesAreTold, Delivered, MayBeTold, MayFetch
<1>2. QED
  BY <1>1, PartyInvHolds, PTL

-----------------------------------------------------------------------------
(* The sender's stream ends with what is stored *)

\* The announcements for a route, and those that carry the given data.
AnnouncementsOf(m) == {e \in BackendEvent : Announces(e, m)}
Carrying(d) == {e \in BackendEvent : e.type \in Announcing /\ e.data = d}

\* The inductive invariant: of every stored request the last announcement, sent
\* or about to be sent, carries the stored data.
TruthInv ==
  \A m \in DOMAIN requests :
    LastIsIn(log \o outbox, AnnouncementsOf(m), Carrying(requests[m].data))

\* The stored data of a route, before and after a step.
DataStays(m) == m \in DOMAIN requests /\ requests'[m].data = requests[m].data

\* An update replaces the data of its own request only.
LEMMA UpdatedOthers ==
  ASSUME StoreInv, NEW m, NEW t, NEW now
  PROVE  /\ \A k \in DOMAIN UpdatedRequests(m, t, now) : k # m =>
              /\ k \in DOMAIN requests
              /\ UpdatedRequests(m, t, now)[k] = requests[k]
         /\ ~IsFound(m, now) => m \notin DOMAIN UpdatedRequests(m, t, now)
<1> DEFINE L == LiveRequests
           U == UpdatedRequests(m, t, now)
<1>1. /\ DOMAIN L \subseteq DOMAIN requests
      /\ \A k \in DOMAIN L : L[k] = requests[k]
  BY LiveFacts DEF Shrinks
<1>2. CASE IsFound(m, now)
  <2>1. U = [L EXCEPT ![m].data = t]
    BY <1>2 DEF UpdatedRequests
  <2> HIDE DEF U, L
  <2>2. QED
    BY <1>1, <1>2, <2>1 DEF U
<1>3. CASE ~IsFound(m, now)
  <2>1. U = RemoveKey(L, m)
    BY <1>3 DEF UpdatedRequests
  <2> HIDE DEF U, L
  <2>2. DOMAIN U = DOMAIN L \ {m} /\ \A k \in DOMAIN U : U[k] = L[k]
    BY <2>1 DEF RemoveKey
  <2>3. QED
    BY <1>1, <2>2 DEF U
<1>4. QED
  BY <1>2, <1>3

\* A response leaves the data of the other requests alone.
LEMMA ResponseOthers ==
  ASSUME StoreInv, NEW a \in Addr, NEW t \in Tx, HandleReceiverResponse(a, t),
         NEW m \in DOMAIN requests', m # MultiId(t)
  PROVE  DataStays(m)
<1> DEFINE k == MultiId(t)
           U(now) == UpdatedRequests(k, t, now)
           C(now) == CleanupExpiredRequests(U(now), now)
           e(now) == [data |-> t, created_at |-> now]
<1>1. PICK now, rs, sl, rl :
        /\ rs = U(now) \/ rs = Insert(C(now), k, e(now))
        /\ UpdateMetrics(now, rs, sl, rl)
  BY ReceiverResponseParts DEF ResponseTable
<1>2. PICK at : requests' = CleanupExpiredRequests(rs, at)
  BY <1>1 DEF UpdateMetrics
<1>3. m \in DOMAIN rs /\ requests'[m] = rs[m]
  BY <1>2 DEF CleanupExpiredRequests
<1>4. m \in DOMAIN U(now) /\ rs[m] = U(now)[m]
  <2> HIDE DEF U, e, k
  <2>1. CASE rs = U(now)
    BY <1>3, <2>1
  <2>2. CASE rs = Insert(C(now), k, e(now))
    <3>1. m \in DOMAIN C(now) /\ rs[m] = C(now)[m]
      BY <1>3, <2>2 DEF Insert, k
    <3>2. QED
      BY <3>1 DEF CleanupExpiredRequests
  <2>3. QED
    BY <1>1, <2>1, <2>2
<1>5. m \in DOMAIN requests /\ U(now)[m] = requests[m]
  BY <1>4, UpdatedOthers
<1>6. QED
  BY <1>3, <1>4, <1>5 DEF DataStays

\* What a handler announces for a request that is stored is what is stored, and
\* a handler that announces nothing for it leaves its data alone.
Tells(m) ==
  /\ \A i \in DOMAIN emitted' :
       Announces(emitted'[i], m) => emitted'[i].data = requests'[m].data
  /\ (\A i \in DOMAIN emitted' : ~Announces(emitted'[i], m)) => DataStays(m)

\* An expiry announces nothing.
LEMMA ExpiredAnnouncesNothing ==
  ASSUME NEW m
  PROVE  ExpiredEvent(m).type \notin Announcing
  BY DEF ExpiredEvent, DataExpired, Announcing

\* Every handler tells the truth.
LEMMA HandlersTell ==
  ASSUME StoreInv, RpcCall, NEW m \in DOMAIN requests'
  PROVE  Tells(m)
<1>0. \A type \in Announcing : \A x, t, k :
        Announces(DataEvent(type, x, t), k) <=> MultiId(t) = k
  BY DEF Announces, DataEvent
<1>1. ASSUME NEW a \in Addr, NEW t \in Tx, HandleSenderRequest(a, t)
      PROVE  Tells(m)
  <2> DEFINE rec == DataEvent("SenderRequestReceived", a, t)
             ev == DataEvent("SenderRequestHandled", t.receiver, t)
  <2>1. /\ requests'[MultiId(t)].data = t
        /\ m # MultiId(t) => DataStays(m)
    BY <1>1, SenderRequestTable DEF DataStays
  <2>2. emitted' = <<rec, ev>>
    BY <1>1 DEF HandleSenderRequest
  <2>3. /\ ~Announces(rec, m) /\ (Announces(ev, m) <=> MultiId(t) = m)
        /\ ev.data = t
    BY <1>0 DEF Announces, DataEvent, Announcing
  <2> HIDE DEF rec, ev
  <2>4. /\ DOMAIN emitted' = {1, 2} /\ emitted'[1] = rec /\ emitted'[2] = ev
    BY <2>2
  <2>5. QED
    BY <2>1, <2>3, <2>4 DEF Tells
<1>2. ASSUME NEW a \in Addr, NEW t \in Tx, NEW type \in UpdateTypes,
             SenderUpdate(type, a, t)
      PROVE  Tells(m)
  <2> DEFINE k == MultiId(t)
             ev == DataEvent(type, a, t)
             x == ExpiredEvent(k)
  <2>0. /\ Announces(ev, m) <=> k = m
        /\ ev.data = t /\ ~Announces(x, m)
    BY <1>0, ExpiredAnnouncesNothing
    DEF Announces, DataEvent, UpdateTypes, Announcing
  <2>1. CASE emitted' = <<>> /\ requests' = requests
    BY <2>1 DEF Tells, DataStays
  <2>2. CASE /\ clock' \in Moments /\ requests' = UpdatedRequests(k, t, clock')
             /\ emitted' = << IF IsFound(k, clock') THEN ev ELSE x >>
    <3>1. /\ m # k => DataStays(m)
          /\ ~IsFound(k, clock') => k # m
      BY <2>2, UpdatedOthers DEF DataStays
    <3>2. clock' \in Nat
      BY <2>2, BackendAssumption DEF StoreInv, RestOK, Moments
    <3>3. IsFound(k, clock') => requests'[k].data = t
      BY <2>2, <3>2, UpdatedFacts
    <3> HIDE DEF ev, x, k
    <3>4. /\ DOMAIN emitted' = {1}
          /\ emitted'[1] = IF IsFound(k, clock') THEN ev ELSE x
      BY <2>2
    <3>5. QED
      BY <2>0, <3>1, <3>3, <3>4 DEF Tells
  <2>3. QED
    BY <1>2, <2>1, <2>2 DEF SenderUpdate, store
<1>3. ASSUME NEW a \in Addr, NEW t \in Tx, HandleReceiverResponse(a, t)
      PROVE  Tells(m)
  <2> DEFINE k == MultiId(t)
             rec == DataEvent("ReceiverResponseReceived", a, t)
             x == ExpiredEvent(k)
             ev == DataEvent("ReceiverResponseHandled", a, t)
  <2>0. /\ Announces(ev, m) <=> k = m
        /\ ev.data = t /\ ~Announces(x, m) /\ ~Announces(rec, m)
    BY <1>0, ExpiredAnnouncesNothing DEF Announces, DataEvent, Announcing
  <2>1. m # k => DataStays(m)
    BY <1>3, ResponseOthers
  <2>2. k = m => requests'[m].data = t
    BY <1>3, ReceiverResponseTable
  <2>3. emitted' = <<rec, ev>> \/ emitted' = <<rec, x, ev>>
    BY <1>3 DEF HandleReceiverResponse
  <2> HIDE DEF rec, x, ev, k
  <2>4. CASE emitted' = <<rec, ev>>
    <3>1. DOMAIN emitted' = {1, 2} /\ emitted'[1] = rec /\ emitted'[2] = ev
      BY <2>4
    <3>2. QED
      BY <2>0, <2>1, <2>2, <3>1 DEF Tells
  <2>5. CASE emitted' = <<rec, x, ev>>
    <3>1. /\ DOMAIN emitted' = {1, 2, 3} /\ emitted'[1] = rec
          /\ emitted'[2] = x /\ emitted'[3] = ev
      BY <2>5
    <3>2. QED
      BY <2>0, <2>1, <2>2, <3>1 DEF Tells
  <2>6. QED
    BY <2>3, <2>4, <2>5
<1>4. ASSUME NEW a \in Addr, NEW t \in Tx, DisconnectPeer(a, t) PROVE Tells(m)
  <2>1. DataStays(m)
    <3>1. \/ requests' = requests
          \/ \E at : requests' = CleanupExpiredRequests(requests, at)
      BY <1>4 DEF DisconnectPeer, UpdateMetrics
    <3>2. QED
      BY <3>1 DEF CleanupExpiredRequests, DataStays
  <2> DEFINE ev == [type |-> "PeerDisconnected", address |-> a]
  <2>2. ~Announces(ev, m)
    BY DEF Announces, Announcing
  <2>3. emitted' = <<>> \/ emitted' = <<ev>>
    BY <1>4, DisconnectPeerTable
  <2> HIDE DEF ev
  <2>4. QED
    BY <2>1, <2>2, <2>3 DEF Tells
<1>5. ASSUME \/ RejectUndecodable
             \/ \E x \in Callers : HandleSenderRequestUndecodable(x)
             \/ \E x \in Addr : FetchPendingTransactions(x)
      PROVE  Tells(m)
  <2>1. DataStays(m)
    BY <1>5 DEF RejectUndecodable, HandleSenderRequestUndecodable,
                FetchPendingTransactions, store, DataStays
  <2>2. \A i \in DOMAIN emitted' : ~Announces(emitted'[i], m)
    BY <1>5 DEF RejectUndecodable, HandleSenderRequestUndecodable,
                FetchPendingTransactions, DataEvent, Announces, Announcing
  <2>3. QED
    BY <2>1, <2>2 DEF Tells
<1>6. Callers \subseteq Addr
  BY BackendAssumption
<1>7. QED
  BY <1>1, <1>2, <1>3, <1>4, <1>5, <1>6
  DEF RpcCall, HandleSenderConfirmation, HandleSenderRevertation,
      HandleTxSubmissionUpdates, UpdateTypes

\* Every step keeps it.  A handler that changes what is stored for a route has
\* an announcement with the new data to send; a handler without one leaves the
\* last announcement as true as it was.
LEMMA TruthInvStep ==
  ASSUME StreamInv, StreamInv', TruthInv, [ServiceNext]_serviceVars
  PROVE  TruthInv'
<1>0. log \in Seq(BackendEvent) /\ outbox \in Seq(BackendEvent) /\ StoreInv
  BY DEF StreamInv, ServiceTypeOK
<1>1. CASE Call
  <2>1. /\ outbox' = emitted' /\ log' = log /\ RpcCall /\ outbox = <<>>
        /\ emitted' \in Seq(BackendEvent)
    BY <1>1 DEF Call, StreamInv, StoreInv, RestOK, Events
  <2>2. ASSUME NEW m \in DOMAIN requests'
        PROVE  LastIsIn(log \o emitted', AnnouncementsOf(m),
                        Carrying(requests'[m].data))
    <3> DEFINE A == AnnouncementsOf(m)
               D == Carrying(requests'[m].data)
               t == emitted'
    <3>0. Tells(m)
      BY <1>0, <2>1, HandlersTell
    <3>1. \A i \in DOMAIN t : t[i] \in A => t[i] \in D
      BY <3>0 DEF Tells, Announces, AnnouncementsOf, Carrying
    <3>2. ASSUME \A i \in DOMAIN t : t[i] \notin A PROVE LastIsIn(log, A, D)
      <4>1. \A i \in DOMAIN t : t[i] \in BackendEvent
        BY <2>1
      <4>2. DataStays(m)
        BY <3>0, <3>2, <4>1 DEF Tells, AnnouncementsOf
      <4>3. LastIsIn(log \o outbox, A, Carrying(requests[m].data))
        BY <4>2 DEF DataStays, TruthInv
      <4>4. log \o outbox = log
        BY <1>0, <2>1
      <4>5. QED
        BY <4>2, <4>3, <4>4 DEF DataStays
    <3> HIDE DEF A, D, t
    <3>3. t \in Seq(BackendEvent)
      BY <2>1 DEF t
    <3>4. LastIsIn(log \o t, A, D)
      BY <1>0, <3>1, <3>2, <3>3, LastOfConcat
    <3>5. QED
      BY <3>4 DEF A, D, t
  <2>3. QED
    BY <2>1, <2>2 DEF TruthInv, AnnouncementsOf, Carrying, Announces
<1>2. CASE UNCHANGED <<requests, outbox, log>>
  BY <1>2 DEF TruthInv
<1>3. CASE Broadcast
  <2>1. /\ outbox # <<>> /\ outbox' = Tail(outbox)
        /\ log' = Append(log, Head(outbox)) /\ requests' = requests
    BY <1>3 DEF Broadcast, backendVars
  <2>2. log' \o outbox' = log \o outbox
    BY <1>0, <2>1, HeadMoves
  <2>3. QED
    BY <2>1, <2>2 DEF TruthInv
<1>4. ASSUME NEW c \in Clients, Accept(c) \/ TaskStep(c)
      PROVE  UNCHANGED <<requests, outbox, log>>
  BY <1>4, TaskStepsFrame DEF StreamInv, backendVars
<1>5. CASE TimePasses \/ UNCHANGED serviceVars
  BY <1>2, <1>5 DEF TimePasses, Tick, store, serviceVars, backendVars
<1>6. QED
  BY <1>1, <1>2, <1>3, <1>4, <1>5 DEF ServiceNext

\* If the last of a kind passes the filter, it is also the last of those of the
\* kind that pass.
LEMMA LastOfBoth ==
  ASSUME NEW E, NEW s \in Seq(E), NEW A, NEW T, NEW D, LastIsIn(s, A, D),
         \A k \in DOMAIN s : /\ s[k] \in A
                             /\ \A j \in DOMAIN s : s[j] \in A => j <= k
                             => s[k] \in T
  PROVE  LastIsIn(s, A \cap T, D)
<1> SUFFICES ASSUME NEW i \in DOMAIN s, s[i] \in A, s[i] \in T,
                    \A j \in DOMAIN s : i < j => s[j] \notin A \cap T
             PROVE  s[i] \in D
  BY DEF LastIsIn
<1> DEFINE P == {j \in DOMAIN s : s[j] \in A}
           k == Max(P)
<1>1. Len(s) \in Nat /\ DOMAIN s = 1..Len(s)
  OBVIOUS
<1>2. P \in SUBSET (1..Len(s)) /\ i \in P
  BY <1>1
<1>3. k \in P /\ \A j \in P : k >= j
  <2> HIDE DEF P
  <2>1. QED
    BY <1>1, <1>2, MaxOfSet
<1> HIDE DEF k
<1>4. k \in DOMAIN s /\ s[k] \in A /\ k \in Int /\ i \in Int
  BY <1>1, <1>3
<1>5. \A j \in DOMAIN s : s[j] \in A => j <= k
  BY <1>1, <1>3, <1>4
<1>6. s[k] \in T
  BY <1>4, <1>5
<1>7. i = k
  <2>1. i <= k
    BY <1>5
  <2>2. ~(i < k)
    BY <1>4, <1>6
  <2>3. QED
    BY <1>4, <2>1, <2>2
<1>8. \A j \in DOMAIN s : k < j => s[j] \notin A
  BY <1>1, <1>4, <1>5
<1>9. QED
  BY <1>4, <1>7, <1>8 DEF LastIsIn

\* A task that is at the end of the stream, with nothing in its hand and
\* nothing on its way, has told the sender of a stored request what is stored.
LEMMA TruthIsTold ==
  ASSUME StreamInv, TruthInv, NEW c \in Clients, NoGap(c),
         NEW m \in DOMAIN requests, m[1] = AddressOf[c],
         subs[c].state = "active", outbox = <<>>, Backlog(c) = 0,
         subs[c].hand = <<>>,
         IsReverted(requests[m].data) =>
           \A k \in LastAnnouncement(log, m) : log[k].address = m[1]
  PROVE  LastIsIn(subs[c].delivered, AnnouncementsOf(m),
                  Carrying(requests[m].data))
<1> DEFINE A == AnnouncementsOf(m)
           T == Mine(c)
           D == Carrying(requests[m].data)
           b == subs[c].start
           q == SubSeq(log, b, Len(log))
           d == subs[c].delivered
<1>1. /\ log \in Seq(BackendEvent) /\ subs[c].next \in Nat
      /\ b \in Nat \ {0} /\ b <= Len(log) + 1 /\ subs[c].next = Len(log) + 1
      /\ d \in Seq(BackendEvent)
  <2>1. log \in Seq(BackendEvent) /\ subs \in [Clients -> Subscription]
    BY DEF StreamInv, ServiceTypeOK
  <2>2. subs[c] \in Subscription
    BY <2>1
  <2>3. subs[c].next \in Nat /\ b \in Nat /\ d \in Seq(BackendEvent)
    BY <2>2 DEF Subscription
  <2>4. Len(log) \in Nat
    BY <2>1
  <2>5. subs[c].next = Len(log) + 1
    BY <2>3, <2>4 DEF Backlog
  <2>6. b <= Len(log) + 1
    BY <2>3, <2>4, <2>5 DEF StreamInv, ServiceTypeOK
  <2>7. b >= 1
    BY DEF NoGap
  <2>8. QED
    BY <2>1, <2>3, <2>5, <2>6, <2>7
<1>2. LastIsIn(log, A, D)
  <2>1. log \o outbox = log
    BY <1>1
  <2>2. QED
    BY <2>1 DEF TruthInv
<1>3. d = Keep(q, T)
  <2>1. d \o subs[c].hand = d
    BY <1>1
  <2>2. subs[c].next - 1 = Len(log)
    BY <1>1
  <2>3. QED
    BY <2>1, <2>2 DEF NoGap, Received
<1>4. ASSUME NEW k \in DOMAIN log, log[k] \in A,
             \A j \in DOMAIN log : log[j] \in A => j <= k
      PROVE  log[k] \in T
  <2>0. Len(log) \in Nat /\ DOMAIN log = 1..Len(log)
    BY <1>1
  <2>1. \A j \in DOMAIN log : k < j => log[j] \notin A
    BY <1>4, <2>0
  <2>2. /\ log[k] \in BackendEvent /\ log[k].type \in Announcing
        /\ log[k].data = requests[m].data
    BY <1>2, <1>4, <2>1 DEF LastIsIn, Carrying
  <2>3. /\ requests[m].data \in Tx
        /\ requests[m].data.sender = m[1]
    <3>1. requests[m].data \in Tx /\ MultiId(requests[m].data) = m
      BY RequestFacts DEF StreamInv, StoreInv, StoreSound, Sound
    <3>2. QED
      BY <3>1, TxFacts
  <2>4. log[k].type \in DataEventType
    BY <2>2 DEF Announcing, DataEventType
  <2>5. CASE IsReverted(requests[m].data)
    <3>1. k \in LastAnnouncement(log, m)
      BY <1>1, <1>4 DEF LastAnnouncement, AnnouncementsOf
    <3>2. log[k].address = AddressOf[c]
      BY <2>5, <3>1
    <3>3. QED
      BY <2>2, <2>4, <3>2 DEF Mine, ShouldSend
  <2>6. CASE ~IsReverted(requests[m].data)
    <3>1. requests[m].data # Undecodable
      BY <2>3, BackendAssumption
    <3>2. Concerns(log[k].data, AddressOf[c])
      BY <2>2, <2>3, <2>6, <3>1 DEF Concerns
    <3>3. QED
      BY <2>2, <2>4, <3>2 DEF Mine, ShouldSend
  <2>7. QED
    BY <2>5, <2>6
<1> HIDE DEF A, D, T, b
<1>5. LastIsIn(log, A \cap T, D)
  BY <1>1, <1>2, <1>4, LastOfBoth
<1>6. LastIsIn(q, A \cap T, D)
  BY <1>1, <1>5, LastOfSubSeq
<1>7. q \in Seq(BackendEvent)
  BY <1>1
<1> HIDE DEF q
<1>8. LastIsIn(d, A \cap T, D)
  <2>1. \A e \in BackendEvent : e \in A \cap T => e \in T
    OBVIOUS
  <2>2. QED
    BY <1>3, <1>6, <1>7, <2>1, LastOfKeep
<1>9. \A i \in DOMAIN d : d[i] \in T
  <2>1. Range(d) = Range(q) \cap T
    BY <1>3, <1>7, KeepRange
  <2>2. \A i \in DOMAIN d : d[i] \in Range(d)
    BY DEF Range
  <2>3. QED
    BY <2>1, <2>2
<1>10. LastIsIn(d, A, D)
  BY <1>8, <1>9 DEF LastIsIn
<1>11. QED
  BY <1>10 DEF A, D

\* A task that has received everything has told its client the truth: the last
\* announcement that the sender of a stored request was sent carries the data
\* the store holds now (every handler, subscribe_to_events).
THEOREM SendersAreUpToDate == ServiceSpec => []SenderIsUpToDate
<1>1. ServiceInit => TruthInv
  BY DEF ServiceInit, BackendInit, TruthInv
<1>2. StreamInv /\ StreamInv' /\ TruthInv /\ [ServiceNext]_serviceVars => TruthInv'
  BY TruthInvStep
<1>3. GapInv /\ TruthInv => SenderIsUpToDate
  <2> SUFFICES ASSUME GapInv, TruthInv, NEW c \in Clients,
                      NEW m \in DOMAIN requests, m[1] = AddressOf[c],
                      subs[c].state = "active", outbox = <<>>,
                      Backlog(c) = 0, subs[c].hand = <<>>,
                      IsReverted(requests[m].data) =>
                        \A k \in LastAnnouncement(log, m) : log[k].address = m[1],
                      NEW i \in LastAnnouncement(subs[c].delivered, m)
               PROVE  subs[c].delivered[i].data = requests[m].data
    BY DEF SenderIsUpToDate
  <2> DEFINE s == subs[c].delivered
  <2>1. s \in Seq(BackendEvent) /\ Len(s) \in Nat /\ DOMAIN s = 1..Len(s)
    BY DEF GapInv, StreamInv, ServiceTypeOK, Subscription
  <2>2. LastIsIn(s, AnnouncementsOf(m), Carrying(requests[m].data))
    BY TruthIsTold DEF GapInv
  <2>3. /\ i \in DOMAIN s /\ Announces(s[i], m)
        /\ \A j \in DOMAIN s : Announces(s[j], m) => j <= i
    BY DEF LastAnnouncement
  <2> HIDE DEF s
  <2>4. /\ s[i] \in AnnouncementsOf(m)
        /\ \A j \in DOMAIN s : i < j => s[j] \notin AnnouncementsOf(m)
    BY <2>1, <2>3 DEF AnnouncementsOf
  <2>5. s[i] \in Carrying(requests[m].data)
    BY <2>2, <2>3, <2>4 DEF LastIsIn
  <2>6. QED
    BY <2>5 DEF Carrying, s
<1>4. GapInv => StreamInv
  BY DEF GapInv
<1>5. QED
  BY <1>1, <1>2, <1>3, <1>4, GapInvHolds, PTL DEF ServiceSpec
=============================================================================
