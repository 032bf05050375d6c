---------------------------- MODULE StoreProofs -----------------------------
(***************************************************************************)
(* What follows from the invariant of BackendProofs: the gauge of pending  *)
(* requests, what a disconnect takes, what starts the time to live anew,   *)
(* and that what is announced is stored.  For any addresses and routes.    *)
(***************************************************************************)
EXTENDS BackendProofs

-----------------------------------------------------------------------------
(* The requests after each kind of step *)

\* handle_sender_request stores the new request, and drops some others.
LEMMA SenderRequestTable ==
  ASSUME StoreInv, NEW a \in Addr, NEW t \in Tx, HandleSenderRequest(a, t)
  PROVE  /\ gauges' = GaugesOf(peers', requests')
         /\ clock' \in Nat
         /\ MultiId(t) \in DOMAIN requests'
         /\ requests'[MultiId(t)].data = t
         /\ ~IsExpired(requests'[MultiId(t)], clock')
         /\ \A m \in DOMAIN requests' : m # MultiId(t) =>
              m \in DOMAIN requests /\ requests'[m] = requests[m]
<1> DEFINE m == MultiId(t)
           e == [data |-> t, created_at |-> clock]
           rs == Insert(LiveRequests, m, e)
           sl == PushId(LiveLists(sender_requests, clock), a, m)
           rl == PushId(LiveLists(receiver_requests, clock), t.receiver, m)
<1>1. clock \in Nat /\ clock <= clock
  BY DEF StoreInv, RestOK
<1>2. /\ UpdateMetrics(clock, rs, sl, rl)
      /\ SenderColumn' \in Columns /\ ReceiverColumn' \in Columns
      /\ Sound(rs, sl, SenderColumn', named', clock)
      /\ Sound(rs, rl, ReceiverColumn', named', clock)
  BY SenderRequestSound
<1>3. gauges' = GaugesOf(peers', requests')
  BY <1>2 DEF UpdateMetrics
<1>4. /\ DOMAIN rs = DOMAIN LiveRequests \cup {m} /\ rs[m] = e
      /\ \A k \in DOMAIN LiveRequests : k # m => rs[k] = LiveRequests[k]
  BY DEF Insert
<1>5. e.data = t /\ e.created_at = clock
  OBVIOUS
<1> HIDE DEF rs, sl, rl, e
<1>6. /\ clock' \in Nat /\ clock' <= clock + HandlerTime
      /\ Shrinks(requests', rs)
      /\ \A k \in DOMAIN requests' : requests'[k] = rs[k]
      /\ \A k \in DOMAIN rs : ~IsExpired(rs[k], clock') => k \in DOMAIN requests'
  BY <1>1, <1>2, SoundMetrics
<1>7. ~IsExpired(rs[m], clock')
  BY <1>1, <1>4, <1>5, <1>6, BackendAssumption DEF IsExpired
<1>8. m \in DOMAIN requests' /\ requests'[m] = e
  BY <1>4, <1>6, <1>7
<1>9. ASSUME NEW k \in DOMAIN requests', k # m
      PROVE  k \in DOMAIN requests /\ requests'[k] = requests[k]
  <2>1. k \in DOMAIN LiveRequests /\ requests'[k] = LiveRequests[k]
    BY <1>4, <1>6, <1>9 DEF Shrinks
  <2>2. QED
    BY <2>1, LiveFacts
<1> HIDE DEF m
<1>10. QED
  BY <1>3, <1>4, <1>5, <1>6, <1>7, <1>8, <1>9 DEF m

\* An update by the sender leaves the table alone, or replaces the data of a
\* live request, or fails.
LEMMA SenderUpdateTable ==
  ASSUME StoreInv, NEW a \in Addr, NEW t \in Tx, NEW type,
         SenderUpdate(type, a, t)
  PROVE  /\ UNCHANGED <<peers, gauges>>
         /\ Shrinks(requests', requests)
         /\ \/ emitted' = <<>>
            \/ emitted' = << ExpiredEvent(MultiId(t)) >>
            \/ /\ emitted' = << DataEvent(type, a, t) >>
               /\ MultiId(t) \in DOMAIN requests'
               /\ requests'[MultiId(t)].data = t
               /\ ~IsExpired(requests'[MultiId(t)], clock')
<1> DEFINE m == MultiId(t)
<1>1. CASE /\ emitted' = <<>>
           /\ UNCHANGED <<clock, peers, store, gauges, history>>
  <2>1. IsRequestTable(requests) /\ requests' = requests
    BY <1>1 DEF StoreInv, StoreSound, Sound, store
  <2>2. Shrinks(requests', requests)
    BY <2>1 DEF Shrinks
  <2>3. QED
    BY <1>1, <2>2
<1>2. CASE /\ clock' \in Moments
           /\ requests' = UpdatedRequests(m, t, clock')
           /\ emitted' = << IF IsFound(m, clock') THEN DataEvent(type, a, t)
                                                 ELSE ExpiredEvent(m) >>
           /\ UNCHANGED <<peers, gauges, history>>
  <2>1. clock' \in Nat
    BY <1>2, BackendAssumption DEF StoreInv, RestOK, Moments
  <2>2. /\ Shrinks(requests', requests)
        /\ IsFound(m, clock') => m \in DOMAIN requests' /\ requests'[m].data = t
    BY <1>2, <2>1, UpdatedFacts
  <2>3. IsFound(m, clock') => ~IsExpired(requests'[m], clock')
    BY <2>2 DEF IsFound, Shrinks, IsExpired
  <2>4. QED
    BY <1>2, <2>2, <2>3
<1>3. QED
  BY <1>1, <1>2 DEF SenderUpdate

\* What was stamped during a handler has not expired when the handler ends.
LEMMA StampedLately ==
  ASSUME NEW e, NEW c \in Nat, NEW n \in Nat, NEW d \in Nat,
         e.created_at = n, c <= n, d <= c + HandlerTime
  PROVE  ~IsExpired(e, d)
<1>1. d - n <= HandlerTime /\ HandlerTime \in Nat /\ Ttl \in Nat /\ HandlerTime <= Ttl
  BY BackendAssumption
<1>2. d - n <= Ttl
  BY <1>1
<1>3. QED
  BY <1>1, <1>2 DEF IsExpired

\* handle_receiver_response drops or keeps the other requests; its own is
\* stored, unless it was found live and has expired since.
LEMMA ReceiverResponseTable ==
  ASSUME StoreInv, NEW a \in Addr, NEW t \in Tx, HandleReceiverResponse(a, t)
  PROVE  /\ gauges' = GaugesOf(peers', requests')
         /\ peers' = peers
         /\ clock' \in Nat
         /\ \A m \in DOMAIN requests' : m # MultiId(t) =>
              /\ m \in DOMAIN requests
              /\ requests'[m].created_at = requests[m].created_at
         /\ \/ /\ MultiId(t) \in DOMAIN requests
               /\ ~IsExpired(requests[MultiId(t)], clock)
               /\ MultiId(t) \in DOMAIN requests' =>
                    /\ requests'[MultiId(t)].data = t
                    /\ requests'[MultiId(t)].created_at
                         = requests[MultiId(t)].created_at
               /\ MultiId(t) \notin DOMAIN requests' =>
                    IsExpired(requests[MultiId(t)], clock')
            \/ /\ MultiId(t) \in DOMAIN requests =>
                    IsExpired(requests[MultiId(t)], clock')
               /\ MultiId(t) \in DOMAIN requests'
               /\ requests'[MultiId(t)].data = t
               /\ ~IsExpired(requests'[MultiId(t)], clock')
<1> DEFINE m == MultiId(t)
<1>1. PICK at, now, rs :
        /\ at \in Nat /\ now \in Nat
        /\ clock <= at /\ at <= now /\ now <= clock + HandlerTime
        /\ ResponseTable(rs, t, now)
        /\ UpdateMetrics(now, rs, LiveLists(sender_requests, at),
                         LiveLists(receiver_requests, at))
  BY ReceiverResponseParts
<1> at \in Nat /\ now \in Nat
  BY <1>1
<1>2. clock \in Nat /\ clock <= now
  BY <1>1 DEF StoreInv, RestOK
<1>3. peers' = peers /\ gauges' = GaugesOf(peers', requests')
  BY <1>1 DEF HandleReceiverResponse, UpdateMetrics
<1>4. /\ SenderColumn' \in Columns /\ ReceiverColumn' \in Columns
      /\ Sound(rs, LiveLists(sender_requests, at), SenderColumn', named, now)
      /\ Sound(rs, LiveLists(receiver_requests, at), ReceiverColumn', named, now)
  BY <1>1, <1>2, ResponseSound
<1>5. /\ clock' \in Nat /\ now <= clock' /\ clock' <= clock + HandlerTime
      /\ Shrinks(requests', rs)
      /\ \A k \in DOMAIN requests' : requests'[k] = rs[k]
      /\ \A k \in DOMAIN rs : ~IsExpired(rs[k], clock') => k \in DOMAIN requests'
  BY <1>1, <1>2, <1>4, SoundMetrics
<1> DEFINE U == UpdatedRequests(m, t, now)
           C == CleanupExpiredRequests(U, now)
           e == [data |-> t, created_at |-> now]
<1>6. /\ Shrinks(U, requests)
      /\ IsFound(m, now) => m \in DOMAIN U /\ U[m].data = t
  BY UpdatedFacts
<1>7. DOMAIN LiveRequests = {k \in DOMAIN requests : ~IsExpired(requests[k], clock)}
  BY LiveFacts
<1>8. CASE IsFound(m, now) /\ rs = U
  <2>1. m \in DOMAIN requests /\ ~IsExpired(requests[m], clock)
    BY <1>7, <1>8 DEF IsFound
  <2> HIDE DEF U, m
  <2>2. \A k \in DOMAIN requests' :
          k \in DOMAIN requests /\ requests'[k].created_at = requests[k].created_at
    BY <1>5, <1>6, <1>8 DEF Shrinks
  <2>3. m \in DOMAIN requests' => requests'[m].data = t
    BY <1>5, <1>6, <1>8
  <2>4. m \notin DOMAIN requests' => IsExpired(requests[m], clock')
    <3>1. rs[m].created_at = requests[m].created_at /\ m \in DOMAIN rs
      BY <1>6, <1>8 DEF Shrinks
    <3>2. QED
      BY <1>5, <3>1 DEF IsExpired
  <2>5. QED
    BY <1>3, <1>5, <2>1, <2>2, <2>3, <2>4 DEF m
<1>9. CASE ~IsFound(m, now) /\ rs = Insert(C, m, e)
  <2>1. Shrinks(C, U)
    BY <1>6, CleanRequests DEF Shrinks
  <2>2. /\ DOMAIN rs = DOMAIN C \cup {m} /\ rs[m] = e
        /\ \A k \in DOMAIN C : k # m => rs[k] = C[k]
    BY <1>9 DEF Insert
  <2>3. e.data = t /\ e.created_at = now
    OBVIOUS
  <2> HIDE DEF U, C, e
  <2>4. ASSUME NEW k \in DOMAIN requests', k # m
        PROVE  k \in DOMAIN requests /\ requests'[k].created_at = requests[k].created_at
    BY <1>5, <1>6, <2>1, <2>2, <2>4 DEF Shrinks
  <2>5. ~IsExpired(rs[m], clock')
    <3>1. now \in Nat
      BY <1>1, <1>2, BackendAssumption DEF Moments
    <3>2. rs[m].created_at = now
      BY <2>2, <2>3
    <3>3. QED
      BY <1>2, <1>5, <3>1, <3>2, StampedLately
  <2>6. m \in DOMAIN requests' /\ requests'[m] = e /\ ~IsExpired(requests'[m], clock')
    BY <1>5, <2>2, <2>5
  <2>7. m \in DOMAIN requests => IsExpired(requests[m], clock')
    <3> SUFFICES ASSUME m \in DOMAIN requests, ~IsExpired(requests[m], clock')
                 PROVE  FALSE
      OBVIOUS
    <3>1. requests[m].created_at \in Nat
      BY RequestFacts DEF StoreInv, StoreSound, Sound
    <3>2. ~IsExpired(requests[m], now) /\ ~IsExpired(requests[m], clock)
      BY <1>2, <1>5, <3>1, NotYetExpired
    <3>3. QED
      BY <1>7, <1>9, <3>2 DEF IsFound
  <2> HIDE DEF m
  <2>8. QED
    BY <1>3, <1>5, <2>3, <2>4, <2>6, <2>7 DEF m
<1>10. QED
  BY <1>1, <1>8, <1>9 DEF ResponseTable

\* disconnect_peer drops requests, if any, and sets the gauges when it does.
LEMMA DisconnectPeerTable ==
  ASSUME StoreInv, NEW a \in Addr, NEW t \in Tx, DisconnectPeer(a, t)
  PROVE  /\ Shrinks(requests', requests)
         /\ \/ gauges' = gauges
            \/ gauges' = GaugesOf(peers', requests')
         /\ \/ peers' = peers
            \/ \E s \in DOMAIN peers : /\ peers[s][a] = 1
                                        /\ peers' = WithoutTarget(s, a)
         /\ \/ emitted' = <<>>
            \/ emitted' = << [type |-> "PeerDisconnected", address |-> a] >>
<1>1. clock \in Nat /\ IsRequestTable(requests)
  BY DEF StoreInv, RestOK, StoreSound, Sound
<1>2. Shrinks(requests, requests)
  BY <1>1 DEF Shrinks
<1>3. ASSUME NEW L, UpdateMetrics(clock, requests, sender_requests, L)
      PROVE  Shrinks(requests', requests) /\ gauges' = GaugesOf(peers', requests')
  <2>1. clock' \in Nat
    BY <1>1, <1>3, BackendAssumption DEF UpdateMetrics, Moments
  <2>2. PICK at \in clock..clock' : requests' = CleanupExpiredRequests(requests, at)
    BY <1>3 DEF UpdateMetrics
  <2>3. at \in Nat
    BY <1>1, <2>1, <2>2
  <2>4. QED
    BY <1>1, <1>3, <2>2, <2>3, CleanRequests DEF UpdateMetrics
<1>4. QED
  BY <1>2, <1>3 DEF DisconnectPeer

-----------------------------------------------------------------------------
(* The gauge of pending requests *)

\* A step either sets the gauge from the table or adds no request to it.
LEMMA PendingRequestsStep ==
  ASSUME StoreInv, StoreInv', PendingRequestsGauge, [BackendNext]_backendVars
  PROVE  PendingRequestsGauge'
<1>1. \/ gauges' = GaugesOf(peers', requests')
      \/ gauges' = gauges /\ DOMAIN requests' \subseteq DOMAIN requests
  BY KindsOfSteps, SenderRequestTable, SenderUpdateTable, ReceiverResponseTable,
     DisconnectPeerTable, QuietStepFacts DEF Shrinks
<1>2. /\ IsFiniteSet(DOMAIN requests)
      /\ gauges.pending_requests \in Nat /\ gauges'.pending_requests \in Nat
  <2>1. IsFiniteSet(Addr \X Addr)
    BY BackendAssumption, FS_Product
  <2>2. DOMAIN requests \subseteq Addr \X Addr
    BY RoutesAssumption DEF StoreInv, StoreSound, Sound, IsRequestTable
  <2>3. QED
    BY <2>1, <2>2, FS_Subset DEF StoreInv, RestOK, Gauges
<1>3. CASE gauges' = gauges /\ DOMAIN requests' \subseteq DOMAIN requests
  <2>1. /\ Cardinality(DOMAIN requests') <= Cardinality(DOMAIN requests)
        /\ IsFiniteSet(DOMAIN requests')
    BY <1>2, <1>3, FS_Subset
  <2>2. /\ Cardinality(DOMAIN requests') \in Nat
        /\ Cardinality(DOMAIN requests) \in Nat
    BY <1>2, <2>1, FS_CardinalityType
  <2>3. QED
    BY <1>2, <1>3, <2>1, <2>2 DEF PendingRequestsGauge
<1>4. CASE gauges' = GaugesOf(peers', requests')
  <2>1. gauges'.pending_requests = Cardinality(DOMAIN requests')
    BY <1>4 DEF GaugesOf
  <2>2. QED
    BY <1>2, <2>1 DEF PendingRequestsGauge
<1>5. QED
  BY <1>1, <1>3, <1>4

\* "Current number of pending requests" is never below the number of requests
\* stored, although some handlers drop expired ones without setting it.
THEOREM PendingRequestsAreCounted == BackendSpec => []PendingRequestsGauge
<1>1. BackendInit => PendingRequestsGauge
  BY FS_EmptySet DEF BackendInit, PendingRequestsGauge
<1>2. StoreInv /\ StoreInv' /\ PendingRequestsGauge
        /\ [BackendNext]_backendVars => PendingRequestsGauge'
  BY PendingRequestsStep
<1>3. QED
  BY <1>1, <1>2, StoreIsSound, PTL DEF BackendSpec

-----------------------------------------------------------------------------
(* Disconnects *)

\* A sender is in the peer table only with a target: disconnect_peer removes the
\* sender with its last one, so that its next request is a first one again.
THEOREM SendersHaveTargets == BackendSpec => []PeersHaveTargets
BY BackendTypeCorrect, PTL

\* Taking a target from a sender takes nothing else from anyone.
LEMMA WithoutTargetTakesOne ==
  ASSUME NEW s \in DOMAIN peers, NEW a,
         peers' = WithoutTarget(s, a),
         NEW x, NEW y, HasTarget(x, y), ~HasTarget(x, y)'
  PROVE  x = s /\ y = a
<1>1. DOMAIN RemoveKey(peers[s], a) = DOMAIN peers[s] \ {a}
  BY RemoveFacts
<1>2. CASE DOMAIN RemoveKey(peers[s], a) = {}
  <2>1. peers' = RemoveKey(peers, s)
    BY <1>2 DEF WithoutTarget
  <2>2. DOMAIN peers' = DOMAIN peers \ {s}
        /\ \A z \in DOMAIN peers \ {s} : peers'[z] = peers[z]
    BY <2>1 DEF RemoveKey
  <2>3. QED
    BY <1>1, <1>2, <2>2 DEF HasTarget
<1>3. CASE DOMAIN RemoveKey(peers[s], a) # {}
  <2>1. peers' = [peers EXCEPT ![s] = RemoveKey(peers[s], a)]
    BY <1>3 DEF WithoutTarget
  <2>2. /\ DOMAIN peers' = DOMAIN peers /\ peers'[s] = RemoveKey(peers[s], a)
        /\ \A z \in DOMAIN peers : z # s => peers'[z] = peers[z]
    BY <2>1
  <2>3. QED
    BY <1>1, <2>2 DEF HasTarget
<1>4. QED
  BY <1>2, <1>3

LostTargets ==
  {p \in Addr \X Addr : HasTarget(p[1], p[2]) /\ ~HasTarget(p[1], p[2])'}

\* A step that loses a target is a disconnect, and the target was requested
\* once.
LEMMA LosesOneTarget ==
  ASSUME StoreInv, [BackendNext]_backendVars
  PROVE  \/ LostTargets = {}
         \/ \E s \in DOMAIN peers, a \in Addr :
              /\ LostTargets \subseteq {<<s, a>>}
              /\ peers[s][a] = 1
<1>1. ASSUME peers' = peers PROVE LostTargets = {}
  BY <1>1 DEF LostTargets, HasTarget
<1>2. ASSUME NEW a \in Addr, NEW t \in Tx, HandleSenderRequest(a, t)
      PROVE  LostTargets = {}
  <2> DEFINE P == RequestedOnceMore(a, t.receiver)
  <2>1. BackendTypeOK /\ t.receiver \in Addr
    BY TxFacts, InvParts DEF BackendInv
  <2>2. /\ DOMAIN P = DOMAIN peers \cup {a}
        /\ \A x \in DOMAIN peers : x # a => P[x] = peers[x]
        /\ a \in DOMAIN peers => DOMAIN peers[a] \subseteq DOMAIN P[a]
    BY <2>1, RequestedOnceMoreFacts
  <2>3. peers' = P
    BY <1>2 DEF HandleSenderRequest
  <2> HIDE DEF P
  <2>4. QED
    BY <2>2, <2>3 DEF LostTargets, HasTarget
<1>3. ASSUME NEW a \in Addr, NEW t \in Tx, DisconnectPeer(a, t)
      PROVE  \/ LostTargets = {}
             \/ \E s \in DOMAIN peers, x \in Addr :
                  LostTargets \subseteq {<<s, x>>} /\ peers[s][x] = 1
  <2>1. \/ peers' = peers
        \/ \E s \in DOMAIN peers : peers[s][a] = 1 /\ peers' = WithoutTarget(s, a)
    BY <1>3, DisconnectPeerTable
  <2>2. ASSUME NEW s \in DOMAIN peers, peers' = WithoutTarget(s, a)
        PROVE  LostTargets \subseteq {<<s, a>>}
    <3>1. ASSUME NEW p \in LostTargets PROVE p = <<s, a>>
      <4>1. /\ p \in Addr \X Addr /\ HasTarget(p[1], p[2])
            /\ ~HasTarget(p[1], p[2])'
        BY DEF LostTargets
      <4>2. p[1] = s /\ p[2] = a
        BY <2>2, <4>1, WithoutTargetTakesOne
      <4>3. QED
        BY <4>1, <4>2
    <3>2. QED
      BY <3>1
  <2>3. QED
    BY <1>1, <2>1, <2>2
<1>4. QED
  BY <1>1, <1>2, <1>3, KindsOfSteps, SenderUpdateTable, ReceiverResponseTable,
     QuietStepFacts

\* Whatever happens, at most one sender loses one target, which it had asked for
\* once, modulo the width of the counter (disconnect_peer).
THEOREM DisconnectIsNarrow == BackendSpec => DisconnectTakesOneTarget
<1>1. ASSUME StoreInv, [BackendNext]_backendVars
      PROVE  /\ Cardinality(LostTargets) <= 1
             /\ \A p \in LostTargets : peers[p[1]][p[2]] = 1
  <2>1. CASE LostTargets = {}
    BY <2>1, FS_EmptySet
  <2>2. ASSUME NEW s \in DOMAIN peers, NEW a \in Addr,
               LostTargets \subseteq {<<s, a>>}, peers[s][a] = 1
        PROVE  /\ Cardinality(LostTargets) <= 1
               /\ \A p \in LostTargets : peers[p[1]][p[2]] = 1
    <3>1. IsFiniteSet({<<s, a>>}) /\ Cardinality({<<s, a>>}) = 1
      BY FS_Singleton
    <3>2. Cardinality(LostTargets) <= Cardinality({<<s, a>>})
      BY <2>2, <3>1, FS_Subset
    <3>3. \A p \in LostTargets : p = <<s, a>>
      BY <2>2
    <3>4. \A p \in LostTargets : p[1] = s /\ p[2] = a
      BY <3>3
    <3>5. QED
      BY <2>2, <3>1, <3>2, <3>4
  <2>3. QED
    BY <1>1, <2>1, <2>2, LosesOneTarget
<1>2. StoreInv /\ [BackendNext]_backendVars
        => [ LET lost == { p \in Addr \X Addr :
                      /\ HasTarget(p[1], p[2])
                      /\ ~HasTarget(p[1], p[2])' }
             IN  /\ Cardinality(lost) <= 1
                 /\ \A p \in lost : peers[p[1]][p[2]] = 1 ]_backendVars
  BY <1>1 DEF LostTargets
<1>3. QED
  BY <1>2, StoreIsSound, PTL DEF BackendSpec, DisconnectTakesOneTarget

-----------------------------------------------------------------------------
(* The time to live *)

\* What a step may do to the age of a stored request.
AgeKept ==
  \A m \in DOMAIN requests \cap DOMAIN requests' :
    requests'[m].created_at # requests[m].created_at =>
      \/ \E i \in DOMAIN emitted' :
           /\ emitted'[i].type = "SenderRequestHandled"
           /\ MultiId(emitted'[i].data) = m
      \/ IsExpired(requests[m], clock')

\* A stored request gets another age only from a new request for its route, or
\* once it had expired.
LEMMA StepKeepsAge ==
  ASSUME StoreInv, [BackendNext]_backendVars
  PROVE  AgeKept
<1>1. ASSUME Shrinks(requests', requests) \/ requests' = requests PROVE AgeKept
  BY <1>1 DEF AgeKept, Shrinks
<1>2. ASSUME NEW a \in Addr, NEW t \in Tx, HandleSenderRequest(a, t)
      PROVE  AgeKept
  <2>1. \A m \in DOMAIN requests' : m # MultiId(t) => requests'[m] = requests[m]
    BY <1>2, SenderRequestTable
  <2>2. /\ 2 \in DOMAIN emitted'
        /\ emitted'[2] = DataEvent("SenderRequestHandled", t.receiver, t)
    BY <1>2 DEF HandleSenderRequest
  <2>3. emitted'[2].type = "SenderRequestHandled" /\ emitted'[2].data = t
    BY <2>2 DEF DataEvent
  <2>4. QED
    BY <2>1, <2>2, <2>3 DEF AgeKept
<1>3. ASSUME NEW a \in Addr, NEW t \in Tx, HandleReceiverResponse(a, t)
      PROVE  AgeKept
  <2> DEFINE k == MultiId(t)
  <2>1. /\ \A m \in DOMAIN requests' : m # k =>
             requests'[m].created_at = requests[m].created_at
        /\ \/ k \in DOMAIN requests' =>
                 requests'[k].created_at = requests[k].created_at
           \/ k \in DOMAIN requests => IsExpired(requests[k], clock')
    BY <1>3, ReceiverResponseTable
  <2> HIDE DEF k
  <2>2. QED
    BY <2>1 DEF AgeKept
<1>4. QED
  BY <1>1, <1>2, <1>3, KindsOfSteps, SenderUpdateTable, DisconnectPeerTable,
     QuietStepFacts

\* Only a sender's request starts the time to live of a live request anew; an
\* update never does, and a late response only when the request has expired
\* (update_request, handle_receiver_response).
THEOREM TimeToLiveIsKept == BackendSpec => TtlNotExtended
<1>1. StoreInv /\ [BackendNext]_backendVars => [AgeKept]_backendVars
  BY StepKeepsAge
<1>2. QED
  BY <1>1, StoreIsSound, PTL DEF BackendSpec, TtlNotExtended, AgeKept

-----------------------------------------------------------------------------
(* Announcements *)

\* After the step the store holds a transaction, unexpired.
Holds(t) ==
  /\ MultiId(t) \in DOMAIN requests'
  /\ requests'[MultiId(t)].data = t
  /\ ~IsExpired(requests'[MultiId(t)], clock')

\* The request was live when the handler started and has expired since.
ExpiredMeanwhile(m) ==
  /\ m \in DOMAIN requests
  /\ ~IsExpired(requests[m], clock)
  /\ IsExpired(requests[m], clock')

\* What a step announces is stored, or has expired meanwhile.
AnnouncesStored ==
  \A i \in DOMAIN emitted' :
    emitted'[i].type \in Announcing =>
      \/ Holds(emitted'[i].data)
      \/ /\ emitted'[i].type = "ReceiverResponseHandled"
         /\ ExpiredMeanwhile(MultiId(emitted'[i].data))

\* Every handler announces what it has stored.
LEMMA StepAnnouncesStored ==
  ASSUME StoreInv, BackendNext
  PROVE  AnnouncesStored
<1>1. ASSUME NEW a \in Addr, NEW t \in Tx, HandleSenderRequest(a, t)
      PROVE  AnnouncesStored
  <2>1. Holds(t)
    BY <1>1, SenderRequestTable DEF Holds
  <2>2. emitted' = << DataEvent("SenderRequestReceived", a, t),
                      DataEvent("SenderRequestHandled", t.receiver, t) >>
    BY <1>1 DEF HandleSenderRequest
  <2>3. \A i \in DOMAIN emitted' : emitted'[i].data = t
    BY <2>2 DEF DataEvent
  <2>4. QED
    BY <2>1, <2>3 DEF AnnouncesStored, Holds
<1>2. ASSUME NEW a \in Addr, NEW t \in Tx, NEW type, SenderUpdate(type, a, t)
      PROVE  AnnouncesStored
  <2>1. CASE emitted' = <<>>
    BY <2>1 DEF AnnouncesStored
  <2>2. CASE emitted' = << ExpiredEvent(MultiId(t)) >>
    BY <2>2 DEF AnnouncesStored, ExpiredEvent, DataExpired, Announcing
  <2>3. CASE /\ emitted' = << DataEvent(type, a, t) >>
             /\ MultiId(t) \in DOMAIN requests'
             /\ requests'[MultiId(t)].data = t
             /\ ~IsExpired(requests'[MultiId(t)], clock')
    <3>1. Holds(t)
      BY <2>3 DEF Holds
    <3>2. \A i \in DOMAIN emitted' : emitted'[i].data = t
      BY <2>3 DEF DataEvent
    <3>3. QED
      BY <3>1, <3>2 DEF AnnouncesStored, Holds
  <2>4. QED
    BY <1>2, <2>1, <2>2, <2>3, SenderUpdateTable
<1>3. ASSUME NEW a \in Addr, NEW t \in Tx, HandleReceiverResponse(a, t)
      PROVE  AnnouncesStored
  <2> DEFINE received == DataEvent("ReceiverResponseReceived", a, t)
             handled == DataEvent("ReceiverResponseHandled", a, t)
             k == MultiId(t)
             x == ExpiredEvent(k)
  <2>1. Holds(t) \/ ExpiredMeanwhile(k)
    <3>1. CASE /\ k \in DOMAIN requests'
               /\ requests'[k].data = t
               /\ ~IsExpired(requests'[k], clock')
      BY <3>1 DEF Holds
    <3>2. CASE /\ k \in DOMAIN requests
               /\ ~IsExpired(requests[k], clock)
               /\ k \in DOMAIN requests' =>
                    /\ requests'[k].data = t
                    /\ requests'[k].created_at = requests[k].created_at
               /\ k \notin DOMAIN requests' => IsExpired(requests[k], clock')
      BY <3>2 DEF Holds, ExpiredMeanwhile, IsExpired
    <3>3. QED
      BY <1>3, <3>1, <3>2, ReceiverResponseTable
  <2>2. emitted' = <<received, handled>> \/ emitted' = <<received, x, handled>>
    BY <1>3 DEF HandleReceiverResponse
  <2>3. /\ received.type \notin Announcing /\ x.type \notin Announcing
        /\ handled.data = t /\ handled.type = "ReceiverResponseHandled"
    BY DEF DataEvent, ExpiredEvent, DataExpired, Announcing
  <2> HIDE DEF received, handled, x
  <2>4. \A i \in DOMAIN emitted' :
          emitted'[i].type \in Announcing => emitted'[i] = handled
    BY <2>2, <2>3
  <2>5. QED
    BY <2>1, <2>3, <2>4 DEF AnnouncesStored, Holds
<1>4. ASSUME NEW a \in Addr, NEW t \in Tx, DisconnectPeer(a, t)
      PROVE  AnnouncesStored
  <2>1. \/ emitted' = <<>>
        \/ emitted' = << [type |-> "PeerDisconnected", address |-> a] >>
    BY <1>4, DisconnectPeerTable
  <2>2. QED
    BY <2>1 DEF AnnouncesStored, Announcing
<1>5. ASSUME NEW x,
             HandleSenderRequestUndecodable(x) \/ FetchPendingTransactions(x)
      PROVE  AnnouncesStored
  BY <1>5 DEF AnnouncesStored, Announcing, HandleSenderRequestUndecodable,
              FetchPendingTransactions, DataEvent
<1>6. CASE RejectUndecodable \/ Tick
  BY <1>6 DEF AnnouncesStored, RejectUndecodable, Tick
<1>7. \A a \in Callers : a \in Addr
  BY BackendAssumption
<1>8. QED
  BY <1>1, <1>2, <1>3, <1>4, <1>5, <1>6, <1>7
  DEF BackendNext, RpcCall, HandleSenderConfirmation, HandleSenderRevertation,
      HandleTxSubmissionUpdates

\* Clients are told of an update only if the store holds it, unexpired, at the
\* end of the handler; but for a response, whose request may expire between
\* the update and the announcement (every handler).
THEOREM AnnouncementsAreTrue == BackendSpec => AnnouncedIsStored
<1>1. StoreInv /\ [BackendNext]_backendVars
        => [ \A i \in DOMAIN emitted' :
               LET e == emitted'[i]
                   m == MultiId(e.data)
               IN  e.type \in Announcing /\ ~IsHeld(i)' =>
                     /\ e.type = "ReceiverResponseHandled"
                     /\ m \in DOMAIN requests
                     /\ ~IsExpired(requests[m], clock)
                     /\ IsExpired(requests[m], clock') ]_backendVars
  <2> SUFFICES ASSUME StoreInv, BackendNext, NEW i \in DOMAIN emitted',
                      emitted'[i].type \in Announcing, ~IsHeld(i)'
               PROVE  /\ emitted'[i].type = "ReceiverResponseHandled"
                      /\ ExpiredMeanwhile(MultiId(emitted'[i].data))
    BY DEF ExpiredMeanwhile
  <2>1. AnnouncesStored
    BY StepAnnouncesStored
  <2>2. ~Holds(emitted'[i].data)
    BY DEF IsHeld, Holds
  <2>3. QED
    BY <2>1, <2>2 DEF AnnouncesStored, Holds
<1>2. QED
  BY <1>1, StoreIsSound, PTL DEF BackendSpec, AnnouncedIsStored
=============================================================================
