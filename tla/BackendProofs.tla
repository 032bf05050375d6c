--------------------------- MODULE BackendProofs ---------------------------
(***************************************************************************)
(* Proofs about the backend's store, for any number of addresses and       *)
(* routes, any callers, time to live, duration of a handler and counter    *)
(* width.  A handler is a chain of cleanups, inserts and pushes on the     *)
(* requests and on each of the two tables of lists;  Sound  says of a      *)
(* requests table and a table of lists what holds between any two links of *)
(* the chain.                                                              *)
(***************************************************************************)
EXTENDS Backend, FoldProofs

-----------------------------------------------------------------------------
(* Transactions and events *)

\* The addresses of a transaction are addresses, and its id is its route.
LEMMA TxFacts ==
  ASSUME NEW t \in Tx
  PROVE  /\ t.sender \in Addr /\ t.receiver \in Addr
         /\ MultiId(t) \in Routes
         /\ MultiId(t)[1] = t.sender /\ MultiId(t)[2] = t.receiver
  BY DEF Tx, MultiId

\* The two ends of a route are addresses.
LEMMA RouteFacts ==
  ASSUME NEW m \in Routes
  PROVE  m[1] \in Addr /\ m[2] \in Addr
  BY RoutesAssumption

\* Everything the handlers broadcast is a BackendEvent.
LEMMA EventTypes ==
  /\ \A type \in DataEventType, x \in Addr, d \in Tx \cup {Undecodable} :
       DataEvent(type, x, d) \in BackendEvent
  /\ \A m \in Routes, d \in Tx \cup {Undecodable} :
       DataExpired(m, d) \in BackendEvent
  /\ \A x \in Addr :
       [type |-> "PeerDisconnected", address |-> x] \in BackendEvent
  /\ \A x \in Addr, T \in Seq(Tx) :
       [type |-> "PendingTransactionsFetched", address |-> x,
        transactions |-> T] \in BackendEvent
  BY DEF DataEvent, DataExpired, BackendEvent

-----------------------------------------------------------------------------
(* Tables *)

\* What HashMap::insert does to the domain and to the other entries.
LEMMA InsertFacts ==
  ASSUME NEW f, NEW k, NEW v
  PROVE  /\ DOMAIN Insert(f, k, v) = DOMAIN f \cup {k}
         /\ Insert(f, k, v)[k] = v
         /\ \A x \in DOMAIN f : x # k => Insert(f, k, v)[x] = f[x]
  BY DEF Insert

\* Inserting a value of the right type keeps the table typed.
LEMMA InsertType ==
  ASSUME NEW S, NEW f, f \in [DOMAIN f -> S], NEW k, NEW v \in S
  PROVE  Insert(f, k, v) \in [DOMAIN Insert(f, k, v) -> S]
  BY DEF Insert

\* What HashMap::remove does to the domain and to the other entries.
LEMMA RemoveFacts ==
  ASSUME NEW f, NEW k
  PROVE  /\ DOMAIN RemoveKey(f, k) = DOMAIN f \ {k}
         /\ \A x \in DOMAIN f \ {k} : RemoveKey(f, k)[x] = f[x]
  BY DEF RemoveKey

\* Removing an entry keeps the table typed.
LEMMA RemoveType ==
  ASSUME NEW S, NEW f, f \in [DOMAIN f -> S], NEW k
  PROVE  RemoveKey(f, k) \in [DOMAIN RemoveKey(f, k) -> S]
  BY DEF RemoveKey

IsListTable(L) ==
  /\ L \in [DOMAIN L -> RequestListEntry]
  /\ DOMAIN L \subseteq Addr

IsRequestTable(R) ==
  /\ R \in [DOMAIN R -> RequestEntry]
  /\ DOMAIN R \subseteq Routes
  /\ \A m \in DOMAIN R : MultiId(R[m].data) = m

\* A list in a table of lists.
LEMMA ListFacts ==
  ASSUME NEW L, IsListTable(L), NEW x \in DOMAIN L
  PROVE  /\ x \in Addr /\ L[x] \in RequestListEntry
         /\ L[x].multi_ids \in Seq(Routes) /\ L[x].created_at \in Nat
  BY DEF IsListTable, RequestListEntry

\* A request in a table of requests.
LEMMA RequestFacts ==
  ASSUME NEW R, IsRequestTable(R), NEW m \in DOMAIN R
  PROVE  /\ m \in Routes /\ R[m] \in RequestEntry
         /\ R[m].data \in Tx /\ R[m].created_at \in Nat
         /\ MultiId(R[m].data) = m
  BY DEF IsRequestTable, RequestEntry

\* What has not expired later has not expired now.
LEMMA NotYetExpired ==
  ASSUME NEW e, e.created_at \in Nat, NEW now \in Nat, NEW later \in Nat,
         now <= later, ~IsExpired(e, later)
  PROVE  ~IsExpired(e, now)
  BY BackendAssumption DEF IsExpired

\* R2 has some of the requests of R, none younger or older than it was.
Shrinks(R2, R) ==
  /\ IsRequestTable(R2)
  /\ DOMAIN R2 \subseteq DOMAIN R
  /\ \A m \in DOMAIN R2 : R2[m].created_at = R[m].created_at

\* The requests that a cleanup leaves are the unexpired ones, unchanged.
LEMMA CleanRequests ==
  ASSUME NEW R, IsRequestTable(R), NEW now \in Nat
  PROVE  /\ Shrinks(CleanupExpiredRequests(R, now), R)
         /\ DOMAIN CleanupExpiredRequests(R, now) =
              {m \in DOMAIN R : ~IsExpired(R[m], now)}
         /\ \A m \in DOMAIN CleanupExpiredRequests(R, now) :
              CleanupExpiredRequests(R, now)[m] = R[m]
<1> DEFINE C == CleanupExpiredRequests(R, now)
<1>1. C = [m \in {k \in DOMAIN R : ~IsExpired(R[k], now)} |-> R[m]]
  BY DEF CleanupExpiredRequests
<1>2. /\ DOMAIN C = {m \in DOMAIN R : ~IsExpired(R[m], now)}
      /\ \A m \in DOMAIN C : C[m] = R[m]
  BY <1>1
<1>3. C \in [DOMAIN C -> RequestEntry]
  BY <1>1 DEF IsRequestTable
<1> HIDE DEF C
<1>4. IsRequestTable(C)
  BY <1>2, <1>3 DEF IsRequestTable
<1>5. QED
  BY <1>2, <1>4 DEF Shrinks, C

\* Lists with some of the ids of L, none younger or older than it was.
Thins(C, L) ==
  /\ IsListTable(C)
  /\ DOMAIN C \subseteq DOMAIN L
  /\ \A x \in DOMAIN C : /\ C[x].created_at = L[x].created_at
                          /\ Range(C[x].multi_ids) \subseteq Range(L[x].multi_ids)

\* A cleanup of the lists thins them, and an id stays on its list if neither
\* the list nor the request has expired.
LEMMA CleanLists ==
  ASSUME NEW L, IsListTable(L), NEW R, NEW now \in Nat
  PROVE  /\ Thins(CleanupExpiredLists(L, R, now), L)
         /\ \A x \in DOMAIN L, m \in Routes :
              /\ ~IsExpired(L[x], now)
              /\ m \in Range(L[x].multi_ids)
              /\ m \in DOMAIN R => ~IsExpired(R[m], now)
              => /\ x \in DOMAIN CleanupExpiredLists(L, R, now)
                 /\ m \in Range(CleanupExpiredLists(L, R, now)[x].multi_ids)
<1> DEFINE gone == {m \in DOMAIN R : IsExpired(R[m], now)}
           kept(k) == Keep(L[k].multi_ids, Routes \ gone)
           D == {k \in DOMAIN L : /\ ~IsExpired(L[k], now)
                                  /\ gone # {} => kept(k) # <<>>}
           C == CleanupExpiredLists(L, R, now)
<1>1. C = [a \in D |-> [L[a] EXCEPT !.multi_ids = kept(a)]]
  BY DEF CleanupExpiredLists
<1>2. \A x \in DOMAIN L : /\ L[x] \in RequestListEntry
                          /\ L[x].multi_ids \in Seq(Routes)
  BY ListFacts
<1>3. ASSUME NEW x \in DOMAIN L
      PROVE  /\ kept(x) \in Seq(Routes)
             /\ Range(kept(x)) = Range(L[x].multi_ids) \cap (Routes \ gone)
  BY <1>2, KeepKind, KeepRange
<1> HIDE DEF kept, gone
<1>4. ASSUME NEW x \in D
      PROVE  /\ C[x] \in RequestListEntry
             /\ C[x].multi_ids = kept(x) /\ C[x].created_at = L[x].created_at
  <2>1. C[x] = [L[x] EXCEPT !.multi_ids = kept(x)]
    BY <1>1
  <2>2. L[x] \in RequestListEntry /\ kept(x) \in Seq(Routes)
    BY <1>2, <1>3
  <2>3. QED
    BY <2>1, <2>2 DEF RequestListEntry
<1>5. DOMAIN C = D /\ C \in [D -> RequestListEntry]
  BY <1>1, <1>4
<1> HIDE DEF C
<1>6. IsListTable(C)
  BY <1>5 DEF IsListTable
<1>7. Thins(C, L)
  BY <1>3, <1>4, <1>5, <1>6 DEF Thins
<1>8. ASSUME NEW x \in DOMAIN L, NEW m \in Routes,
             ~IsExpired(L[x], now), m \in Range(L[x].multi_ids),
             m \in DOMAIN R => ~IsExpired(R[m], now)
      PROVE  x \in DOMAIN C /\ m \in Range(C[x].multi_ids)
  <2>1. m \in Range(kept(x))
    BY <1>3, <1>8 DEF gone
  <2>2. kept(x) # <<>>
    BY <2>1 DEF Range
  <2>3. x \in D
    BY <1>8, <2>2
  <2>4. QED
    BY <1>4, <1>5, <2>1, <2>3
<1>9. QED
  BY <1>7, <1>8 DEF C

\* P is the table L with an id put on the list of its owner, which keeps the
\* time it was created at, and every other list as it was.
IsPush(P, L, x, m) ==
  /\ IsListTable(P)
  /\ DOMAIN P = DOMAIN L \cup {x}
  /\ Range(P[x].multi_ids) =
       {m} \cup (IF x \in DOMAIN L THEN Range(L[x].multi_ids) ELSE {})
  /\ x \in DOMAIN L => P[x].created_at = L[x].created_at
  /\ \A y \in DOMAIN L : y # x => P[y] = L[y]

\* That is what pushing does.
LEMMA PushIdFacts ==
  ASSUME NEW L, IsListTable(L), NEW x \in Addr, NEW m \in Routes,
         clock \in Nat
  PROVE  IsPush(PushId(L, x, m), L, x, m)
<1> DEFINE i == IdsOf(L, x)
           c == IF x \in DOMAIN L THEN L[x].created_at ELSE clock
           e == [multi_ids |-> Append(i, m), created_at |-> c]
           P == PushId(L, x, m)
<1>1. /\ i \in Seq(Routes) /\ c \in Nat
      /\ x \in DOMAIN L => i = L[x].multi_ids
      /\ x \notin DOMAIN L => i = <<>>
  BY ListFacts DEF IdsOf
<1>2. Range(Append(i, m)) = Range(i) \cup {m} /\ Append(i, m) \in Seq(Routes)
  BY <1>1, RangeOfAppend
<1>3. e \in RequestListEntry
  BY <1>1, <1>2 DEF RequestListEntry
<1>4. e.multi_ids = Append(i, m) /\ e.created_at = c
  OBVIOUS
<1>5. x \in DOMAIN L => c = L[x].created_at
  OBVIOUS
<1>6. P = Insert(L, x, e)
  BY DEF PushId
<1> HIDE DEF e, P
<1>7. /\ DOMAIN P = DOMAIN L \cup {x} /\ P[x] = e
      /\ \A y \in DOMAIN L : y # x => P[y] = L[y]
  BY <1>6 DEF Insert
<1>8. P \in [DOMAIN P -> RequestListEntry]
  BY <1>3, <1>6, InsertType DEF IsListTable
<1>9. IsListTable(P)
  BY <1>7, <1>8 DEF IsListTable
<1>10. Range(<<>>) = {}
  BY DEF Range
<1> HIDE DEF i, c
<1>11. QED
  BY <1>1, <1>2, <1>4, <1>5, <1>7, <1>9, <1>10 DEF P, IsPush

\* The tables stay finite, so the gauges are numbers.
LEMMA GaugesType ==
  ASSUME NEW ps, NEW rs, DOMAIN ps \subseteq Addr, DOMAIN rs \subseteq Routes
  PROVE  GaugesOf(ps, rs) \in [active_peers : Nat, pending_requests : Nat]
<1>1. IsFiniteSet(Addr \X Addr)
  BY BackendAssumption, FS_Product
<1>2. IsFiniteSet(DOMAIN ps) /\ IsFiniteSet(DOMAIN rs)
  BY <1>1, BackendAssumption, RoutesAssumption, FS_Subset
<1>3. Cardinality(DOMAIN ps) \in Nat /\ Cardinality(DOMAIN rs) \in Nat
  BY <1>2, FS_CardinalityType
<1>4. QED
  BY <1>3 DEF GaugesOf

IsPeerTable(P) == P \in [DOMAIN P -> TargetPeers] /\ DOMAIN P \subseteq Addr

\* Counting one more request keeps the peer table one, and no sender without
\* a target appears in it.
LEMMA RequestedOnceMoreFacts ==
  ASSUME BackendTypeOK, NEW s \in Addr, NEW r \in Addr
  PROVE  /\ IsPeerTable(RequestedOnceMore(s, r))
         /\ DOMAIN RequestedOnceMore(s, r) = DOMAIN peers \cup {s}
         /\ r \in DOMAIN RequestedOnceMore(s, r)[s]
         /\ \A x \in DOMAIN peers :
              x # s => RequestedOnceMore(s, r)[x] = peers[x]
         /\ s \in DOMAIN peers =>
              DOMAIN peers[s] \subseteq DOMAIN RequestedOnceMore(s, r)[s]
<1> DEFINE targets == IF s \in DOMAIN peers THEN peers[s] ELSE <<>>
           times == IF r \in DOMAIN targets THEN (targets[r] + 1) % U16 ELSE 1
           T == Insert(targets, r, times)
<1>1. targets \in [DOMAIN targets -> 0..(U16 - 1)] /\ DOMAIN targets \subseteq Addr
  BY DEF BackendTypeOK, TargetPeers
<1>2. times \in 0..(U16 - 1)
  <2>1. CASE r \in DOMAIN targets
    <3>1. targets[r] \in 0..(U16 - 1)
      BY <2>1, <1>1
    <3>2. \A n \in 0..(U16 - 1) : (n + 1) % U16 \in 0..(U16 - 1)
      BY BackendAssumption
    <3>3. QED
      BY <2>1, <3>1, <3>2
  <2>2. CASE r \notin DOMAIN targets
    BY <2>2, BackendAssumption
  <2>3. QED
    BY <2>1, <2>2
<1>3. /\ T \in [DOMAIN T -> 0..(U16 - 1)]
      /\ DOMAIN T = DOMAIN targets \cup {r}
  BY <1>1, <1>2, InsertFacts, InsertType
<1>4. T \in TargetPeers
  BY <1>1, <1>3 DEF TargetPeers
<1>5. RequestedOnceMore(s, r) = Insert(peers, s, T)
  BY DEF RequestedOnceMore
<1>6. Insert(peers, s, T) \in [DOMAIN Insert(peers, s, T) -> TargetPeers]
  BY <1>4, InsertType DEF BackendTypeOK
<1> HIDE DEF T
<1>7. /\ DOMAIN Insert(peers, s, T) = DOMAIN peers \cup {s}
      /\ Insert(peers, s, T)[s] = T
      /\ \A x \in DOMAIN peers : x # s => Insert(peers, s, T)[x] = peers[x]
  BY DEF Insert
<1>8. DOMAIN peers \subseteq Addr
  BY DEF BackendTypeOK
<1>9. s \in DOMAIN peers => targets = peers[s]
  OBVIOUS
<1> HIDE DEF targets
<1>10. QED
  BY <1>3, <1>5, <1>6, <1>7, <1>8, <1>9 DEF IsPeerTable

\* Removing a target keeps the peer table one and leaves no sender without
\* targets behind.
LEMMA WithoutTargetFacts ==
  ASSUME BackendTypeOK, PeersHaveTargets, NEW s \in DOMAIN peers, NEW x
  PROVE  /\ IsPeerTable(WithoutTarget(s, x))
         /\ \A y \in DOMAIN WithoutTarget(s, x) :
              DOMAIN WithoutTarget(s, x)[y] # {}
<1> DEFINE targets == RemoveKey(peers[s], x)
<1>1. /\ peers \in [DOMAIN peers -> TargetPeers]
      /\ DOMAIN peers \subseteq Addr
  BY DEF BackendTypeOK
<1>2. targets \in TargetPeers
  <2>1. PICK R \in SUBSET Addr : peers[s] \in [R -> 0..(U16 - 1)]
    BY <1>1 DEF TargetPeers
  <2>2. targets \in [R \ {x} -> 0..(U16 - 1)]
    BY <2>1 DEF RemoveKey
  <2>3. QED
    BY <2>2 DEF TargetPeers
<1> HIDE DEF targets
<1>3. CASE DOMAIN targets = {}
  <2>1. WithoutTarget(s, x) = RemoveKey(peers, s)
    BY <1>3 DEF WithoutTarget, targets
  <2>2. QED
    BY <1>1, <2>1 DEF RemoveKey, IsPeerTable, PeersHaveTargets
<1>4. CASE DOMAIN targets # {}
  <2>1. WithoutTarget(s, x) = [peers EXCEPT ![s] = targets]
    BY <1>4 DEF WithoutTarget, targets
  <2>2. QED
    BY <1>1, <1>2, <1>4, <2>1 DEF IsPeerTable, PeersHaveTargets
<1>5. QED
  BY <1>3, <1>4

-----------------------------------------------------------------------------
(* What holds between the links of a handler *)

Columns == [Routes -> SUBSET ListRef]

\* Requests are stored under their own id; an address's list holds ids of its
\* own routes, or of those it was named for; and a live request is on the
\* lists it was pushed on, if they are live.
Sound(R, L, S, N, now) ==
  /\ IsRequestTable(R)
  /\ IsListTable(L)
  /\ \A x \in DOMAIN L : \A m \in Range(L[x].multi_ids) :
       x \in {m[1], m[2]} \/ <<x, m>> \in N
  /\ \A m \in DOMAIN R : \A q \in S[m] :
       ~IsExpired(R[m], now) /\ ~IsExpired(q, now) => OnList(L, q, m)

\* The parts of a record of a list.
LEMMA RefFacts ==
  ASSUME NEW S \in Columns, NEW m \in Routes, NEW q \in S[m]
  PROVE  q \in ListRef /\ q.of \in Addr /\ q.created_at \in Nat
  BY DEF Columns, ListRef

\* Time passes, and other requests are made.
LEMMA SoundLater ==
  ASSUME NEW R, NEW L, NEW S \in Columns, NEW N, NEW N2, N \subseteq N2,
         NEW now \in Nat, NEW later \in Nat, now <= later,
         Sound(R, L, S, N, now)
  PROVE  Sound(R, L, S, N2, later)
<1>1. ASSUME NEW m \in DOMAIN R, NEW q \in S[m],
             ~IsExpired(R[m], later), ~IsExpired(q, later)
      PROVE  OnList(L, q, m)
  <2>1. R[m].created_at \in Nat /\ m \in Routes
    BY RequestFacts DEF Sound
  <2>2. q.created_at \in Nat
    BY <2>1, RefFacts
  <2>3. ~IsExpired(R[m], now) /\ ~IsExpired(q, now)
    BY <1>1, <2>1, <2>2, NotYetExpired
  <2>4. QED
    BY <2>3 DEF Sound
<1>2. QED
  BY <1>1 DEF Sound

\* Requests are updated or go.
LEMMA SoundShrinks ==
  ASSUME NEW R, NEW R2, NEW L, NEW S \in Columns, NEW N, NEW now \in Nat,
         Sound(R, L, S, N, now), Shrinks(R2, R)
  PROVE  Sound(R2, L, S, N, now)
  BY DEF Sound, Shrinks, IsExpired

\* The lists are cleaned up, by a table of requests that is not older.
LEMMA SoundCleaned ==
  ASSUME NEW R, NEW R2, NEW L, NEW S \in Columns, NEW N,
         NEW at \in Nat, NEW now \in Nat, at <= now,
         Sound(R, L, S, N, now), Shrinks(R2, R)
  PROVE  Sound(R, CleanupExpiredLists(L, R2, at), S, N, now)
<1> DEFINE C == CleanupExpiredLists(L, R2, at)
<1>1. /\ IsListTable(L) /\ IsRequestTable(R)
      /\ \A x \in DOMAIN L : \A m \in Range(L[x].multi_ids) :
           x \in {m[1], m[2]} \/ <<x, m>> \in N
  BY DEF Sound
<1>2. /\ Thins(C, L)
      /\ \A x \in DOMAIN L, m \in Routes :
           /\ ~IsExpired(L[x], at)
           /\ m \in Range(L[x].multi_ids)
           /\ m \in DOMAIN R2 => ~IsExpired(R2[m], at)
           => x \in DOMAIN C /\ m \in Range(C[x].multi_ids)
  BY <1>1, CleanLists
<1> HIDE DEF C
<1>3. ASSUME NEW m \in DOMAIN R, NEW q \in S[m],
             ~IsExpired(R[m], now), ~IsExpired(q, now)
      PROVE  OnList(C, q, m)
  <2>1. m \in Routes /\ R[m].created_at \in Nat
    BY <1>1, RequestFacts
  <2>2. q.created_at \in Nat
    BY <2>1, RefFacts
  <2>3. /\ q.of \in DOMAIN L /\ L[q.of].created_at = q.created_at
        /\ m \in Range(L[q.of].multi_ids)
    BY <1>3 DEF Sound, OnList
  <2>4. ~IsExpired(q, at) /\ ~IsExpired(R[m], at)
    BY <1>3, <2>1, <2>2, NotYetExpired
  <2>5. ~IsExpired(L[q.of], at)
    BY <2>3, <2>4 DEF IsExpired
  <2>6. m \in DOMAIN R2 => ~IsExpired(R2[m], at)
    BY <2>4 DEF Shrinks, IsExpired
  <2>7. q.of \in DOMAIN C /\ m \in Range(C[q.of].multi_ids)
    BY <1>2, <2>1, <2>3, <2>5, <2>6
  <2>8. C[q.of].created_at = q.created_at
    BY <1>2, <2>3, <2>7 DEF Thins
  <2>9. QED
    BY <2>7, <2>8 DEF OnList
<1>4. \A x \in DOMAIN C : \A m \in Range(C[x].multi_ids) :
        x \in {m[1], m[2]} \/ <<x, m>> \in N
  BY <1>1, <1>2 DEF Thins
<1>5. IsListTable(C)
  BY <1>2 DEF Thins
<1>6. QED
  BY <1>1, <1>3, <1>4, <1>5 DEF Sound, C

\* A request is inserted and pushed on a list: it is on the lists it was on
\* before, if it was stored, and on this one.
LEMMA SoundPushed ==
  ASSUME NEW R, NEW L, NEW S \in Columns, NEW N, clock \in Nat,
         Sound(R, L, S, N, clock),
         NEW m \in Routes, NEW e \in RequestEntry, MultiId(e.data) = m,
         NEW x \in Addr, NEW N2, N \subseteq N2,
         x \in {m[1], m[2]} \/ <<x, m>> \in N2,
         NEW B, B \subseteq ListRef,
         m \in DOMAIN R => B \subseteq S[m] /\ ~IsExpired(R[m], clock),
         m \notin DOMAIN R => B = {}
  PROVE  /\ RefOf(PushId(L, x, m), x) \in ListRef
         /\ Sound(Insert(R, m, e), PushId(L, x, m),
                  [S EXCEPT ![m] = B \cup {RefOf(PushId(L, x, m), x)}],
                  N2, clock)
<1> DEFINE P == PushId(L, x, m)
           q0 == RefOf(P, x)
           I == Insert(R, m, e)
           S2 == [S EXCEPT ![m] = B \cup {q0}]
<1>1. IsListTable(L) /\ IsRequestTable(R)
  BY DEF Sound
<1>2. /\ IsListTable(P) /\ DOMAIN P = DOMAIN L \cup {x}
      /\ Range(P[x].multi_ids) =
           {m} \cup (IF x \in DOMAIN L THEN Range(L[x].multi_ids) ELSE {})
      /\ x \in DOMAIN L => P[x].created_at = L[x].created_at
      /\ \A y \in DOMAIN L : y # x => P[y] = L[y]
  <2>1. IsPush(P, L, x, m)
    BY <1>1, PushIdFacts
  <2>2. QED
    BY <2>1 DEF IsPush
<1>3. IsRequestTable(I)
  <2>1. /\ DOMAIN I = DOMAIN R \cup {m} /\ I[m] = e
        /\ \A k \in DOMAIN R : k # m => I[k] = R[k]
    BY DEF Insert
  <2>2. I \in [DOMAIN I -> RequestEntry]
    BY <1>1, InsertType DEF IsRequestTable
  <2> HIDE DEF I
  <2>3. QED
    BY <1>1, <2>1, <2>2 DEF IsRequestTable
<1>4. /\ DOMAIN I = DOMAIN R \cup {m}
      /\ \A k \in DOMAIN R : k # m => I[k] = R[k]
  BY DEF Insert
<1> HIDE DEF P, I
<1>5. P[x].created_at \in Nat
  BY <1>2, ListFacts
<1>6. /\ q0 \in ListRef /\ q0.of = x /\ q0.created_at = P[x].created_at
  BY <1>5 DEF RefOf, ListRef
<1> HIDE DEF q0
<1>7. /\ S2[m] = B \cup {q0}
      /\ \A k \in Routes : k # m => S2[k] = S[k]
  BY DEF Columns
<1> HIDE DEF S2
<1>8. ASSUME NEW k \in Routes, NEW q, OnList(L, q, k) PROVE OnList(P, q, k)
  <2>1. CASE q.of = x
    BY <1>2, <1>8, <2>1 DEF OnList
  <2>2. CASE q.of # x
    BY <1>2, <1>8, <2>2 DEF OnList
  <2>3. QED
    BY <2>1, <2>2
<1>9. ASSUME NEW k \in DOMAIN I, NEW q \in S2[k],
             ~IsExpired(I[k], clock), ~IsExpired(q, clock)
      PROVE  OnList(P, q, k)
  <2>1. k \in Routes
    BY <1>3, RequestFacts
  <2>2. CASE k # m
    <3>1. k \in DOMAIN R /\ I[k] = R[k] /\ q \in S[k]
      BY <1>4, <1>7, <1>9, <2>1, <2>2
    <3>2. OnList(L, q, k)
      BY <1>9, <3>1 DEF Sound
    <3>3. QED
      BY <1>8, <2>1, <3>2
  <2>3. CASE k = m /\ q \in B
    <3>1. m \in DOMAIN R /\ q \in S[m] /\ ~IsExpired(R[m], clock)
      BY <2>3
    <3>2. OnList(L, q, m)
      BY <1>9, <3>1 DEF Sound
    <3>3. QED
      BY <1>8, <2>3, <3>2
  <2>4. CASE k = m /\ q = q0
    BY <1>2, <1>6, <2>4 DEF OnList
  <2>5. QED
    BY <1>7, <1>9, <2>2, <2>3, <2>4
<1>10. ASSUME NEW y \in DOMAIN P, NEW k \in Range(P[y].multi_ids)
       PROVE  y \in {k[1], k[2]} \/ <<y, k>> \in N2
  <2>1. CASE y \in DOMAIN L /\ k \in Range(L[y].multi_ids)
    BY <2>1 DEF Sound
  <2>2. CASE y = x /\ k = m
    BY <2>2
  <2>3. QED
    BY <1>2, <1>10, <2>1, <2>2
<1>11. QED
  BY <1>2, <1>3, <1>6, <1>9, <1>10 DEF Sound, P, I, S2, q0

\* A request is inserted that is on no list.
LEMMA SoundInserted ==
  ASSUME NEW R, NEW L, NEW S \in Columns, NEW N, NEW now \in Nat,
         Sound(R, L, S, N, now),
         NEW m \in Routes, NEW e \in RequestEntry, MultiId(e.data) = m
  PROVE  Sound(Insert(R, m, e), L, [S EXCEPT ![m] = {}], N, now)
<1> DEFINE I == Insert(R, m, e)
           S2 == [S EXCEPT ![m] = {}]
<1>1. /\ DOMAIN I = DOMAIN R \cup {m} /\ I[m] = e
      /\ \A k \in DOMAIN R : k # m => I[k] = R[k]
  BY DEF Insert
<1>2. I \in [DOMAIN I -> RequestEntry]
  BY InsertType DEF Sound, IsRequestTable
<1> HIDE DEF I
<1>3. IsRequestTable(I)
  BY <1>1, <1>2 DEF Sound, IsRequestTable
<1>4. S2[m] = {} /\ \A k \in Routes : k # m => S2[k] = S[k]
  BY DEF Columns
<1> HIDE DEF S2
<1>5. ASSUME NEW k \in DOMAIN I, NEW q \in S2[k],
             ~IsExpired(I[k], now), ~IsExpired(q, now)
      PROVE  OnList(L, q, k)
  <2>1. k \in Routes
    BY <1>3, RequestFacts
  <2>2. k # m /\ q \in S[k] /\ k \in DOMAIN R /\ I[k] = R[k]
    BY <1>1, <1>4, <1>5, <2>1
  <2>3. QED
    BY <1>5, <2>2 DEF Sound
<1>6. QED
  BY <1>3, <1>5 DEF Sound, I, S2

\* The handler ends with the wait for the metrics and a last cleanup.
LEMMA SoundMetrics ==
  ASSUME clock \in Nat, NEW from \in Nat, clock <= from,
         NEW rs, NEW sl, NEW rl, UpdateMetrics(from, rs, sl, rl),
         NEW S1 \in Columns, NEW S2 \in Columns, NEW N,
         Sound(rs, sl, S1, N, from), Sound(rs, rl, S2, N, from)
  PROVE  /\ clock' \in Nat /\ from <= clock'
         /\ clock' <= clock + HandlerTime /\ clock' <= MaxClock
         /\ Shrinks(requests', rs)
         /\ \A m \in DOMAIN requests' : requests'[m] = rs[m]
         /\ \A m \in DOMAIN rs : ~IsExpired(rs[m], clock') => m \in DOMAIN requests'
         /\ Sound(requests', sender_requests', S1, N, clock')
         /\ Sound(requests', receiver_requests', S2, N, clock')
<1>1. /\ clock' \in Moments
      /\ sender_requests' = CleanupExpiredLists(sl, requests', clock')
      /\ receiver_requests' = CleanupExpiredLists(rl, requests', clock')
  BY DEF UpdateMetrics
<1>2. PICK at \in from..clock' : requests' = CleanupExpiredRequests(rs, at)
  BY DEF UpdateMetrics
<1>3. /\ clock' \in Nat /\ clock' <= clock + HandlerTime /\ clock' <= MaxClock
  BY <1>1, BackendAssumption DEF Moments
<1>4. at \in Nat /\ from <= at /\ at <= clock' /\ from <= clock'
  BY <1>2, <1>3
<1>5. IsRequestTable(rs)
  BY DEF Sound
<1>6. /\ Shrinks(requests', rs)
      /\ DOMAIN requests' = {m \in DOMAIN rs : ~IsExpired(rs[m], at)}
      /\ \A m \in DOMAIN requests' : requests'[m] = rs[m]
  BY <1>2, <1>4, <1>5, CleanRequests
<1>7. ASSUME NEW m \in DOMAIN rs, ~IsExpired(rs[m], clock')
      PROVE  m \in DOMAIN requests'
  <2>1. rs[m].created_at \in Nat
    BY <1>5, RequestFacts
  <2>2. ~IsExpired(rs[m], at)
    BY <1>3, <1>4, <1>7, <2>1, NotYetExpired
  <2>3. QED
    BY <1>6, <2>2
<1>8. Shrinks(requests', requests')
  BY <1>6 DEF Shrinks
<1>9. ASSUME NEW L, NEW S \in Columns, Sound(rs, L, S, N, from)
      PROVE  Sound(requests', CleanupExpiredLists(L, requests', clock'), S, N,
                   clock')
  <2>1. Sound(rs, L, S, N, clock')
    BY <1>3, <1>4, <1>9, SoundLater
  <2>2. Sound(requests', L, S, N, clock')
    BY <1>3, <1>6, <2>1, SoundShrinks
  <2>3. clock' <= clock'
    BY <1>3
  <2>4. QED
    BY <1>3, <1>8, <2>2, <2>3, SoundCleaned
<1>10. QED
  BY <1>1, <1>3, <1>4, <1>6, <1>7, <1>9

\* Closing a request takes it off the receiver's list, and nothing else.
LEMMA SoundClosed ==
  ASSUME NEW S \in Columns, NEW N, clock \in Nat,
         Sound(requests, receiver_requests, S, N, clock),
         NEW x \in Addr, NEW m \in Routes
  PROVE  Sound(requests, ClosedReceiverLists(x, m),
               [S EXCEPT ![m] = {q \in @ : q.of # x}], N, clock)
<1> DEFINE L == receiver_requests
           left == Keep(L[x].multi_ids, Routes \ {m})
           C == ClosedReceiverLists(x, m)
           S2 == [S EXCEPT ![m] = {q \in @ : q.of # x}]
<1>1. IsListTable(L) /\ IsRequestTable(requests)
  BY DEF Sound
<1>2. ASSUME x \in DOMAIN L
      PROVE  /\ left \in Seq(Routes)
             /\ Range(left) = Range(L[x].multi_ids) \cap (Routes \ {m})
  <2>1. L[x].multi_ids \in Seq(Routes)
    BY <1>1, <1>2, ListFacts
  <2>2. QED
    BY <2>1, KeepKind, KeepRange
<1> HIDE DEF left
<1>3. /\ Thins(C, L)
      /\ \A y \in DOMAIN L : y # x => y \in DOMAIN C /\ C[y] = L[y]
      /\ \A k \in Routes :
           x \in DOMAIN L /\ k # m /\ k \in Range(L[x].multi_ids) =>
             x \in DOMAIN C /\ k \in Range(C[x].multi_ids)
  <2>1. CASE x \notin DOMAIN L
    BY <1>1, <2>1 DEF ClosedReceiverLists, Thins
  <2>2. CASE x \in DOMAIN L /\ left = <<>>
    <3>1. C = RemoveKey(L, x)
      BY <2>2 DEF ClosedReceiverLists, left
    <3>2. /\ DOMAIN C = DOMAIN L \ {x}
          /\ \A y \in DOMAIN C : C[y] = L[y]
      BY <3>1 DEF RemoveKey
    <3>3. C \in [DOMAIN C -> RequestListEntry]
      BY <1>1, <3>1, RemoveType DEF IsListTable
    <3>4. Range(left) = {}
      BY <2>2 DEF Range
    <3> HIDE DEF C, L
    <3>5. IsListTable(C)
      BY <1>1, <3>2, <3>3 DEF IsListTable
    <3>6. \A k \in Routes : k # m => k \notin Range(L[x].multi_ids)
      BY <1>2, <2>2, <3>4
    <3>7. QED
      BY <3>2, <3>5, <3>6 DEF Thins
  <2>3. CASE x \in DOMAIN L /\ left # <<>>
    <3>1. C = [L EXCEPT ![x].multi_ids = left]
      BY <2>3 DEF ClosedReceiverLists, left
    <3>2. L \in [DOMAIN L -> RequestListEntry] /\ L[x] \in RequestListEntry
      BY <1>1, <2>3 DEF IsListTable
    <3> HIDE DEF C, L
    <3>3. /\ DOMAIN C = DOMAIN L
          /\ C[x] = [L[x] EXCEPT !.multi_ids = left]
          /\ \A y \in DOMAIN L : y # x => C[y] = L[y]
      BY <2>3, <3>1, <3>2
    <3>4. /\ C[x] \in RequestListEntry
          /\ C[x].multi_ids = left /\ C[x].created_at = L[x].created_at
      BY <1>2, <2>3, <3>2, <3>3 DEF RequestListEntry
    <3>5. C \in [DOMAIN C -> RequestListEntry]
      BY <3>1, <3>2, <3>3, <3>4
    <3>6. IsListTable(C)
      BY <1>1, <3>3, <3>5 DEF IsListTable
    <3>7. QED
      BY <1>2, <2>3, <3>3, <3>4, <3>6 DEF Thins
  <2>4. QED
    BY <2>1, <2>2, <2>3
<1> HIDE DEF C
<1>4. /\ S2[m] = {q \in S[m] : q.of # x}
      /\ \A k \in Routes : k # m => S2[k] = S[k]
  BY DEF Columns
<1> HIDE DEF S2
<1>5. ASSUME NEW k \in DOMAIN requests, NEW q \in S2[k],
             ~IsExpired(requests[k], clock), ~IsExpired(q, clock)
      PROVE  OnList(C, q, k)
  <2>1. k \in Routes
    BY <1>1, RequestFacts
  <2>2. q \in S[k] /\ (k # m \/ q.of # x)
    BY <1>4, <1>5, <2>1
  <2>3. /\ q.of \in DOMAIN L /\ L[q.of].created_at = q.created_at
        /\ k \in Range(L[q.of].multi_ids)
    BY <1>5, <2>2 DEF Sound, OnList
  <2>4. q.of \in DOMAIN C /\ k \in Range(C[q.of].multi_ids)
    BY <1>3, <2>1, <2>2, <2>3
  <2>5. C[q.of].created_at = q.created_at
    BY <1>3, <2>3, <2>4 DEF Thins
  <2>6. QED
    BY <2>4, <2>5 DEF OnList
<1>6. \A y \in DOMAIN C : \A k \in Range(C[y].multi_ids) :
        y \in {k[1], k[2]} \/ <<y, k>> \in N
  BY <1>3 DEF Thins, Sound
<1>7. IsListTable(C)
  BY <1>3 DEF Thins
<1>8. QED
  BY <1>1, <1>5, <1>6, <1>7 DEF Sound, C, S2

-----------------------------------------------------------------------------
(* The inductive invariant *)

SenderColumn == [m \in Routes |-> pushed[m].sender]
ReceiverColumn == [m \in Routes |-> pushed[m].receiver]

StoreSound ==
  /\ Sound(requests, sender_requests, SenderColumn, named, clock)
  /\ Sound(requests, receiver_requests, ReceiverColumn, named, clock)

Events == Seq(BackendEvent)
Gauges == [active_peers : Nat, pending_requests : Nat]

RestOK ==
  /\ clock \in Nat
  /\ IsPeerTable(peers)
  /\ PeersHaveTargets
  /\ gauges \in Gauges
  /\ emitted \in Events
  /\ pushed \in [Routes -> Push]
  /\ named \subseteq Addr \X Routes

StoreInv == RestOK /\ StoreSound

\* It is the conjunction of what the runs check.
LEMMA InvParts ==
  ASSUME StoreInv
  PROVE  BackendInv
<1>1. BackendTypeOK
  BY DEF StoreInv, RestOK, StoreSound, Sound, BackendTypeOK, IsListTable,
         IsRequestTable, IsPeerTable, Events, Gauges
<1>2. StoredUnderItsId /\ ListsHoldOwnIds
  BY DEF StoreInv, StoreSound, Sound, IsRequestTable, StoredUnderItsId,
         ListsHoldOwnIds, IdsAreFetchable, MayFetch
<1>3. DOMAIN requests \subseteq Routes
  BY DEF StoreInv, StoreSound, Sound, IsRequestTable
<1>4. \A m \in DOMAIN requests : /\ SenderColumn[m] = pushed[m].sender
                                 /\ ReceiverColumn[m] = pushed[m].receiver
  BY <1>3 DEF SenderColumn, ReceiverColumn
<1>5. SenderFetchesItsRequests /\ ReceiverFetchesItsRequests
  BY <1>4 DEF StoreInv, StoreSound, Sound, SenderFetchesItsRequests,
              ReceiverFetchesItsRequests
<1>6. QED
  BY <1>1, <1>2, <1>5 DEF BackendInv, StoreInv, RestOK

\* The records of the lists, one column for each table.
LEMMA ColumnTypes ==
  ASSUME RestOK
  PROVE  SenderColumn \in Columns /\ ReceiverColumn \in Columns
  BY DEF RestOK, Push, Columns, SenderColumn, ReceiverColumn

\* A change of the record of one request.
LEMMA ColumnChange ==
  ASSUME RestOK, NEW m \in Routes, NEW u \in SUBSET ListRef,
         NEW v \in SUBSET ListRef,
         pushed' = [pushed EXCEPT ![m] = [sender |-> u, receiver |-> v]]
  PROVE  /\ pushed' \in [Routes -> Push]
         /\ SenderColumn' = [SenderColumn EXCEPT ![m] = u]
         /\ ReceiverColumn' = [ReceiverColumn EXCEPT ![m] = v]
         /\ SenderColumn' \in Columns /\ ReceiverColumn' \in Columns
<1> DEFINE r == [sender |-> u, receiver |-> v]
<1>1. r \in Push /\ r.sender = u /\ r.receiver = v
  BY DEF Push
<1>2. pushed \in [Routes -> Push] /\ pushed' = [pushed EXCEPT ![m] = r]
  BY DEF RestOK
<1> HIDE DEF r
<1>3. /\ pushed' \in [Routes -> Push] /\ pushed'[m] = r
      /\ \A k \in Routes : k # m => pushed'[k] = pushed[k]
  BY <1>1, <1>2
<1>4. /\ SenderColumn' = [SenderColumn EXCEPT ![m] = u]
      /\ ReceiverColumn' = [ReceiverColumn EXCEPT ![m] = v]
  BY <1>1, <1>3 DEF SenderColumn, ReceiverColumn
<1>5. SenderColumn' \in Columns /\ ReceiverColumn' \in Columns
  BY <1>3 DEF Push, Columns, SenderColumn, ReceiverColumn
<1>6. QED
  BY <1>3, <1>4, <1>5

\* The requests that the first cleanup of a handler leaves.
LEMMA LiveFacts ==
  ASSUME StoreInv
  PROVE  /\ Shrinks(LiveRequests, requests)
         /\ DOMAIN LiveRequests = {m \in DOMAIN requests : ~IsExpired(requests[m], clock)}
         /\ \A m \in DOMAIN LiveRequests : LiveRequests[m] = requests[m]
<1>1. IsRequestTable(requests) /\ clock \in Nat
  BY DEF StoreInv, RestOK, StoreSound, Sound
<1>2. QED
  BY <1>1, CleanRequests DEF LiveRequests

\* The lists after the first cleanup of a handler.
LEMMA LiveSound ==
  ASSUME StoreInv, NEW at \in Nat, NEW now \in Nat, at <= now, clock <= now
  PROVE  /\ Sound(requests, LiveLists(sender_requests, at), SenderColumn, named, now)
         /\ Sound(requests, LiveLists(receiver_requests, at), ReceiverColumn, named, now)
<1>1. clock \in Nat /\ Shrinks(LiveRequests, requests)
  BY LiveFacts DEF StoreInv, RestOK
<1>2. ASSUME NEW L, NEW S \in Columns, Sound(requests, L, S, named, clock)
      PROVE  Sound(requests, LiveLists(L, at), S, named, now)
  <2>1. Sound(requests, L, S, named, now)
    BY <1>1, <1>2, SoundLater
  <2>2. QED
    BY <1>1, <2>1, SoundCleaned DEF LiveLists
<1>3. QED
  BY <1>2, ColumnTypes DEF StoreInv, StoreSound

\* What update_request leaves.
LEMMA UpdatedFacts ==
  ASSUME StoreInv, NEW t \in Tx, NEW now \in Nat
  PROVE  /\ Shrinks(UpdatedRequests(MultiId(t), t, now), requests)
         /\ IsFound(MultiId(t), now) =>
              /\ MultiId(t) \in DOMAIN UpdatedRequests(MultiId(t), t, now)
              /\ UpdatedRequests(MultiId(t), t, now)[MultiId(t)].data = t
<1> DEFINE m == MultiId(t)
           U == UpdatedRequests(m, t, now)
           L == LiveRequests
<1>1. /\ IsRequestTable(L) /\ DOMAIN L \subseteq DOMAIN requests
      /\ \A k \in DOMAIN L : L[k] = requests[k]
  BY LiveFacts DEF Shrinks
<1>2. CASE IsFound(m, now)
  <2>1. m \in DOMAIN L /\ U = [L EXCEPT ![m].data = t]
    BY <1>2 DEF IsFound, UpdatedRequests
  <2>2. L \in [DOMAIN L -> RequestEntry] /\ L[m] \in RequestEntry
    BY <1>1, <2>1 DEF IsRequestTable
  <2> HIDE DEF U, L
  <2>3. /\ DOMAIN U = DOMAIN L /\ U[m] = [L[m] EXCEPT !.data = t]
        /\ \A k \in DOMAIN L : k # m => U[k] = L[k]
    BY <2>1, <2>2
  <2>4. /\ U[m] \in RequestEntry /\ U[m].data = t
        /\ U[m].created_at = L[m].created_at
    BY <2>2, <2>3 DEF RequestEntry
  <2>5. U \in [DOMAIN U -> RequestEntry]
    BY <2>1, <2>2, <2>3, <2>4
  <2>6. IsRequestTable(U)
    BY <1>1, <2>3, <2>4, <2>5 DEF IsRequestTable
  <2>7. QED
    BY <1>1, <2>1, <2>3, <2>4, <2>6 DEF Shrinks, U, L
<1>3. CASE ~IsFound(m, now)
  <2>1. U = RemoveKey(L, m)
    BY <1>3 DEF UpdatedRequests
  <2>2. /\ DOMAIN U = DOMAIN L \ {m}
        /\ \A k \in DOMAIN U : U[k] = L[k]
    BY <2>1 DEF RemoveKey
  <2>3. U \in [DOMAIN U -> RequestEntry]
    BY <1>1, <2>1, RemoveType DEF IsRequestTable
  <2> HIDE DEF U, L
  <2>4. IsRequestTable(U)
    BY <1>1, <2>2, <2>3 DEF IsRequestTable
  <2>5. QED
    BY <1>1, <1>3, <2>2, <2>4 DEF Shrinks, U, L
<1>4. QED
  BY <1>2, <1>3

\* The event of a failed update.
LEMMA ExpiredEventType ==
  ASSUME StoreInv, NEW m \in Routes
  PROVE  ExpiredEvent(m) \in BackendEvent
<1>1. m \in DOMAIN LiveRequests => requests[m].data \in Tx
  BY LiveFacts, RequestFacts DEF StoreInv, StoreSound, Sound
<1>2. QED
  BY <1>1, EventTypes DEF ExpiredEvent

-----------------------------------------------------------------------------
(* One lemma per kind of step *)

\* The parts of the invariant a handler that updates the metrics leaves.
LEMMA EndOfHandler ==
  ASSUME RestOK, NEW from \in Nat, clock <= from,
         NEW rs, NEW sl, NEW rl, UpdateMetrics(from, rs, sl, rl),
         pushed' \in [Routes -> Push],
         SenderColumn' \in Columns, ReceiverColumn' \in Columns,
         named' \subseteq Addr \X Routes,
         Sound(rs, sl, SenderColumn', named', from),
         Sound(rs, rl, ReceiverColumn', named', from),
         IsPeerTable(peers'), PeersHaveTargets', emitted' \in Events
  PROVE  StoreInv'
<1>1. /\ clock' \in Nat
      /\ Sound(requests', sender_requests', SenderColumn', named', clock')
      /\ Sound(requests', receiver_requests', ReceiverColumn', named', clock')
  BY SoundMetrics DEF RestOK
<1>2. DOMAIN peers' \subseteq Addr /\ DOMAIN requests' \subseteq Routes
  BY <1>1 DEF IsPeerTable, Sound, IsRequestTable
<1>3. gauges' \in Gauges
  BY <1>2, GaugesType DEF UpdateMetrics, Gauges
<1>4. RestOK'
  BY <1>1, <1>3 DEF RestOK, IsPeerTable
<1>5. StoreSound'
  BY <1>1 DEF StoreSound, Sound, IsRequestTable, IsListTable, OnList, IsExpired,
              MultiId
<1>6. QED
  BY <1>4, <1>5 DEF StoreInv

\* What handle_sender_request hands to the metrics: the request is inserted and
\* on both lists.
LEMMA SenderRequestSound ==
  ASSUME StoreInv, NEW a \in Addr, NEW t \in Tx, HandleSenderRequest(a, t)
  PROVE  LET m == MultiId(t)
             rs == Insert(LiveRequests, m, [data |-> t, created_at |-> clock])
             sl == PushId(LiveLists(sender_requests, clock), a, m)
             rl == PushId(LiveLists(receiver_requests, clock), t.receiver, m)
         IN  /\ UpdateMetrics(clock, rs, sl, rl)
             /\ pushed' \in [Routes -> Push]
             /\ SenderColumn' \in Columns /\ ReceiverColumn' \in Columns
             /\ named' \subseteq Addr \X Routes
             /\ Sound(rs, sl, SenderColumn', named', clock)
             /\ Sound(rs, rl, ReceiverColumn', named', clock)
<1> DEFINE m == MultiId(t)
           r == t.receiver
           e == [data |-> t, created_at |-> clock]
           rs == Insert(LiveRequests, m, e)
           sl == PushId(LiveLists(sender_requests, clock), a, m)
           rl == PushId(LiveLists(receiver_requests, clock), r, m)
           before == IF m \in DOMAIN LiveRequests THEN pushed[m]
                     ELSE [sender |-> {}, receiver |-> {}]
           u == before.sender \cup {RefOf(sl, a)}
           v == before.receiver \cup {RefOf(rl, r)}
<1>1. /\ clock \in Nat /\ clock <= clock /\ r \in Addr /\ m \in Routes
      /\ m[1] = t.sender /\ m[2] = r /\ RestOK
  BY TxFacts DEF StoreInv, RestOK
<1>2. e \in RequestEntry /\ e.data = t
  BY <1>1 DEF RequestEntry
<1>3. /\ Shrinks(LiveRequests, requests)
      /\ \A k \in DOMAIN LiveRequests : ~IsExpired(LiveRequests[k], clock)
  BY LiveFacts
<1>4. /\ Sound(LiveRequests, LiveLists(sender_requests, clock), SenderColumn, named, clock)
      /\ Sound(LiveRequests, LiveLists(receiver_requests, clock), ReceiverColumn, named, clock)
  <2>1. /\ Sound(requests, LiveLists(sender_requests, clock), SenderColumn, named, clock)
        /\ Sound(requests, LiveLists(receiver_requests, clock), ReceiverColumn, named, clock)
    BY <1>1, LiveSound
  <2>2. QED
    BY <1>1, <1>3, <2>1, ColumnTypes, SoundShrinks
<1>5. /\ named' = IF a \in {t.sender, r} THEN named ELSE named \cup {<<a, m>>}
      /\ pushed' = [pushed EXCEPT ![m] = PushedAnew(m, sl, a, rl, r)]
      /\ UpdateMetrics(clock, rs, sl, rl)
  BY DEF HandleSenderRequest
<1>6. /\ named \subseteq named' /\ named' \subseteq Addr \X Routes
      /\ a \in {m[1], m[2]} \/ <<a, m>> \in named'
      /\ r \in {m[1], m[2]}
  BY <1>1, <1>5 DEF RestOK
<1>7. PushedAnew(m, sl, a, rl, r) = [sender |-> u, receiver |-> v]
  BY DEF PushedAnew
<1>8. /\ before.sender \subseteq ListRef /\ before.receiver \subseteq ListRef
      /\ m \in DOMAIN LiveRequests =>
           /\ before.sender \subseteq SenderColumn[m]
           /\ before.receiver \subseteq ReceiverColumn[m]
      /\ m \notin DOMAIN LiveRequests =>
           before.sender = {} /\ before.receiver = {}
  BY <1>1 DEF RestOK, Push, SenderColumn, ReceiverColumn
<1> HIDE DEF e, before
<1>9. /\ RefOf(sl, a) \in ListRef
      /\ Sound(rs, sl, [SenderColumn EXCEPT ![m] = u], named', clock)
  BY <1>1, <1>2, <1>3, <1>4, <1>6, <1>8, ColumnTypes, SoundPushed
<1>10. /\ RefOf(rl, r) \in ListRef
       /\ Sound(rs, rl, [ReceiverColumn EXCEPT ![m] = v], named', clock)
  BY <1>1, <1>2, <1>3, <1>4, <1>6, <1>8, ColumnTypes, SoundPushed
<1> HIDE DEF rs, sl, rl
<1>11. u \in SUBSET ListRef /\ v \in SUBSET ListRef
  BY <1>8, <1>9, <1>10
<1>12. /\ pushed' \in [Routes -> Push]
       /\ SenderColumn' = [SenderColumn EXCEPT ![m] = u]
       /\ ReceiverColumn' = [ReceiverColumn EXCEPT ![m] = v]
       /\ SenderColumn' \in Columns /\ ReceiverColumn' \in Columns
  <2> HIDE DEF u, v, m
  <2>1. QED
    BY <1>1, <1>5, <1>7, <1>11, ColumnChange
<1>13. QED
  BY <1>5, <1>6, <1>9, <1>10, <1>12 DEF rs, sl, rl, e

\* handle_sender_request keeps the invariant.
LEMMA SenderRequestStep ==
  ASSUME StoreInv, NEW a \in Addr, NEW t \in Tx, HandleSenderRequest(a, t)
  PROVE  StoreInv'
<1> DEFINE r == t.receiver
           P == RequestedOnceMore(a, r)
<1>1. /\ clock \in Nat /\ clock <= clock /\ r \in Addr /\ RestOK
  BY TxFacts DEF StoreInv, RestOK
<1>2. BackendTypeOK
  BY InvParts DEF BackendInv
<1>3. /\ peers' = P
      /\ emitted' = << DataEvent("SenderRequestReceived", a, t),
                       DataEvent("SenderRequestHandled", r, t) >>
  BY DEF HandleSenderRequest
<1>4. /\ IsPeerTable(P) /\ DOMAIN P = DOMAIN peers \cup {a}
      /\ r \in DOMAIN P[a]
      /\ \A x \in DOMAIN peers : x # a => P[x] = peers[x]
  BY <1>1, <1>2, RequestedOnceMoreFacts
<1> HIDE DEF P
<1>5. IsPeerTable(peers') /\ PeersHaveTargets'
  <2>1. \A x \in DOMAIN P : DOMAIN P[x] # {}
    BY <1>1, <1>4 DEF RestOK, PeersHaveTargets
  <2>2. QED
    BY <1>3, <1>4, <2>1 DEF PeersHaveTargets
<1>6. emitted' \in Events
  <2>1. /\ DataEvent("SenderRequestReceived", a, t) \in BackendEvent
        /\ DataEvent("SenderRequestHandled", r, t) \in BackendEvent
    BY <1>1, EventTypes DEF DataEventType
  <2>2. QED
    BY <1>3, <2>1 DEF Events
<1>7. QED
  BY <1>1, <1>5, <1>6, SenderRequestSound, EndOfHandler

\* The three updates of the sender keep the invariant.
LEMMA SenderUpdateStep ==
  ASSUME StoreInv, NEW a \in Addr, NEW t \in Tx, NEW type \in DataEventType,
         SenderUpdate(type, a, t)
  PROVE  StoreInv'
<1> DEFINE m == MultiId(t)
<1>1. clock \in Nat /\ m \in Routes /\ RestOK
  BY TxFacts DEF StoreInv, RestOK
<1>2. CASE /\ emitted' = <<>>
           /\ UNCHANGED <<clock, peers, store, gauges, history>>
  <2>1. emitted' \in Events
    BY <1>2 DEF Events
  <2>2. RestOK'
    BY <1>1, <1>2, <2>1 DEF RestOK, history, IsPeerTable, PeersHaveTargets
  <2>3. StoreSound'
    <3>1. SenderColumn' = SenderColumn /\ ReceiverColumn' = ReceiverColumn
      BY <1>2 DEF history, SenderColumn, ReceiverColumn
    <3>2. UNCHANGED <<requests, sender_requests, receiver_requests, named, clock>>
      BY <1>2 DEF store, history
    <3>3. QED
      BY <3>1, <3>2 DEF StoreInv, StoreSound
  <2>4. QED
    BY <2>2, <2>3 DEF StoreInv
<1>3. ASSUME clock' \in Moments,
             requests' = UpdatedRequests(m, t, clock'),
             NEW at \in clock..clock',
             sender_requests' = LiveLists(sender_requests, at),
             receiver_requests' = LiveLists(receiver_requests, at),
             emitted' = << IF IsFound(m, clock') THEN DataEvent(type, a, t)
                                                ELSE ExpiredEvent(m) >>,
             UNCHANGED <<peers, gauges, history>>
      PROVE  StoreInv'
  <2>1. clock' \in Nat /\ clock <= clock'
    BY <1>1, <1>3, BackendAssumption DEF Moments
  <2>2. at \in Nat /\ at <= clock'
    BY <1>1, <1>3, <2>1
  <2>3. Shrinks(requests', requests)
    BY <1>3, <2>1, UpdatedFacts
  <2>4. /\ Sound(requests', sender_requests', SenderColumn, named, clock')
        /\ Sound(requests', receiver_requests', ReceiverColumn, named, clock')
    <3>1. /\ Sound(requests, sender_requests', SenderColumn, named, clock')
          /\ Sound(requests, receiver_requests', ReceiverColumn, named, clock')
      BY <1>3, <2>1, <2>2, LiveSound
    <3>2. QED
      BY <1>1, <2>1, <2>3, <3>1, ColumnTypes, SoundShrinks
  <2>5. emitted' \in Events
    <3>1. DataEvent(type, a, t) \in BackendEvent /\ ExpiredEvent(m) \in BackendEvent
      BY <1>1, EventTypes, ExpiredEventType
    <3>2. QED
      BY <1>3, <3>1 DEF Events
  <2>6. RestOK'
    BY <1>1, <1>3, <2>1, <2>5 DEF RestOK, history, IsPeerTable, PeersHaveTargets
  <2>7. /\ named' = named /\ SenderColumn' = SenderColumn
        /\ ReceiverColumn' = ReceiverColumn
    BY <1>3 DEF history, SenderColumn, ReceiverColumn
  <2>8. StoreSound'
    BY <2>4, <2>7 DEF StoreSound, Sound, IsRequestTable, IsListTable, OnList,
                      IsExpired, MultiId
  <2>9. QED
    BY <2>6, <2>8 DEF StoreInv
<1>4. QED
  BY <1>2, <1>3 DEF SenderUpdate

\* What handle_receiver_response hands to the metrics: the updated requests, or
\* those with the response inserted anew, on no list.
ResponseTable(rs, t, now) ==
  LET m == MultiId(t)
  IN  \/ /\ IsFound(m, now)
         /\ rs = UpdatedRequests(m, t, now)
         /\ UNCHANGED pushed
      \/ /\ ~IsFound(m, now)
         /\ rs = Insert(CleanupExpiredRequests(UpdatedRequests(m, t, now), now),
                        m, [data |-> t, created_at |-> now])
         /\ pushed' = [pushed EXCEPT ![m] = [sender |-> {}, receiver |-> {}]]

\* The parts of the handler.
LEMMA ReceiverResponseParts ==
  ASSUME StoreInv, NEW a \in Addr, NEW t \in Tx, HandleReceiverResponse(a, t)
  PROVE  /\ UNCHANGED <<peers, named>>
         /\ \E at, now, rs :
              /\ at \in Nat /\ now \in Nat
              /\ clock <= at /\ at <= now /\ now <= clock + HandlerTime
              /\ ResponseTable(rs, t, now)
              /\ UpdateMetrics(now, rs, LiveLists(sender_requests, at),
                               LiveLists(receiver_requests, at))
              /\ emitted' =
                   IF IsFound(MultiId(t), now)
                   THEN << DataEvent("ReceiverResponseReceived", a, t),
                           DataEvent("ReceiverResponseHandled", a, t) >>
                   ELSE << DataEvent("ReceiverResponseReceived", a, t),
                           ExpiredEvent(MultiId(t)),
                           DataEvent("ReceiverResponseHandled", a, t) >>
<1> DEFINE m == MultiId(t)
           received == DataEvent("ReceiverResponseReceived", a, t)
           handled == DataEvent("ReceiverResponseHandled", a, t)
           x == ExpiredEvent(m)
           inserted(now) ==
             Insert(CleanupExpiredRequests(UpdatedRequests(m, t, now), now), m,
                    [data |-> t, created_at |-> now])
           sl(at) == LiveLists(sender_requests, at)
           rl(at) == LiveLists(receiver_requests, at)
<1>1. PICK at \in Moments, now \in Moments :
        /\ at <= now
        /\ \/ /\ IsFound(m, now)
              /\ UpdateMetrics(now, UpdatedRequests(m, t, now), sl(at), rl(at))
              /\ emitted' = <<received, handled>>
              /\ UNCHANGED pushed
           \/ /\ ~IsFound(m, now)
              /\ UpdateMetrics(now, inserted(now), sl(at), rl(at))
              /\ emitted' = <<received, x, handled>>
              /\ pushed' = [pushed EXCEPT ![m] = [sender |-> {}, receiver |-> {}]]
  BY DEF HandleReceiverResponse
<1>2. /\ at \in Nat /\ now \in Nat /\ clock <= at /\ now <= clock + HandlerTime
  BY BackendAssumption DEF StoreInv, RestOK, Moments
<1>3. UNCHANGED <<peers, named>>
  BY DEF HandleReceiverResponse
<1> HIDE DEF received, handled, x, inserted, sl, rl, m
<1>4. CASE /\ IsFound(m, now)
           /\ UpdateMetrics(now, UpdatedRequests(m, t, now), sl(at), rl(at))
           /\ emitted' = <<received, handled>>
           /\ UNCHANGED pushed
  <2>1. ResponseTable(UpdatedRequests(m, t, now), t, now)
    BY <1>4 DEF ResponseTable, m
  <2>2. emitted' = IF IsFound(m, now) THEN <<received, handled>>
                                      ELSE <<received, x, handled>>
    BY <1>4
  <2>3. QED
    BY <1>1, <1>2, <1>3, <1>4, <2>1, <2>2 DEF received, handled, x, sl, rl, m
<1>5. CASE /\ ~IsFound(m, now)
           /\ UpdateMetrics(now, inserted(now), sl(at), rl(at))
           /\ emitted' = <<received, x, handled>>
           /\ pushed' = [pushed EXCEPT ![m] = [sender |-> {}, receiver |-> {}]]
  <2>1. ResponseTable(inserted(now), t, now)
    BY <1>5 DEF ResponseTable, inserted, m
  <2>2. emitted' = IF IsFound(m, now) THEN <<received, handled>>
                                      ELSE <<received, x, handled>>
    BY <1>5
  <2>3. QED
    BY <1>1, <1>2, <1>3, <1>5, <2>1, <2>2 DEF received, handled, x, sl, rl, m
<1>6. QED
  BY <1>1, <1>4, <1>5

\* A table that is sound stays so with the response in it.
LEMMA ResponseSound ==
  ASSUME StoreInv, NEW t \in Tx, NEW now \in Nat, NEW at \in Nat,
         clock <= now, at <= now, NEW rs, ResponseTable(rs, t, now)
  PROVE  /\ pushed' \in [Routes -> Push]
         /\ SenderColumn' \in Columns /\ ReceiverColumn' \in Columns
         /\ Sound(rs, LiveLists(sender_requests, at), SenderColumn', named, now)
         /\ Sound(rs, LiveLists(receiver_requests, at), ReceiverColumn', named, now)
<1> DEFINE m == MultiId(t)
           U == UpdatedRequests(m, t, now)
           C == CleanupExpiredRequests(U, now)
           e == [data |-> t, created_at |-> now]
           sl == LiveLists(sender_requests, at)
           rl == LiveLists(receiver_requests, at)
<1>1. m \in Routes /\ RestOK /\ SenderColumn \in Columns /\ ReceiverColumn \in Columns
  BY TxFacts, ColumnTypes DEF StoreInv
<1>2. Shrinks(U, requests)
  BY UpdatedFacts
<1>3. Sound(U, sl, SenderColumn, named, now) /\ Sound(U, rl, ReceiverColumn, named, now)
  <2>1. /\ Sound(requests, sl, SenderColumn, named, now)
        /\ Sound(requests, rl, ReceiverColumn, named, now)
    BY LiveSound
  <2> HIDE DEF sl, rl, U
  <2>2. QED
    BY <1>1, <1>2, <2>1, SoundShrinks
<1>4. CASE rs = U /\ UNCHANGED pushed
  <2>1. SenderColumn' = SenderColumn /\ ReceiverColumn' = ReceiverColumn
    BY <1>4 DEF SenderColumn, ReceiverColumn
  <2>2. pushed' \in [Routes -> Push]
    BY <1>1, <1>4 DEF RestOK
  <2> HIDE DEF sl, rl, U
  <2>3. QED
    BY <1>1, <1>3, <1>4, <2>1, <2>2 DEF sl, rl
<1>5. CASE /\ rs = Insert(C, m, e)
           /\ pushed' = [pushed EXCEPT ![m] = [sender |-> {}, receiver |-> {}]]
  <2>1. Shrinks(C, U)
    BY <1>2, CleanRequests DEF Shrinks
  <2>2. e \in RequestEntry /\ MultiId(e.data) = m
    BY DEF RequestEntry
  <2>3. /\ pushed' \in [Routes -> Push]
        /\ SenderColumn' = [SenderColumn EXCEPT ![m] = {}]
        /\ ReceiverColumn' = [ReceiverColumn EXCEPT ![m] = {}]
        /\ SenderColumn' \in Columns /\ ReceiverColumn' \in Columns
    <3>1. {} \in SUBSET ListRef
      OBVIOUS
    <3> HIDE DEF m
    <3>2. QED
      BY <1>1, <1>5, <3>1, ColumnChange
  <2> HIDE DEF sl, rl, U, C, e, m
  <2>4. Sound(C, sl, SenderColumn, named, now) /\ Sound(C, rl, ReceiverColumn, named, now)
    BY <1>1, <1>3, <2>1, SoundShrinks
  <2>5. /\ Sound(rs, sl, [SenderColumn EXCEPT ![m] = {}], named, now)
        /\ Sound(rs, rl, [ReceiverColumn EXCEPT ![m] = {}], named, now)
    BY <1>1, <1>5, <2>2, <2>4, SoundInserted
  <2>6. QED
    BY <2>3, <2>5 DEF sl, rl
<1>6. QED
  BY <1>4, <1>5 DEF ResponseTable

\* handle_receiver_response keeps the invariant.
LEMMA ReceiverResponseStep ==
  ASSUME StoreInv, NEW a \in Addr, NEW t \in Tx, HandleReceiverResponse(a, t)
  PROVE  StoreInv'
<1> DEFINE m == MultiId(t)
           received == DataEvent("ReceiverResponseReceived", a, t)
           handled == DataEvent("ReceiverResponseHandled", a, t)
           x == ExpiredEvent(m)
<1>1. PICK at, now, rs :
        /\ at \in Nat /\ now \in Nat
        /\ clock <= at /\ at <= now
        /\ ResponseTable(rs, t, now)
        /\ UpdateMetrics(now, rs, LiveLists(sender_requests, at),
                         LiveLists(receiver_requests, at))
        /\ emitted' = IF IsFound(m, now) THEN <<received, handled>>
                                         ELSE <<received, x, handled>>
  BY ReceiverResponseParts
<1>2. clock \in Nat /\ clock <= now /\ m \in Routes /\ RestOK
  BY <1>1, TxFacts DEF StoreInv, RestOK
<1>3. UNCHANGED <<peers, named>>
  BY DEF HandleReceiverResponse
<1>4. /\ pushed' \in [Routes -> Push]
      /\ SenderColumn' \in Columns /\ ReceiverColumn' \in Columns
      /\ Sound(rs, LiveLists(sender_requests, at), SenderColumn', named, now)
      /\ Sound(rs, LiveLists(receiver_requests, at), ReceiverColumn', named, now)
  BY <1>1, <1>2, ResponseSound
<1>5. emitted' \in Events
  <2>1. received \in BackendEvent /\ handled \in BackendEvent /\ x \in BackendEvent
    BY <1>2, EventTypes, ExpiredEventType DEF DataEventType
  <2> HIDE DEF received, handled, x
  <2>2. /\ <<received, handled>> \in Seq(BackendEvent)
        /\ <<received, x, handled>> \in Seq(BackendEvent)
    BY <2>1
  <2>3. QED
    BY <1>1, <2>2 DEF Events
<1>6. IsPeerTable(peers') /\ PeersHaveTargets' /\ named' = named
      /\ named' \subseteq Addr \X Routes
  BY <1>2, <1>3 DEF RestOK, IsPeerTable, PeersHaveTargets
<1>7. QED
  BY <1>1, <1>2, <1>4, <1>5, <1>6, EndOfHandler

\* disconnect_peer keeps the invariant.
LEMMA DisconnectPeerStep ==
  ASSUME StoreInv, NEW a \in Addr, NEW t \in Tx, DisconnectPeer(a, t)
  PROVE  StoreInv'
<1> DEFINE m == MultiId(t)
           lists == ClosedReceiverLists(a, m)
           u == pushed[m].sender
           v == {q \in pushed[m].receiver : q.of # a}
<1>1. /\ clock \in Nat /\ clock <= clock /\ m \in Routes /\ RestOK
      /\ SenderColumn \in Columns /\ ReceiverColumn \in Columns
      /\ BackendTypeOK /\ PeersHaveTargets
  BY TxFacts, ColumnTypes, InvParts DEF StoreInv, RestOK, BackendInv
<1>2. /\ pushed' = [pushed EXCEPT ![m].receiver = {q \in @ : q.of # a}]
      /\ named' = named /\ named' \subseteq Addr \X Routes
  BY <1>1 DEF DisconnectPeer, RestOK
<1>3. /\ pushed' = [pushed EXCEPT ![m] = [sender |-> u, receiver |-> v]]
      /\ u \in SUBSET ListRef /\ v \in SUBSET ListRef
  <2>1. pushed \in [Routes -> Push] /\ pushed[m] \in Push
    BY <1>1 DEF RestOK
  <2>2. [pushed[m] EXCEPT !.receiver = v] = [sender |-> u, receiver |-> v]
    <3>1. \A r \in Push : \A w : [r EXCEPT !.receiver = w]
                             = [sender |-> r.sender, receiver |-> w]
      BY DEF Push
    <3>2. QED
      BY <2>1, <3>1
  <2>3. u \in SUBSET ListRef /\ v \in SUBSET ListRef
    BY <2>1 DEF Push
  <2>4. pushed' = [pushed EXCEPT ![m] = [pushed[m] EXCEPT !.receiver = v]]
    BY <1>1, <1>2, <2>1
  <2>5. QED
    BY <2>2, <2>3, <2>4
<1>4. /\ pushed' \in [Routes -> Push]
      /\ SenderColumn' = [SenderColumn EXCEPT ![m] = u]
      /\ ReceiverColumn' = [ReceiverColumn EXCEPT ![m] = v]
      /\ SenderColumn' \in Columns /\ ReceiverColumn' \in Columns
  <2> HIDE DEF u, v, m
  <2>1. QED
    BY <1>1, <1>3, ColumnChange
<1>5. SenderColumn' = SenderColumn
      /\ ReceiverColumn' = [ReceiverColumn EXCEPT ![m] = {q \in @ : q.of # a}]
  <2>1. u = SenderColumn[m] /\ v = {q \in ReceiverColumn[m] : q.of # a}
    BY <1>1 DEF SenderColumn, ReceiverColumn
  <2>2. QED
    BY <1>1, <1>4, <2>1 DEF Columns
<1>6. /\ Sound(requests, sender_requests, SenderColumn', named', clock)
      /\ Sound(requests, lists, ReceiverColumn', named', clock)
  <2>1. /\ Sound(requests, sender_requests, SenderColumn, named, clock)
        /\ Sound(requests, receiver_requests, ReceiverColumn, named, clock)
    BY DEF StoreInv, StoreSound
  <2>2. Sound(requests, lists, [ReceiverColumn EXCEPT ![m] = {q \in @ : q.of # a}],
              named, clock)
    BY <1>1, <2>1, SoundClosed
  <2>3. QED
    BY <1>2, <1>5, <2>1, <2>2
<1> HIDE DEF lists
<1>7. ASSUME NEW s \in DOMAIN peers, peers' = WithoutTarget(s, a),
             UpdateMetrics(clock, requests, sender_requests, lists),
             emitted' = << [type |-> "PeerDisconnected", address |-> a] >>
      PROVE  StoreInv'
  <2>1. IsPeerTable(peers') /\ PeersHaveTargets'
    BY <1>1, <1>7, WithoutTargetFacts DEF PeersHaveTargets
  <2>2. emitted' \in Events
    BY <1>7, EventTypes DEF Events
  <2>3. QED
    BY <1>1, <1>2, <1>4, <1>6, <1>7, <2>1, <2>2, EndOfHandler
<1>8. ASSUME receiver_requests' = lists, emitted' = <<>>,
             UNCHANGED <<clock, peers, requests, sender_requests, gauges>>
      PROVE  StoreInv'
  <2>1. emitted' \in Events
    BY <1>8 DEF Events
  <2>2. RestOK'
    BY <1>1, <1>2, <1>4, <1>8, <2>1 DEF RestOK, IsPeerTable, PeersHaveTargets
  <2>3. /\ Sound(requests', sender_requests', SenderColumn', named', clock')
        /\ Sound(requests', receiver_requests', ReceiverColumn', named', clock')
    BY <1>6, <1>8
  <2>4. StoreSound'
    BY <2>3 DEF StoreSound, Sound, IsRequestTable, IsListTable, OnList,
                IsExpired, MultiId
  <2>5. QED
    BY <2>2, <2>4 DEF StoreInv
<1>9. QED
  BY <1>7, <1>8 DEF DisconnectPeer, lists

-----------------------------------------------------------------------------
(* What a fetch answers *)

\* The transactions that a list of ids leads to: stored, not reverted, and
\* with ids on the list.
LEMMA StoredOfFacts ==
  ASSUME IsRequestTable(requests), NEW ids \in Seq(Routes)
  PROVE  /\ StoredOf(ids) \in Seq(Tx)
         /\ \A i \in DOMAIN StoredOf(ids) :
              /\ MultiId(StoredOf(ids)[i]) \in Range(ids)
              /\ ~IsReverted(StoredOf(ids)[i])
<1> DEFINE T == {m \in DOMAIN requests : ~IsReverted(requests[m].data)}
           found == Keep(ids, T)
           A == StoredOf(ids)
<1>1. found \in Seq(Routes) /\ Range(found) = Range(ids) \cap T
  BY KeepKind, KeepRange
<1>2. A = [i \in DOMAIN found |-> requests[found[i]].data]
  BY DEF StoredOf
<1> HIDE DEF found, A
<1>3. \A i \in DOMAIN found : found[i] \in Range(ids) /\ found[i] \in T
  BY <1>1 DEF Range
<1>4. ASSUME NEW i \in DOMAIN found
      PROVE  /\ requests[found[i]].data \in Tx
             /\ MultiId(requests[found[i]].data) \in Range(ids)
             /\ ~IsReverted(requests[found[i]].data)
  <2>1. found[i] \in DOMAIN requests /\ found[i] \in Range(ids)
        /\ ~IsReverted(requests[found[i]].data)
    BY <1>3
  <2>2. QED
    BY <2>1, RequestFacts
<1>5. DOMAIN found = 1..Len(found) /\ Len(found) \in Nat
  BY <1>1
<1>6. A \in Seq(Tx)
  BY <1>2, <1>4, <1>5
<1>7. QED
  BY <1>2, <1>4, <1>6 DEF A

\* The ids of an address are ids.
LEMMA IdsOfType ==
  ASSUME NEW L, IsListTable(L), NEW a
  PROVE  /\ IdsOf(L, a) \in Seq(Routes)
         /\ \A m \in Range(IdsOf(L, a)) :
              a \in DOMAIN L /\ m \in Range(L[a].multi_ids)
<1>1. CASE a \in DOMAIN L
  BY <1>1, ListFacts DEF IdsOf
<1>2. CASE a \notin DOMAIN L
  <2>1. IdsOf(L, a) = <<>>
    BY <1>2 DEF IdsOf
  <2>2. Range(<<>>) = {}
    BY DEF Range
  <2>3. QED
    BY <2>1, <2>2
<1>3. QED
  BY <1>1, <1>2

\* The answer to a fetch: transactions that the address is a party of, or was
\* named for.
LEMMA PendingFacts ==
  ASSUME StoreInv, NEW a \in Addr
  PROVE  /\ PendingTransactions(a) \in Seq(Tx)
         /\ \A t \in Range(PendingTransactions(a)) :
              MayFetch(a, MultiId(t)) /\ ~IsReverted(t)
<1> DEFINE i1 == IdsOf(sender_requests, a)
           i2 == IdsOf(receiver_requests, a)
           s1 == StoredOf(i1)
           s2 == StoredOf(i2)
           A == s1 \o s2
<1>1. /\ IsRequestTable(requests)
      /\ IsListTable(sender_requests) /\ IsListTable(receiver_requests)
  BY DEF StoreInv, StoreSound, Sound
<1>2. i1 \in Seq(Routes) /\ i2 \in Seq(Routes)
  BY <1>1, IdsOfType
<1>3. \A m \in Range(i1) \cup Range(i2) : MayFetch(a, m)
  <2>1. ASSUME NEW m \in Range(i1) PROVE MayFetch(a, m)
    <3>1. a \in DOMAIN sender_requests /\ m \in Range(sender_requests[a].multi_ids)
      BY <1>1, IdsOfType
    <3>2. QED
      BY <3>1 DEF StoreInv, StoreSound, Sound, MayFetch
  <2>2. ASSUME NEW m \in Range(i2) PROVE MayFetch(a, m)
    <3>1. a \in DOMAIN receiver_requests /\ m \in Range(receiver_requests[a].multi_ids)
      BY <1>1, IdsOfType
    <3>2. QED
      BY <3>1 DEF StoreInv, StoreSound, Sound, MayFetch
  <2>3. QED
    BY <2>1, <2>2
<1>4. /\ s1 \in Seq(Tx) /\ s2 \in Seq(Tx)
      /\ \A i \in DOMAIN s1 : MultiId(s1[i]) \in Range(i1) /\ ~IsReverted(s1[i])
      /\ \A i \in DOMAIN s2 : MultiId(s2[i]) \in Range(i2) /\ ~IsReverted(s2[i])
  BY <1>1, <1>2, StoredOfFacts
<1>5. PendingTransactions(a) = A
  BY DEF PendingTransactions
<1> HIDE DEF i1, i2, s1, s2
<1>6. /\ A \in Seq(Tx)
      /\ \A k \in DOMAIN A : \/ \E i \in DOMAIN s1 : A[k] = s1[i]
                             \/ \E i \in DOMAIN s2 : A[k] = s2[i]
  <2>1. /\ A \in Seq(Tx) /\ Len(A) = Len(s1) + Len(s2)
        /\ DOMAIN A = 1..(Len(s1) + Len(s2))
        /\ DOMAIN s1 = 1..Len(s1) /\ DOMAIN s2 = 1..Len(s2)
        /\ Len(s1) \in Nat /\ Len(s2) \in Nat
        /\ \A k \in DOMAIN A : A[k] = IF k <= Len(s1) THEN s1[k]
                                      ELSE s2[k - Len(s1)]
    BY <1>4
  <2> HIDE DEF A
  <2>2. ASSUME NEW k \in DOMAIN A
        PROVE  \/ \E i \in DOMAIN s1 : A[k] = s1[i]
               \/ \E i \in DOMAIN s2 : A[k] = s2[i]
    <3>1. CASE k <= Len(s1)
      BY <2>1, <2>2, <3>1
    <3>2. CASE ~(k <= Len(s1))
      <4>1. k - Len(s1) \in DOMAIN s2 /\ A[k] = s2[k - Len(s1)]
        BY <2>1, <2>2, <3>2
      <4>2. QED
        BY <4>1
    <3>3. QED
      BY <3>1, <3>2
  <2>3. QED
    BY <2>1, <2>2
<1> HIDE DEF A
<1>7. ASSUME NEW t \in Range(A)
      PROVE  MayFetch(a, MultiId(t)) /\ ~IsReverted(t)
  <2>1. PICK k \in DOMAIN A : t = A[k]
    BY <1>7 DEF Range
  <2>2. MultiId(t) \in Range(i1) \cup Range(i2) /\ ~IsReverted(t)
    BY <1>4, <1>6, <2>1
  <2>3. QED
    BY <1>3, <2>2
<1>8. QED
  BY <1>5, <1>6, <1>7

-----------------------------------------------------------------------------
(* All steps *)

\* The steps that leave the stored requests alone.
QuietStep ==
  \/ RejectUndecodable
  \/ Tick
  \/ \E a \in Callers : HandleSenderRequestUndecodable(a)
  \/ \E a \in Addr : FetchPendingTransactions(a)
  \/ UNCHANGED backendVars

\* They do.
LEMMA QuietStepFacts ==
  ASSUME QuietStep
  PROVE  UNCHANGED <<peers, requests, sender_requests, receiver_requests, gauges,
                     pushed, named>>
  BY DEF QuietStep, RejectUndecodable, Tick, HandleSenderRequestUndecodable,
         FetchPendingTransactions, backendVars, store, history

\* They keep the invariant.
LEMMA QuietStepKeeps ==
  ASSUME StoreInv, QuietStep
  PROVE  StoreInv'
<1>1. RestOK /\ clock \in Nat /\ emitted \in Events
  BY DEF StoreInv, RestOK
<1>2. UNCHANGED <<peers, requests, sender_requests, receiver_requests, gauges,
                  pushed, named>>
  BY QuietStepFacts
<1>3. clock' \in Nat /\ clock <= clock'
  <2>1. clock' = clock \/ clock' = clock + 1
    BY DEF QuietStep, RejectUndecodable, Tick, HandleSenderRequestUndecodable,
           FetchPendingTransactions, backendVars
  <2>2. QED
    BY <1>1, <2>1
<1>4. emitted' \in Events
  <2>1. CASE RejectUndecodable \/ Tick
    <3>1. emitted' = <<>>
      BY <2>1 DEF RejectUndecodable, Tick
    <3>2. QED
      BY <3>1 DEF Events
  <2>2. ASSUME NEW a \in Callers, HandleSenderRequestUndecodable(a)
        PROVE  emitted' \in Events
    <3>1. a \in Addr
      BY BackendAssumption
    <3>2. DataEvent("SenderRequestReceived", a, Undecodable) \in BackendEvent
      BY <3>1, EventTypes DEF DataEventType
    <3>3. QED
      BY <2>2, <3>2 DEF HandleSenderRequestUndecodable, Events
  <2>3. ASSUME NEW a \in Addr, FetchPendingTransactions(a)
        PROVE  emitted' \in Events
    <3> DEFINE ev == [ type |-> "PendingTransactionsFetched", address |-> a,
                       transactions |-> PendingTransactions(a) ]
    <3>1. PendingTransactions(a) \in Seq(Tx)
      BY PendingFacts
    <3>2. ev \in BackendEvent
      BY <3>1, EventTypes
    <3>3. emitted' = <<ev>>
      BY <2>3 DEF FetchPendingTransactions
    <3> HIDE DEF ev
    <3>4. QED
      BY <3>2, <3>3 DEF Events
  <2>4. CASE UNCHANGED backendVars
    BY <1>1, <2>4 DEF backendVars
  <2>5. QED
    BY <2>1, <2>2, <2>3, <2>4 DEF QuietStep
<1>5. RestOK'
  BY <1>1, <1>2, <1>3, <1>4 DEF RestOK, IsPeerTable, PeersHaveTargets
<1>6. SenderColumn' = SenderColumn /\ ReceiverColumn' = ReceiverColumn
  BY <1>2 DEF SenderColumn, ReceiverColumn
<1>7. /\ Sound(requests, sender_requests, SenderColumn, named, clock')
      /\ Sound(requests, receiver_requests, ReceiverColumn, named, clock')
  BY <1>1, <1>3, ColumnTypes, SoundLater DEF StoreInv, StoreSound
<1>8. StoreSound'
  <2>1. /\ Sound(requests', sender_requests', SenderColumn', named', clock')
        /\ Sound(requests', receiver_requests', ReceiverColumn', named', clock')
    BY <1>2, <1>6, <1>7
  <2>2. QED
    BY <2>1 DEF StoreSound, Sound, IsRequestTable, IsListTable, OnList, IsExpired,
                MultiId
<1>9. QED
  BY <1>5, <1>8 DEF StoreInv

UpdateTypes == {"SenderConfirmed", "SenderReverted", "TxSubmitted"}

\* The kinds of steps there are.  The handlers of the sender are instances of
\* one update.
LEMMA KindsOfSteps ==
  ASSUME [BackendNext]_backendVars
  PROVE  \/ \E a \in Addr, t \in Tx : \/ HandleSenderRequest(a, t)
                                      \/ \E type \in UpdateTypes :
                                           SenderUpdate(type, a, t)
                                      \/ HandleReceiverResponse(a, t)
                                      \/ DisconnectPeer(a, t)
         \/ QuietStep
<1>1. \A a \in Callers : a \in Addr
  BY BackendAssumption
<1>2. QED
  BY <1>1 DEF BackendNext, RpcCall, QuietStep, UpdateTypes,
    HandleSenderConfirmation, HandleSenderRevertation, HandleTxSubmissionUpdates

\* Every step keeps the invariant.
LEMMA StoreInvStep ==
  ASSUME StoreInv, [BackendNext]_backendVars
  PROVE  StoreInv'
<1>1. UpdateTypes \subseteq DataEventType
  BY DEF UpdateTypes, DataEventType
<1>2. QED
  BY <1>1, KindsOfSteps, SenderRequestStep, SenderUpdateStep,
     ReceiverResponseStep, DisconnectPeerStep, QuietStepKeeps

\* The empty store satisfies it.
LEMMA StoreInvInit ==
  ASSUME BackendInit
  PROVE  StoreInv
<1>1. IsRequestTable(<<>>) /\ IsListTable(<<>>) /\ IsPeerTable(<<>>)
  BY DEF IsRequestTable, IsListTable, IsPeerTable
<1>2. pushed \in [Routes -> Push]
  BY DEF BackendInit, Push
<1>3. RestOK
  BY <1>1, <1>2 DEF BackendInit, RestOK, PeersHaveTargets, Events, Gauges
<1>4. StoreSound
  BY <1>1 DEF BackendInit, StoreSound, Sound
<1>5. QED
  BY <1>3, <1>4 DEF StoreInv

\* The invariant holds in every reachable state.
LEMMA StoreIsSound == BackendSpec => []StoreInv
<1>1. BackendInit => StoreInv
  BY StoreInvInit
<1>2. StoreInv /\ [BackendNext]_backendVars => StoreInv'
  BY StoreInvStep
<1>3. QED
  BY <1>1, <1>2, PTL DEF BackendSpec

\* In every reachable state the tables are typed, requests are stored under
\* their own id, a list holds only ids of its owner's routes and of those it
\* was named for, and a live request is on every live list it was pushed on,
\* unless, for the receiver's, a disconnect took it off.
THEOREM BackendSafe == BackendSpec => []BackendInv
<1>1. StoreInv => BackendInv
  BY InvParts
<1>2. QED
  BY <1>1, StoreIsSound, PTL

\* Every reachable state is type correct, and no sender stays in the peer
\* table without a target.
THEOREM BackendTypeCorrect == BackendSpec => [](BackendTypeOK /\ PeersHaveTargets)
<1>1. BackendInv => BackendTypeOK /\ PeersHaveTargets
  BY DEF BackendInv
<1>2. QED
  BY <1>1, BackendSafe, PTL

\* No other step broadcasts an answer to a fetch.
LEMMA OnlyFetchAnswers ==
  ASSUME StoreInv, BackendNext,
         ~ \E x \in Addr : FetchPendingTransactions(x)
  PROVE  \A i \in DOMAIN emitted' :
           emitted'[i].type # "PendingTransactionsFetched"
<1> DEFINE NoAnswer == \A i \in DOMAIN emitted' :
                         emitted'[i].type # "PendingTransactionsFetched"
<1>1. ASSUME NEW a \in Addr, NEW t \in Tx, HandleSenderRequest(a, t)
      PROVE  NoAnswer
  BY <1>1 DEF HandleSenderRequest, DataEvent
<1>2. ASSUME NEW a \in Addr, NEW t \in Tx, NEW type \in UpdateTypes,
             SenderUpdate(type, a, t)
      PROVE  NoAnswer
  BY <1>2 DEF SenderUpdate, DataEvent, ExpiredEvent, DataExpired, UpdateTypes
<1>3. ASSUME NEW a \in Addr, NEW t \in Tx, HandleReceiverResponse(a, t)
      PROVE  NoAnswer
  <2> DEFINE x == ExpiredEvent(MultiId(t))
             received == DataEvent("ReceiverResponseReceived", a, t)
             handled == DataEvent("ReceiverResponseHandled", a, t)
  <2>1. \/ emitted' = <<received, handled>>
        \/ emitted' = <<received, x, handled>>
    BY <1>3 DEF HandleReceiverResponse
  <2>2. /\ x.type # "PendingTransactionsFetched"
        /\ received.type # "PendingTransactionsFetched"
        /\ handled.type # "PendingTransactionsFetched"
    BY DEF DataEvent, ExpiredEvent, DataExpired
  <2> HIDE DEF x, received, handled
  <2>3. QED
    BY <2>1, <2>2
<1>4. ASSUME NEW a \in Addr, NEW t \in Tx, DisconnectPeer(a, t)
      PROVE  NoAnswer
  BY <1>4 DEF DisconnectPeer
<1>5. ASSUME \/ RejectUndecodable
             \/ Tick
             \/ \E a \in Callers : HandleSenderRequestUndecodable(a)
      PROVE  NoAnswer
  BY <1>5 DEF RejectUndecodable, Tick, HandleSenderRequestUndecodable, DataEvent
<1>6. \A a \in Callers : a \in Addr
  BY BackendAssumption
<1> HIDE DEF NoAnswer
<1>7. NoAnswer
  BY <1>1, <1>2, <1>3, <1>4, <1>5, <1>6
  DEF BackendNext, RpcCall, UpdateTypes, HandleSenderConfirmation,
      HandleSenderRevertation, HandleTxSubmissionUpdates
<1>8. QED
  BY <1>7 DEF NoAnswer

\* An address is answered only with transactions that it is a party of, or
\* whose route a sender request was made for under this address, and never
\* with a reverted one (fetch_pending_transactions).
THEOREM BackendAnswersParties == BackendSpec => []FetchedOnlyByParties
<1>1. BackendInit => FetchedOnlyByParties
  BY DEF BackendInit, FetchedOnlyByParties, Emitted
<1>2. StoreInv /\ FetchedOnlyByParties /\ [BackendNext]_backendVars
        => FetchedOnlyByParties'
  <2>1. ASSUME StoreInv, NEW x \in Addr, FetchPendingTransactions(x)
        PROVE  FetchedOnlyByParties'
    <3> DEFINE ev == [ type |-> "PendingTransactionsFetched", address |-> x,
                       transactions |-> PendingTransactions(x) ]
    <3>1. emitted' = <<ev>> /\ named' = named
      BY <2>1 DEF FetchPendingTransactions, history
    <3>2. \A i \in DOMAIN emitted' : emitted'[i] = ev
      BY <3>1
    <3>3. ev.address = x /\ ev.transactions = PendingTransactions(x)
      OBVIOUS
    <3>4. \A t \in Range(PendingTransactions(x)) :
            MayFetch(x, MultiId(t)) /\ ~IsReverted(t)
      BY <2>1, PendingFacts
    <3> HIDE DEF ev
    <3>5. \A e \in Emitted' : e = ev
      BY <3>2 DEF Emitted
    <3>6. \A e \in Emitted' : \A t \in Range(e.transactions) :
            MayFetch(e.address, MultiId(t)) /\ ~IsReverted(t)
      BY <3>3, <3>4, <3>5
    <3>7. QED
      BY <3>1, <3>6 DEF FetchedOnlyByParties, IsReverted, MayFetch, MultiId
  <2>2. ASSUME StoreInv, BackendNext, ~ \E x \in Addr : FetchPendingTransactions(x)
        PROVE  FetchedOnlyByParties'
    BY <2>2, OnlyFetchAnswers DEF FetchedOnlyByParties, Emitted
  <2>3. ASSUME FetchedOnlyByParties, UNCHANGED backendVars
        PROVE  FetchedOnlyByParties'
    BY <2>3 DEF FetchedOnlyByParties, Emitted, backendVars, IsReverted, MayFetch,
                MultiId
  <2>4. QED
    BY <2>1, <2>2, <2>3
<1>3. QED
  BY <1>1, <1>2, StoreIsSound, PTL DEF BackendSpec

\* As long as the list it was pushed on has not expired, a live request is on
\* it, so that fetch_pending_transactions for the address it was submitted
\* under returns it.
COROLLARY SenderCanFetch == BackendSpec => []SenderFetchesItsRequests
<1>1. BackendInv => SenderFetchesItsRequests
  BY DEF BackendInv
<1> QED BY <1>1, BackendSafe, PTL

\* The same for the receiver, until a disconnect_peer of that very request:
\* requests of other senders stay on the list.
COROLLARY ReceiverCanFetch == BackendSpec => []ReceiverFetchesItsRequests
<1>1. BackendInv => ReceiverFetchesItsRequests
  BY DEF BackendInv
<1> QED BY <1>1, BackendSafe, PTL
=============================================================================
