----------------------------- MODULE NodeProofs -----------------------------
(***************************************************************************)
(* Proofs about the node: what it submits carries the signatures of both   *)
(* parties; and what every cache, queue and task holds is such that a      *)
(* transaction is ready to be signed only if its receiver's signature was  *)
(* verified, whatever the order of calls, tasks and messages.              *)
(***************************************************************************)
EXTENDS WasmNode, FoldProofs

\* No step but the one of handle_sender_confirmed_tx_state hands anything to
\* submit_tx_js.
LEMMA CallsDoNotSubmit ==
  ApiCall => UNCHANGED submitted
<1> SUFFICES ASSUME ApiCall PROVE UNCHANGED submitted
  OBVIOUS
<1> USE DEF callFrame, history
<1>1. CASE \E m \in Routes : InitiateTransaction(m)
  BY <1>1 DEF InitiateTransaction
<1>2. CASE \E t \in SenderInputs : SenderConfirm(t)
  BY <1>2 DEF SenderConfirm
<1>3. CASE \E t \in shown : \E s \in SignaturesOf(t.receiver) :
             ReceiverConfirm(t, s)
  BY <1>3 DEF ReceiverConfirm
<1>4. CASE \E t \in shown : RevertTransaction(t)
  BY <1>4 DEF RevertTransaction
<1>5. CASE \E t \in shown : DeleteTxInCache(t)
  BY <1>5 DEF DeleteTxInCache, DropFromCache
<1>6. CASE ClearRevertedFromCache \/ ClearFinalizedFromCache
  BY <1>6 DEF ClearRevertedFromCache, ClearFinalizedFromCache,
              ClearFromCache, DropFromCache
<1>7. CASE FetchStart \/ WatchTxUpdates \/ UnsubscribeWatchTxUpdates
  BY <1>7 DEF FetchStart, AskPending, WatchTxUpdates, UnsubscribeWatchTxUpdates
<1> QED BY <1>1, <1>2, <1>3, <1>4, <1>5, <1>6, <1>7 DEF ApiCall

\* The watcher, a fetch, the connection, the handler of what the backend sends
\* and the backend leave the submissions as they are.
LEMMA InboundDoesNotSubmit ==
  ASSUME \/ FetchAsks \/ FetchEnd \/ Watch \/ TakeCommand
         \/ HandleSwarmMessage \/ HandlerCreated \/ Environment
  PROVE  UNCHANGED submitted
<1> USE DEF history
<1>1. FetchAsks \/ FetchEnd \/ Watch \/ TakeCommand => UNCHANGED submitted
  BY DEF FetchAsks, AskPending, FetchEnd, Watch, TakeCommand
<1>2. HandleSwarmMessage \/ HandlerCreated => UNCHANGED submitted
  BY DEF HandleSwarmMessage, OnRequest, OnResponse, OnPendingFetched,
         HandlerSends, HandlerCreated, handlerFrame
<1>3. Arrival => UNCHANGED submitted
  BY DEF Arrival, node
<1>4. Environment => UNCHANGED submitted
  BY <1>3 DEF Environment, LinkFails, PeerResponds, PeerRequests, node
<1> QED BY <1>1, <1>2, <1>4

\* Of the dispatcher's steps only the one for a confirmed transaction submits.
LEMMA OnlyConfirmationSubmits ==
  ASSUME Dispatch \/ DispatcherCreated \/ DispatcherSubmitted,
         ~ \E t \in Range(userq) : HandleSenderConfirmedTxState(t)
  PROVE  UNCHANGED submitted
<1>1. ASSUME NEW t PROVE HandleGenesisTxState(t) => UNCHANGED submitted
  BY DEF HandleGenesisTxState
<1>2. ASSUME NEW t PROVE HandleRecvAddrConfirmedTxState(t) => UNCHANGED submitted
  BY DEF HandleRecvAddrConfirmedTxState
<1>3. ASSUME NEW t PROVE HandleSubmittedTxState(t) => UNCHANGED submitted
  BY DEF HandleSubmittedTxState
<1>4. ASSUME NEW t PROVE HandleRevertedTxState(t) => UNCHANGED submitted
  BY DEF HandleRevertedTxState
<1>5. DispatcherCommands \/ DispatcherSends \/ DispatcherCreated
        => UNCHANGED submitted
  BY DEF DispatcherCommands, DispatcherSends, DispatcherCreated
<1>6. DispatcherSubmitted => UNCHANGED submitted
  BY DEF DispatcherSubmitted
<1> QED BY <1>1, <1>2, <1>3, <1>4, <1>5, <1>6 DEF Dispatch

\* What that step submits is signed by both parties.
LEMMA ConfirmationSubmitsSigned ==
  ASSUME NEW t, HandleSenderConfirmedTxState(t)
  PROVE  \/ UNCHANGED submitted
         \/ /\ t.recv = "valid" /\ t.signed = "valid" /\ t.matching
            /\ submitted' = submitted \cup {t}
BY DEF HandleSenderConfirmedTxState, Borrowing, Verified

\* Nothing reaches submit_tx_js without a signature of the receiver and one of
\* the sender that verify and without the multi id of its addresses, for any
\* number of accounts, calls and transactions, any sizes of the channels and
\* whatever the other accounts answer (handle_sender_confirmed_tx_state).
THEOREM NodeSubmitsSigned == NodeSpec => []SubmissionsAreSigned
<1>1. NodeInit => SubmissionsAreSigned
  BY DEF NodeInit, SubmissionsAreSigned
<1>2. SubmissionsAreSigned /\ [NodeNext]_nodeVars => SubmissionsAreSigned'
  <2> SUFFICES ASSUME SubmissionsAreSigned, [NodeNext]_nodeVars
               PROVE  SubmissionsAreSigned'
    OBVIOUS
  <2>1. CASE UNCHANGED submitted
    BY <2>1 DEF SubmissionsAreSigned
  <2>2. CASE \E t \in Range(userq) : HandleSenderConfirmedTxState(t)
    <3>1. PICK t \in Range(userq) : HandleSenderConfirmedTxState(t)
      BY <2>2
    <3>2. \/ UNCHANGED submitted
          \/ /\ t.recv = "valid" /\ t.signed = "valid" /\ t.matching
             /\ submitted' = submitted \cup {t}
      BY <3>1, ConfirmationSubmitsSigned
    <3> QED BY <3>2 DEF SubmissionsAreSigned
  <2>3. CASE UNCHANGED nodeVars
    BY <2>1, <2>3 DEF nodeVars, history
  <2>4. CASE \E a \in Profile : AddAccount(a)
    BY <2>1, <2>4 DEF AddAccount, history
  <2>5. CASE ApiCall
    BY <2>1, <2>5, CallsDoNotSubmit
  <2>6. CASE TaskStep \/ Environment
    <3>1. CASE \/ FetchAsks \/ FetchEnd \/ Watch \/ TakeCommand
               \/ HandleSwarmMessage \/ HandlerCreated \/ Environment
      BY <2>1, <3>1, InboundDoesNotSubmit
    <3>2. CASE Dispatch \/ DispatcherCreated \/ DispatcherSubmitted
      BY <2>1, <2>2, <3>2, OnlyConfirmationSubmits
    <3> QED BY <2>6, <3>1, <3>2 DEF TaskStep
  <2> QED BY <2>3, <2>4, <2>5, <2>6 DEF NodeNext
<1> QED BY <1>1, <1>2, PTL DEF NodeSpec

-----------------------------------------------------------------------------
(* The cache *)

\* The transactions that the node, its queues and the backend can hold: one
\* that is ready for the sender carries a signature of the receiver that
\* verifies.  Of one that the sender has confirmed it cannot be said: the
\* sender may have signed before its turn.
Sound(t) == t.status = "RecvAddrConfirmationPassed" => t.recv = "valid"
Good == {t \in NodeTx : Sound(t)}

\* The caches that hold such transactions, each under a key of its own, and no
\* more of them than there is room for.
Entries == [tx : Good, ttl : {"now", "epoch"}]
HasOneKeyEach(c) ==
  \A i, j \in 1..Len(c) : c[i].tx.nonce = c[j].tx.nonce => i = j
Caches == {c \in Seq(Entries) : Len(c) <= CacheCap /\ HasOneKeyEach(c)}

\* A filter of a cache is a cache.
LEMMA KeepCache ==
  ASSUME NEW c \in Caches, NEW T
  PROVE  /\ Keep(c, T) \in Caches /\ Len(Keep(c, T)) <= Len(c)
         /\ \A i \in 1..Len(Keep(c, T)) : Keep(c, T)[i] \in T
<1> DEFINE k == Keep(c, T)
<1>1. /\ c \in Seq(Entries) /\ Len(c) \in Nat /\ Len(c) <= CacheCap
      /\ HasOneKeyEach(c)
  BY DEF Caches
<1>2. k \in Seq(Entries) /\ Keep(c, Entries \ T) \in Seq(Entries)
  BY <1>1, KeepKind
<1>3. Len(k) \in Nat /\ Len(Keep(c, Entries \ T)) \in Nat
  BY <1>2
<1>4. Len(k) + Len(Keep(c, Entries \ T)) = Len(c)
  BY <1>1, KeepSplit
<1>5. Len(k) <= Len(c)
  BY <1>1, <1>3, <1>4
<1>6. PICK m : PlacedBy(k, c, T, m)
  BY <1>1, KeepPlaces
<1> HIDE DEF k
<1>7. /\ m \in [1..Len(k) -> 1..Len(c)]
      /\ \A i, j \in 1..Len(k) : i < j => m[i] < m[j]
      /\ \A i \in 1..Len(k) : k[i] = c[m[i]] /\ k[i] \in T
  BY <1>6 DEF PlacedBy
<1>8. HasOneKeyEach(k)
  <2> SUFFICES ASSUME NEW i \in 1..Len(k), NEW j \in 1..Len(k),
                      k[i].tx.nonce = k[j].tx.nonce
               PROVE  i = j
    BY DEF HasOneKeyEach
  <2>1. m[i] = m[j]
    BY <1>1, <1>7 DEF HasOneKeyEach
  <2>2. /\ i \in Nat /\ j \in Nat /\ m[i] \in Nat /\ m[j] \in Nat
        /\ i < j => m[i] < m[j]
        /\ j < i => m[j] < m[i]
    BY <1>3, <1>7
  <2>3. QED
    BY <2>1, <2>2
<1>9. Len(k) <= CacheCap
  BY <1>1, <1>3, <1>5, NodeAssumption
<1>10. QED
  BY <1>2, <1>5, <1>7, <1>8, <1>9 DEF Caches, k

\* LruCache::pop.
LEMMA WithoutCache ==
  ASSUME NEW c \in Caches, NEW ns
  PROVE  /\ Without(c, ns) \in Caches /\ Len(Without(c, ns)) <= Len(c)
         /\ \A i \in 1..Len(Without(c, ns)) :
              Without(c, ns)[i].tx.nonce \notin ns
<1> DEFINE T == {e \in Range(c) : e.tx.nonce \notin ns}
<1>1. Without(c, ns) = Keep(c, T)
  BY DEF Without
<1>2. \A e \in T : e.tx.nonce \notin ns
  OBVIOUS
<1> HIDE DEF T
<1>3. QED
  BY <1>1, <1>2, KeepCache

\* The part of a cache that there is room for.
LEMMA FrontCache ==
  ASSUME NEW s \in Seq(Entries), HasOneKeyEach(s),
         NEW n \in Nat, n <= Len(s), n <= CacheCap
  PROVE  SubSeq(s, 1, n) \in Caches
<1> DEFINE r == SubSeq(s, 1, n)
<1>1. /\ r \in Seq(Entries) /\ Len(r) = n
      /\ \A i \in 1..n : r[i] = s[i] /\ i \in 1..Len(s)
  OBVIOUS
<1> HIDE DEF r
<1>2. HasOneKeyEach(r)
  BY <1>1 DEF HasOneKeyEach
<1>3. QED
  BY <1>1, <1>2 DEF Caches, r

\* LruCache::push.
LEMMA PushCache ==
  ASSUME NEW c \in Caches, NEW e \in Entries
  PROVE  Push(c, e) \in Caches
<1> DEFINE w == Without(c, {e.tx.nonce})
           s == <<e>> \o w
           n == IF Len(w) < CacheCap THEN Len(w) + 1 ELSE CacheCap
<1>1. /\ w \in Caches
      /\ \A i \in 1..Len(w) : w[i].tx.nonce # e.tx.nonce
  BY WithoutCache
<1>2. /\ w \in Seq(Entries) /\ Len(w) \in Nat /\ Len(w) <= CacheCap
      /\ HasOneKeyEach(w)
  BY <1>1 DEF Caches
<1>3. CacheCap \in Nat /\ CacheCap # 0
  BY NodeAssumption
<1>4. Push(c, e) = SubSeq(s, 1, n)
  BY DEF Push
<1> HIDE DEF w
<1>5. /\ s \in Seq(Entries) /\ Len(s) = Len(w) + 1 /\ s[1] = e
      /\ \A i \in 2..Len(s) : s[i] = w[i - 1] /\ i - 1 \in 1..Len(w)
  BY <1>2
<1>6. n \in Nat /\ n <= Len(s) /\ n <= CacheCap
  BY <1>2, <1>3, <1>5
<1> HIDE DEF s, n
<1>7. HasOneKeyEach(s)
  <2> SUFFICES ASSUME NEW i \in 1..Len(s), NEW j \in 1..Len(s),
                      s[i].tx.nonce = s[j].tx.nonce
               PROVE  i = j
    BY DEF HasOneKeyEach
  <2>1. i \in Nat /\ j \in Nat /\ i >= 1 /\ j >= 1 /\ Len(s) \in Nat
        /\ i <= Len(s) /\ j <= Len(s)
    BY <1>2, <1>5
  <2>2. CASE i = 1 /\ j # 1
    <3>1. j \in 2..Len(s)
      BY <2>1, <2>2
    <3>2. QED
      BY <1>1, <1>5, <2>2, <3>1
  <2>3. CASE i # 1 /\ j = 1
    <3>1. i \in 2..Len(s)
      BY <2>1, <2>3
    <3>2. QED
      BY <1>1, <1>5, <2>3, <3>1
  <2>4. CASE i # 1 /\ j # 1
    <3>1. i \in 2..Len(s) /\ j \in 2..Len(s)
      BY <2>1, <2>4
    <3>2. i - 1 = j - 1
      BY <1>2, <1>5, <3>1 DEF HasOneKeyEach
    <3>3. QED
      BY <2>1, <3>2
  <2>5. QED
    BY <2>2, <2>3, <2>4
<1>8. QED
  BY <1>4, <1>5, <1>6, <1>7, FrontCache

\* update_value.
LEMMA UpdateCache ==
  ASSUME NEW c \in Caches, NEW t \in Good
  PROVE  Update(c, t) \in Caches
<1> DEFINE old == {e \in Range(c) : e.tx.nonce = t.nonce}
           x == IF old = {} THEN "now" ELSE (CHOOSE e \in old : TRUE).ttl
<1>1. Range(c) \subseteq Entries
  BY DEF Range, Caches
<1>2. x \in {"now", "epoch"}
  <2>1. old # {} => (CHOOSE e \in old : TRUE) \in Entries
    BY <1>1
  <2> HIDE DEF old
  <2>2. QED
    BY <2>1 DEF Entries
<1>3. Update(c, t) = Push(c, Entry(t, x))
  BY DEF Update
<1> HIDE DEF x
<1>4. Entry(t, x) \in Entries
  BY <1>2 DEF Entry, Entries
<1>5. QED
  BY <1>3, <1>4, PushCache

\* LruCache::demote.
LEMMA DemoteCache ==
  ASSUME NEW c \in Caches, NEW n
  PROVE  Demote(c, n) \in Caches
<1> DEFINE T == {e \in Range(c) : e.tx.nonce \notin {n}}
           U == {e \in Range(c) : e.tx.nonce = n}
           a == Keep(c, T)
           b == Keep(c, U)
           s == a \o b
<1>1. Demote(c, n) = s
  BY DEF Demote, Without
<1>2. U = Range(c) \ T
  OBVIOUS
<1>3. (\A e \in T : e.tx.nonce # n) /\ (\A e \in U : e.tx.nonce = n)
  OBVIOUS
<1>4. c \in Seq(Range(c))
  <2>1. c \in Seq(Entries)
    BY DEF Caches
  <2>2. QED
    BY <2>1 DEF Range
<1> HIDE DEF T, U
<1>5. Len(a) + Len(b) = Len(c)
  BY <1>2, <1>4, KeepSplit
<1>6. /\ a \in Caches /\ \A i \in 1..Len(a) : a[i] \in T
      /\ b \in Caches /\ \A i \in 1..Len(b) : b[i] \in U
  BY KeepCache
<1> HIDE DEF a, b
<1>7. /\ a \in Seq(Entries) /\ Len(a) \in Nat /\ HasOneKeyEach(a)
      /\ b \in Seq(Entries) /\ Len(b) \in Nat /\ HasOneKeyEach(b)
      /\ Len(c) \in Nat /\ Len(c) <= CacheCap
  BY <1>6 DEF Caches
<1>8. /\ s \in Seq(Entries) /\ Len(s) = Len(a) + Len(b)
      /\ \A i \in 1..Len(a) : s[i] = a[i]
      /\ \A i \in 1..Len(s) \ 1..Len(a) :
           s[i] = b[i - Len(a)] /\ i - Len(a) \in 1..Len(b)
  BY <1>7
<1> HIDE DEF s
<1>9. HasOneKeyEach(s)
  <2> SUFFICES ASSUME NEW i \in 1..Len(s), NEW j \in 1..Len(s),
                      s[i].tx.nonce = s[j].tx.nonce
               PROVE  i = j
    BY DEF HasOneKeyEach
  <2>1. CASE i \in 1..Len(a) /\ j \in 1..Len(a)
    BY <1>7, <1>8, <2>1 DEF HasOneKeyEach
  <2>2. CASE i \in 1..Len(a) /\ j \notin 1..Len(a)
    BY <1>3, <1>6, <1>8, <2>2
  <2>3. CASE i \notin 1..Len(a) /\ j \in 1..Len(a)
    BY <1>3, <1>6, <1>8, <2>3
  <2>4. CASE i \notin 1..Len(a) /\ j \notin 1..Len(a)
    <3> DEFINE p == i - Len(a)
               q == j - Len(a)
    <3>0. /\ s[i] = b[p] /\ p \in 1..Len(b)
          /\ s[j] = b[q] /\ q \in 1..Len(b)
      BY <1>8, <2>4
    <3>1. p = q
      <4> HIDE DEF p, q
      <4>1. QED
        BY <1>7, <3>0 DEF HasOneKeyEach
    <3>2. i \in Nat /\ j \in Nat
      BY <1>7, <1>8
    <3>3. QED
      BY <1>7, <3>1, <3>2
  <2>5. QED
    BY <2>1, <2>2, <2>3, <2>4
<1>10. QED
  BY <1>1, <1>5, <1>7, <1>8, <1>9 DEF Caches

\* The update of an entry that may not be there.
LEMMA UpdateFoundCache ==
  ASSUME NEW c \in Caches, NEW t \in Good
  PROVE  UpdateFound(c, t) \in Caches
BY UpdateCache DEF UpdateFound

\* A transaction with another call payload is as sound as it was.
LEMMA PayloadIsGood ==
  ASSUME NEW t \in Good, NEW b \in BOOLEAN
  PROVE  /\ [t EXCEPT !.payload = b] \in Good
         /\ [t EXCEPT !.payload = b].recv = t.recv
<1>1. t \in NodeTx /\ Sound(t)
  BY DEF Good
<1>2. [t EXCEPT !.payload = b] \in NodeTx
  BY <1>1 DEF NodeTx
<1>3. QED
  BY <1>1, <1>2 DEF Good, Sound, NodeTx

\* An update from the answer to a fetch.
LEMMA UpdatePendingCache ==
  ASSUME NEW c \in Caches, NEW t \in Good
  PROVE  UpdatePending(c, t) \in Caches
<1> DEFINE old == {e \in Range(c) : e.tx.nonce = t.nonce}
           b == t.payload \/ \E e \in old : e.tx.payload
<1>1. b \in BOOLEAN
  OBVIOUS
<1>2. UpdatePending(c, t) = Update(c, [t EXCEPT !.payload = b])
  BY DEF UpdatePending
<1> HIDE DEF b
<1>3. [t EXCEPT !.payload = b] \in Good
  BY <1>1, PayloadIsGood
<1>4. QED
  BY <1>2, <1>3, UpdateCache

\* One step of the updates.
UpdatePendingStep == [p \in Caches \X Good |-> UpdatePending(p[1], p[2])]

\* They go through the list element by element.
LEMMA UpdatePendingRuns ==
  ASSUME NEW s \in Seq(Good), NEW c \in Caches
  PROVE  RunsTo(s, Caches, c, UpdatePendingStep, FoldLeft(UpdatePending, c, s))
<1> DEFINE n == Len(s)
           V == Caches
           z == c
           f == UpdatePendingStep
           P(it) == it = [t \in SUBSET (1..n) |->
                            IF t = {} THEN z
                            ELSE UpdatePending(it[t \ {Max(t)}], s[Max(t)])]
           it == CHOOSE it : P(it)
<1>0. z \in V /\ \A v \in V, e \in Good : UpdatePending(v, e) \in V
  BY UpdatePendingCache
<1>1. f \in [V \X Good -> V] /\ z \in V
  BY <1>0 DEF UpdatePendingStep
<1>2. \A v \in V, e \in Good : f[<<v, e>>] = UpdatePending(v, e)
  BY DEF UpdatePendingStep
<1>3. n \in Nat /\ DOMAIN s = 1..n /\ \A k \in 1..n : s[k] \in Good
  OBVIOUS
<1> HIDE DEF n, f, V
<1>4. \A t \in (SUBSET (1..n)) \ {{}} :
        Max(t) \in 1..n /\ t \ {Max(t)} \in SUBSET (1..n)
  BY <1>3, MaxOfSet
<1>5. PICK w \in [SUBSET (1..n) -> V] : FoldsSeq(w, s, V, z, f)
  <2> HIDE DEF z
  <2>1. QED
    BY <1>1, FoldsSeqExists DEF n
<1>6. P(w)
  <2>1. \A t \in (SUBSET (1..n)) \ {{}} :
          w[t] = UpdatePending(w[t \ {Max(t)}], s[Max(t)])
    BY <1>2, <1>3, <1>4, <1>5 DEF FoldsSeq, n
  <2>2. w[{}] = z
    BY <1>5 DEF FoldsSeq
  <2>3. QED
    BY <2>1, <2>2
<1>7. P(it)
  <2> HIDE DEF P
  <2> QED BY <1>6
<1>8. FoldLeft(UpdatePending, c, s) = it[1..n]
  BY <1>3 DEF FoldLeft, MapThenFoldSet
<1>9. FoldsSeq(it, s, V, z, f)
  <2> HIDE DEF it
  <2>1. \A t \in (SUBSET (1..n)) \ {{}} :
          it[t] = UpdatePending(it[t \ {Max(t)}], s[Max(t)])
    BY <1>7
  <2>2. it[{}] = z
    BY <1>7
  <2>3. QED
    BY <1>2, <1>3, <1>4, <2>1, <2>2 DEF FoldsSeq, n
<1> HIDE DEF it, z
<1>10. RunsTo(s, V, z, f, it[1..Len(s)])
  BY <1>1, <1>9, FoldsSeqRuns
<1>11. QED
  BY <1>8, <1>10 DEF n, V, f, z

\* The answer to a fetch.
LEMMA PendingCache ==
  ASSUME NEW c \in Caches, NEW ts \in Seq(Good)
  PROVE  FoldLeft(UpdatePending, c, ts) \in Caches
<1>1. RunsTo(ts, Caches, c, UpdatePendingStep, FoldLeft(UpdatePending, c, ts))
  BY UpdatePendingRuns
<1> HIDE DEF Caches
<1>2. QED
  BY <1>1 DEF RunsTo

\* A cache has as many keys as entries.
LEMMA KeysOfCache ==
  ASSUME cache \in Caches
  PROVE  Cardinality(Keys) = Len(cache)
<1> DEFINE n == Len(cache)
           f == [k \in 1..n |-> cache[k].tx.nonce]
<1>1. n \in Nat /\ DOMAIN cache = 1..n
  BY DEF Caches
<1>2. f \in [1..n -> Keys]
  BY <1>1 DEF Keys
<1>3. \A i, j \in 1..n : f[i] = f[j] => i = j
  BY DEF Caches, HasOneKeyEach
<1>4. \A x \in Keys : \E k \in 1..n : f[k] = x
  BY <1>1 DEF Keys
<1>5. IsFiniteSet(1..n) /\ Cardinality(1..n) = n
  <2> HIDE DEF n
  <2>1. QED
    BY <1>1, FS_Interval
<1> HIDE DEF f, n
<1>6. f \in Bijection(1..n, Keys)
  BY <1>2, <1>3, <1>4 DEF Bijection, Injection, Surjection, IsInjective
<1>7. Cardinality(1..n) = Cardinality(Keys)
  BY <1>5, <1>6, FS_Bijection DEF ExistsBijection
<1>8. QED
  BY <1>5, <1>7 DEF n

-----------------------------------------------------------------------------
(* Transactions *)

\* The transactions that were just initiated.
Fresh == {t \in Good : t.status = "Genesis"}

\* initiate_transaction, and another account's.
LEMMA GenesisIsFresh ==
  ASSUME NEW m \in Routes, NEW n \in Nonces
  PROVE  Genesis(m, n) \in Fresh
<1>1. m \in Addr \X Addr
  BY RoutesAssumption
<1>2. m[1] \in Addr /\ m[2] \in Addr /\ m = <<m[1], m[2]>>
  BY <1>1
<1>3. Genesis(m, n) \in NodeTx
  BY <1>2 DEF Genesis, NodeTx, Status, Signature
<1>4. QED
  BY <1>3 DEF Genesis, Fresh, Good, Sound

\* increment_version.
LEMMA BumpGood ==
  ASSUME NEW t \in Good
  PROVE  /\ Bump(t) \in Good /\ Bump(t).recv = t.recv
         /\ Bump(t).status = t.status
<1>1. t \in NodeTx /\ Sound(t)
  BY DEF Good
<1>2. Bump(t) \in NodeTx /\ Sound(Bump(t))
  BY <1>1 DEF NodeTx, Bump, Sound
<1>3. QED
  BY <1>1, <1>2 DEF Good, NodeTx, Bump

\* create_tx.
LEMMA CreatedGood ==
  ASSUME NEW t \in Good
  PROVE  Created(t) \in Good
BY PayloadIsGood DEF Created

\* Any status can be given to any of them, that of a transaction that is ready
\* only to one that the receiver has signed.
LEMMA WithStatus ==
  ASSUME NEW t \in Good, NEW status \in Status,
         status = "RecvAddrConfirmationPassed" => t.recv = "valid"
  PROVE  /\ With(t, status) \in Good /\ With(t, status).recv = t.recv
         /\ With(t, status).status = status
<1>1. t \in NodeTx /\ Sound(t)
  BY DEF Good
<1>2. With(t, status) \in NodeTx
  BY <1>1 DEF NodeTx, With
<1>3. Sound(With(t, status))
  BY <1>1 DEF NodeTx, With, Sound
<1>4. QED
  BY <1>1, <1>2, <1>3 DEF Good, NodeTx, With

\* The receiver answers a transaction, under a multi id that matches or not.
Answer(t, s) == [Bump(With(t, "RecvAddrConfirmed")) EXCEPT !.recv = s]

\* A receiver's answer is a good transaction, whatever its signature.
LEMMA AnswerIsGood ==
  ASSUME NEW t \in Good, NEW s \in Signatures
  PROVE  Answer(t, s) \in Good /\ Answer(t, s).status = "RecvAddrConfirmed"
<1> DEFINE u == Bump(With(t, "RecvAddrConfirmed"))
<1>1. s \in Signature
  BY NodeAssumption DEF Signature
<1>2. "RecvAddrConfirmed" \in Status
  BY DEF Status
<1>3. /\ With(t, "RecvAddrConfirmed") \in Good
      /\ With(t, "RecvAddrConfirmed").status = "RecvAddrConfirmed"
  BY <1>2, WithStatus
<1>4. u \in Good /\ u.status = "RecvAddrConfirmed"
  BY <1>3, BumpGood
<1>5. Answer(t, s) = [u EXCEPT !.recv = s]
  BY DEF Answer
<1> HIDE DEF u
<1>6. [u EXCEPT !.recv = s] \in NodeTx
  BY <1>1, <1>4 DEF NodeTx, Good
<1>7. [u EXCEPT !.recv = s].status = "RecvAddrConfirmed"
  BY <1>4 DEF NodeTx, Good
<1>8. QED
  BY <1>5, <1>6, <1>7 DEF Good, Sound

\* An answer under another multi id is one too.
LEMMA MatchingIsGood ==
  ASSUME NEW t \in Good, NEW b \in Matches
  PROVE  [t EXCEPT !.matching = b] \in Good
<1>1. t \in NodeTx /\ Sound(t) /\ b \in BOOLEAN
  BY NodeAssumption DEF Good
<1>2. [t EXCEPT !.matching = b] \in NodeTx
  BY <1>1 DEF NodeTx
<1>3. QED
  BY <1>1, <1>2 DEF Good, Sound, NodeTx

\* What the application passes to senderConfirm.
LEMMA SenderInputsAreGood ==
  ASSUME shown \subseteq Good, NEW t \in SenderInputs
  PROVE  t \in Good
<1> DEFINE signed == UNION {{[u EXCEPT !.signed = s] : s \in SignaturesOf(u.sender)} :
                              u \in shown}
<1>1. ASSUME NEW u \in shown, NEW s \in Signatures
      PROVE  [u EXCEPT !.signed = s] \in Good
  <2>1. u \in NodeTx /\ Sound(u) /\ s \in Signature
    BY NodeAssumption DEF Good, Signature
  <2>2. [u EXCEPT !.signed = s] \in NodeTx
    BY <2>1 DEF NodeTx
  <2>3. Sound([u EXCEPT !.signed = s])
    BY <2>1 DEF NodeTx, Sound
  <2>4. QED
    BY <2>2, <2>3 DEF Good
<1>2. signed \subseteq Good
  <2>1. \A a : SignaturesOf(a) \subseteq Signatures
    BY DEF SignaturesOf
  <2>2. QED
    BY <1>1, <2>1
<1>3. t \in shown \cup signed
            \cup {With(u, s) : u \in signed,
                               s \in {"TxSubmissionPassed", "FailedToSubmitTxn"}}
  BY DEF SenderInputs
<1> HIDE DEF signed
<1>4. ASSUME NEW u \in signed, NEW s \in {"TxSubmissionPassed", "FailedToSubmitTxn"}
      PROVE  With(u, s) \in Good
  <2>1. s \in Status
    BY DEF Status
  <2>2. QED
    BY <1>2, <1>4, <2>1, WithStatus
<1>5. QED
  BY <1>2, <1>3, <1>4

\* What sender_confirm makes of it.
ConfirmedBySender(t) ==
  Bump(IF t.status \in {"TxSubmissionPassed", "FailedToSubmitTxn"} THEN t
       ELSE With(t, "SenderConfirmed"))

\* The sender's confirmation of a good transaction is one too.
LEMMA ConfirmedIsGood ==
  ASSUME NEW t \in Good
  PROVE  ConfirmedBySender(t) \in Good
<1>1. "SenderConfirmed" \in Status
  BY DEF Status
<1>2. QED
  BY <1>1, WithStatus, BumpGood DEF ConfirmedBySender

\* The keys of the integrity table stay nonces.
LEMMA RememberNonces ==
  ASSUME NEW table, NEW ts \in SUBSET Good, DOMAIN table \subseteq Nonces
  PROVE  DOMAIN Remember(table, ts) \subseteq Nonces
<1>1. \A t \in ts : t.nonce \in Nonces
  BY DEF Good, NodeTx
<1>2. QED
  BY <1>1 DEF Remember

-----------------------------------------------------------------------------
(* The inductive invariant *)

Messages ==
  [type : {"request", "response"}, tx : Good]
    \cup [type : {"pending"}, txs : Seq(Good)]
Commands ==
  [type : {"fetch"}] \cup [type : {"request"}, tx : Fresh]
    \cup [type : {"response", "confirm", "submission", "revert", "close"},
          tx : Good]

\* A task that waits has a transaction, one that lets JavaScript create it has
\* one that the receiver signed, and one that waits in the command channel has
\* commands.
TaskOK(task) ==
  /\ task.pc \in {"creating", "submitting", "sending", "commanding"}
       => task.tx \in Good
  /\ task.pc = "creating" => task.tx.recv = "valid"
  /\ task.pc = "commanding" => task.cmds \in Seq(Commands)

CacheInv == cache \in Caches
UserqInv == userq \in Seq(Good) /\ Len(userq) <= UserCap
RpcqInv == rpcq \in Seq(Good) /\ Len(rpcq) <= RpcCap
SwarmqInv == swarmq \in Seq(Messages)
CommandsInv == commands \in Seq(Commands) /\ Len(commands) <= CommandCap
DispatcherInv ==
  /\ dispatcher.pc \in {"idle", "creating", "submitting", "sending",
                       "commanding", "dead"}
  /\ TaskOK(dispatcher)
HandlerInv ==
  /\ handler.pc \in {"idle", "creating", "sending"}
  /\ TaskOK(handler)
WatcherInv ==
  watcher \in [active : BOOLEAN, running : BOOLEAN, callbacks : BOOLEAN]
FetchInv == fetching \in {"no", "asking", "waiting"}
PanicInv == panicked \in BOOLEAN
TableInv == nonce \in Nat /\ DOMAIN integrity \subseteq Nonces
HistoryInv == shown \subseteq Good /\ submitted \subseteq Good
LinkInv == link \in {"up", "down"}
RemoteInv == remote \subseteq Good /\ IsFiniteSet(remote)
InflightInv == inflight \subseteq Commands
OthersInv == others \in [asked : SUBSET Fresh, nonces : SUBSET Nonces]
EnvironmentInv == LinkInv /\ RemoteInv /\ InflightInv /\ OthersInv

NodeInv ==
  /\ CacheInv /\ UserqInv /\ RpcqInv /\ SwarmqInv /\ CommandsInv
  /\ DispatcherInv /\ HandlerInv /\ WatcherInv /\ FetchInv /\ PanicInv
  /\ TableInv /\ HistoryInv /\ EnvironmentInv

\* What a step leaves alone keeps its part of the invariant.
LEMMA FrameKeeps ==
  ASSUME NodeInv
  PROVE  /\ cache' = cache => CacheInv'
         /\ userq' = userq => UserqInv'
         /\ rpcq' = rpcq => RpcqInv'
         /\ swarmq' = swarmq => SwarmqInv'
         /\ commands' = commands => CommandsInv'
         /\ dispatcher' = dispatcher => DispatcherInv'
         /\ handler' = handler => HandlerInv'
         /\ watcher' = watcher => WatcherInv'
         /\ fetching' = fetching => FetchInv'
         /\ panicked' = panicked => PanicInv'
         /\ panicked' = TRUE => PanicInv'
         /\ (nonce' = nonce /\ integrity' = integrity) => TableInv'
         /\ (shown' = shown /\ submitted' = submitted) => HistoryInv'
         /\ link' = link => LinkInv'
         /\ remote' = remote => RemoteInv'
         /\ inflight' = inflight => InflightInv'
         /\ others' = others => OthersInv'
         /\ UNCHANGED environment => EnvironmentInv'
<1>1. /\ cache' = cache => CacheInv'
      /\ userq' = userq => UserqInv'
      /\ rpcq' = rpcq => RpcqInv'
      /\ swarmq' = swarmq => SwarmqInv'
      /\ commands' = commands => CommandsInv'
  BY DEF NodeInv, CacheInv, UserqInv, RpcqInv, SwarmqInv, CommandsInv
<1>2. /\ dispatcher' = dispatcher => DispatcherInv'
      /\ handler' = handler => HandlerInv'
  BY DEF NodeInv, DispatcherInv, HandlerInv, TaskOK
<1>3. /\ watcher' = watcher => WatcherInv'
      /\ fetching' = fetching => FetchInv'
      /\ panicked' = panicked => PanicInv'
      /\ panicked' = TRUE => PanicInv'
  BY DEF NodeInv, WatcherInv, FetchInv, PanicInv
<1>4. /\ (nonce' = nonce /\ integrity' = integrity) => TableInv'
      /\ (shown' = shown /\ submitted' = submitted) => HistoryInv'
      /\ link' = link => LinkInv'
      /\ remote' = remote => RemoteInv'
      /\ inflight' = inflight => InflightInv'
      /\ others' = others => OthersInv'
  BY DEF NodeInv, EnvironmentInv, TableInv, HistoryInv, LinkInv, RemoteInv,
         InflightInv, OthersInv
<1>5. UNCHANGED environment => EnvironmentInv'
  BY <1>4 DEF environment, EnvironmentInv
<1>6. QED
  BY <1>1, <1>2, <1>3, <1>4, <1>5

\* The channel of updates takes one more while it is not full.
LEMMA RpcqGrows ==
  ASSUME NodeInv, NEW t \in Good, ~RpcFull, rpcq' = Append(rpcq, t)
  PROVE  RpcqInv'
<1>1. rpcq \in Seq(Good) /\ Len(rpcq) \in Nat
  BY DEF NodeInv, RpcqInv
<1>2. Len(rpcq) < RpcCap
  BY <1>1, NodeAssumption DEF RpcFull
<1>3. Append(rpcq, t) \in Seq(Good) /\ Len(Append(rpcq, t)) = Len(rpcq) + 1
  BY <1>1
<1>4. Len(rpcq) + 1 <= RpcCap
  BY <1>1, <1>2, NodeAssumption
<1>5. QED
  BY <1>3, <1>4 DEF RpcqInv

\* The command channel takes as many as there is room for.
LEMMA CommandsGrow ==
  ASSUME NodeInv, NEW cs \in Seq(Commands),
         Len(cs) <= CommandCap - Len(commands), commands' = commands \o cs
  PROVE  CommandsInv'
<1>1. /\ commands \in Seq(Commands) /\ Len(commands) \in Nat
      /\ Len(cs) \in Nat /\ CommandCap \in Nat
  BY NodeAssumption DEF NodeInv, CommandsInv
<1>2. commands \o cs \in Seq(Commands) /\ Len(commands \o cs) = Len(commands) + Len(cs)
  BY <1>1
<1>3. Len(commands) + Len(cs) <= CommandCap
  BY <1>1
<1>4. QED
  BY <1>2, <1>3 DEF CommandsInv

\* An update is put on the channel, or the dispatcher waits with it, or the
\* channel's cell is borrowed.
LEMMA NotifyKeeps ==
  ASSUME NodeInv, NEW t \in Good, NEW holds, NEW recs, Notify(t, holds, recs)
  PROVE  RpcqInv' /\ DispatcherInv' /\ PanicInv'
<1>1. CASE Borrowed("rpc")
  <2>1. panicked' = TRUE /\ dispatcher' = dispatcher /\ rpcq' = rpcq
    BY <1>1 DEF Notify
  <2>2. QED
    BY <2>1, FrameKeeps
<1>2. CASE ~Borrowed("rpc") /\ RpcFull
  <2>1. /\ panicked' = FALSE /\ rpcq' = rpcq
        /\ dispatcher' = Waiting("sending", t, holds \cup {"rpc"})
    BY <1>2 DEF Notify
  <2>2. PanicInv'
    BY <2>1 DEF PanicInv
  <2>3. DispatcherInv'
    BY <2>1 DEF Waiting, DispatcherInv, TaskOK
  <2>4. QED
    BY <2>1, <2>2, <2>3, FrameKeeps
<1>3. CASE ~Borrowed("rpc") /\ ~RpcFull
  <2>1. rpcq' = Append(rpcq, t) /\ dispatcher' = Idle /\ panicked' = panicked
    BY <1>3 DEF Notify
  <2>2. DispatcherInv'
    BY <2>1 DEF Idle, DispatcherInv, TaskOK
  <2>3. QED
    BY <1>3, <2>1, <2>2, RpcqGrows, FrameKeeps
<1>4. QED
  BY <1>1, <1>2, <1>3

-----------------------------------------------------------------------------
(* The calls of the API keep it *)

\* initiate_transaction keeps the invariant.
LEMMA InitiateKeeps ==
  ASSUME NodeInv, NEW m \in Routes, InitiateTransaction(m)
  PROVE  NodeInv'
<1> DEFINE t == Genesis(m, nonce + 1)
<1>0. /\ nonce < MaxNonce /\ Len(userq) < UserCap /\ nonce' = nonce + 1
      /\ integrity' = Remember(integrity, {t})
      /\ userq' = Append(userq, t)
      /\ \/ panicked' = TRUE /\ cache' = cache /\ shown' = shown
         \/ /\ panicked' = panicked /\ cache' = Push(cache, Entry(t, "now"))
            /\ shown' = shown \cup {t}
      /\ UNCHANGED <<rpcq, swarmq, commands, tasks, submitted, environment>>
  BY DEF InitiateTransaction, Borrowing
<1>1. nonce + 1 \in Nonces
  BY <1>0, NodeAssumption DEF NodeInv, TableInv
<1>2. t \in Fresh /\ t \in Good
  BY <1>1, GenesisIsFresh DEF Fresh
<1> HIDE DEF t
<1>3. CacheInv'
  <2>1. Entry(t, "now") \in Entries
    BY <1>2 DEF Entry, Entries
  <2>2. QED
    BY <1>0, <2>1, PushCache, FrameKeeps DEF NodeInv, CacheInv
<1>4. UserqInv'
  BY <1>0, <1>2, NodeAssumption DEF NodeInv, UserqInv
<1>5. TableInv'
  BY <1>0, <1>2, RememberNonces DEF NodeInv, TableInv
<1>6. HistoryInv' /\ PanicInv'
  BY <1>0, <1>2, FrameKeeps DEF NodeInv, HistoryInv
<1>7. QED
  BY <1>0, <1>3, <1>4, <1>5, <1>6, FrameKeeps DEF NodeInv, tasks

\* The calls that put a transaction on the user channel and change the cache,
\* or find the cache borrowed.
LEMMA CallKeeps ==
  ASSUME NodeInv, NEW t \in Good, Len(userq) < UserCap,
         \/ panicked' = TRUE /\ userq' = userq /\ cache' = cache
         \/ /\ panicked' = panicked /\ userq' = Append(userq, t)
            /\ cache' \in Caches,
         UNCHANGED callFrame
  PROVE  NodeInv'
<1>1. UserqInv'
  <2>1. userq \in Seq(Good) /\ Len(userq) \in Nat /\ UserCap \in Nat
    BY NodeAssumption DEF NodeInv, UserqInv
  <2>2. Append(userq, t) \in Seq(Good) /\ Len(Append(userq, t)) = Len(userq) + 1
    BY <2>1
  <2>3. userq' = Append(userq, t) => UserqInv'
    BY <2>1, <2>2 DEF UserqInv
  <2>4. QED
    BY <2>3, FrameKeeps
<1>2. CacheInv' /\ PanicInv'
  BY FrameKeeps DEF CacheInv
<1>3. QED
  BY <1>1, <1>2, FrameKeeps DEF NodeInv, callFrame, tasks, history

\* sender_confirm keeps the invariant.
LEMMA ConfirmKeeps ==
  ASSUME NodeInv, NEW t \in SenderInputs, SenderConfirm(t)
  PROVE  NodeInv'
<1> DEFINE u == ConfirmedBySender(t)
<1>1. t \in Good
  BY SenderInputsAreGood DEF NodeInv, HistoryInv
<1>2. u \in Good
  BY <1>1, ConfirmedIsGood
<1>3. /\ Len(userq) < UserCap /\ UNCHANGED callFrame
      /\ \/ panicked' = TRUE /\ userq' = userq /\ cache' = cache
         \/ /\ panicked' = panicked /\ userq' = Append(userq, u)
            /\ cache' = Update(cache, u)
  BY DEF SenderConfirm, Borrowing, ConfirmedBySender
<1> HIDE DEF u
<1>4. Update(cache, u) \in Caches
  BY <1>2, UpdateCache DEF NodeInv, CacheInv
<1>5. QED
  BY <1>2, <1>3, <1>4, CallKeeps

\* receiver_confirm keeps the invariant.
LEMMA ReceiverConfirmKeeps ==
  ASSUME NodeInv, NEW t \in shown, NEW s \in Signatures, ReceiverConfirm(t, s)
  PROVE  NodeInv'
<1> DEFINE u == Answer(t, s)
<1>1. t \in Good
  BY DEF NodeInv, HistoryInv
<1>2. u \in Good
  BY <1>1, AnswerIsGood
<1>3. /\ Len(userq) < UserCap /\ UNCHANGED callFrame
      /\ \/ panicked' = TRUE /\ userq' = userq /\ cache' = cache
         \/ /\ panicked' = panicked /\ userq' = Append(userq, u)
            /\ cache' = Demote(cache, t.nonce)
  BY DEF ReceiverConfirm, Borrowing, Answer
<1> HIDE DEF u
<1>4. Demote(cache, t.nonce) \in Caches
  BY DemoteCache DEF NodeInv, CacheInv
<1>5. QED
  BY <1>2, <1>3, <1>4, CallKeeps

\* revert_transaction keeps the invariant.
LEMMA RevertKeeps ==
  ASSUME NodeInv, NEW t \in shown, RevertTransaction(t)
  PROVE  NodeInv'
<1> DEFINE u == With(t, "Reverted")
<1>1. t \in Good /\ "Reverted" \in Status
  BY DEF NodeInv, HistoryInv, Status
<1>2. u \in Good
  BY <1>1, WithStatus
<1>3. /\ Len(userq) < UserCap /\ UNCHANGED callFrame
      /\ \/ panicked' = TRUE /\ userq' = userq /\ cache' = cache
         \/ /\ panicked' = panicked /\ userq' = Append(userq, u)
            /\ \/ cache' = Push(cache, Entry(t, "epoch"))
               \/ cache' = Update(cache, u)
  BY DEF RevertTransaction, Borrowing
<1> HIDE DEF u
<1>4. Entry(t, "epoch") \in Entries
  BY <1>1 DEF Entry, Entries
<1>5. Push(cache, Entry(t, "epoch")) \in Caches /\ Update(cache, u) \in Caches
  BY <1>2, <1>4, UpdateCache, PushCache DEF NodeInv, CacheInv
<1>6. QED
  BY <1>2, <1>3, <1>5, CallKeeps

\* The calls that only take entries from the cache.
LEMMA DropKeeps ==
  ASSUME NodeInv, NEW ns, DropFromCache(ns)
  PROVE  NodeInv'
<1>1. /\ \/ panicked' = TRUE /\ cache' = cache
         \/ panicked' = panicked /\ cache' = Without(cache, ns)
      /\ UNCHANGED <<userq, callFrame>>
  BY DEF DropFromCache, Borrowing
<1>2. CacheInv' /\ PanicInv'
  BY <1>1, WithoutCache, FrameKeeps DEF NodeInv, CacheInv
<1>3. QED
  BY <1>1, <1>2, FrameKeeps DEF NodeInv, callFrame, tasks, history

\* The command of a fetch is sent, or waits for room.
LEMMA AskKeeps ==
  ASSUME NodeInv, AskPending
  PROVE  NodeInv'
<1> DEFINE c == [type |-> "fetch"]
<1>1. /\ commands \in Seq(Commands) /\ Len(commands) <= CommandCap
      /\ Len(commands) \in Nat /\ CommandCap \in Nat
  BY NodeAssumption DEF NodeInv, CommandsInv
<1>2. c \in Commands
  BY DEF Commands
<1> HIDE DEF c
<1>3. CASE Len(commands) < CommandCap
  <2>1. commands' = Append(commands, c) /\ fetching' = "waiting"
    BY <1>3 DEF AskPending, c
  <2>2. /\ Append(commands, c) \in Seq(Commands)
        /\ Len(Append(commands, c)) = Len(commands) + 1
    BY <1>1, <1>2
  <2>3. CommandsInv'
    BY <1>1, <1>3, <2>1, <2>2 DEF CommandsInv
  <2>4. FetchInv'
    BY <2>1 DEF FetchInv
  <2>5. QED
    BY <2>3, <2>4, FrameKeeps DEF AskPending, NodeInv, memory, history
<1>4. CASE ~(Len(commands) < CommandCap)
  <2>1. commands' = commands /\ fetching' = "asking"
    BY <1>4 DEF AskPending
  <2>2. FetchInv'
    BY <2>1 DEF FetchInv
  <2>3. QED
    BY <2>1, <2>2, FrameKeeps DEF AskPending, NodeInv, memory, history
<1>5. QED
  BY <1>3, <1>4

\* The watcher's record with its flags set.
LEMMA WatcherFlags ==
  ASSUME NEW B, NEW x \in B, NEW y \in B,
         NEW w \in [active : B, running : B, callbacks : B]
  PROVE  /\ [active |-> x, running |-> x, callbacks |-> x]
               \in [active : B, running : B, callbacks : B]
         /\ [w EXCEPT !.active = y, !.callbacks = y]
               \in [active : B, running : B, callbacks : B]
OBVIOUS

\* Subscribing to the updates and unsubscribing keep the invariant.
LEMMA WatchCallsKeep ==
  ASSUME NodeInv, WatchTxUpdates \/ UnsubscribeWatchTxUpdates
  PROVE  NodeInv'
<1>1. /\ \/ watcher' = [active |-> TRUE, running |-> TRUE, callbacks |-> TRUE]
         \/ watcher' = [watcher EXCEPT !.active = FALSE, !.callbacks = FALSE]
      /\ UNCHANGED <<memory, queues, dispatcher, handler, fetching, history,
                     environment>>
  BY DEF WatchTxUpdates, UnsubscribeWatchTxUpdates
<1>2. WatcherInv'
  <2> DEFINE B == BOOLEAN
             x == TRUE
             y == FALSE
  <2>1. x \in B /\ y \in B
    OBVIOUS
  <2>2. watcher \in [active : B, running : B, callbacks : B]
    BY DEF NodeInv, WatcherInv
  <2>3. \/ watcher' = [active |-> x, running |-> x, callbacks |-> x]
        \/ watcher' = [watcher EXCEPT !.active = y, !.callbacks = y]
    BY <1>1
  <2>4. watcher' \in [active : B, running : B, callbacks : B]
    <3> HIDE DEF B, x, y
    <3>1. QED
      BY <2>1, <2>2, <2>3, WatcherFlags
  <2>5. QED
    BY <2>4 DEF WatcherInv
<1>3. PanicInv'
  <2>1. CASE WatchTxUpdates
    BY <2>1, Zenon DEF WatchTxUpdates, PanicInv
  <2>2. CASE UnsubscribeWatchTxUpdates
    BY <2>2, FrameKeeps DEF UnsubscribeWatchTxUpdates
  <2>3. QED
    BY <2>1, <2>2
<1>4. QED
  BY <1>1, <1>2, <1>3, FrameKeeps DEF NodeInv, memory, queues, history

\* Every call of the public interface keeps the invariant.
LEMMA ApiCallKeeps ==
  ASSUME NodeInv, ApiCall
  PROVE  NodeInv'
<1>1. CASE \E m \in Routes : InitiateTransaction(m)
  BY <1>1, InitiateKeeps
<1>2. CASE \E t \in SenderInputs : SenderConfirm(t)
  BY <1>2, ConfirmKeeps
<1>3. CASE \E t \in shown : \E s \in SignaturesOf(t.receiver) :
             ReceiverConfirm(t, s)
  <2>1. \A a : SignaturesOf(a) \subseteq Signatures
    BY DEF SignaturesOf
  <2>2. QED
    BY <1>3, <2>1, ReceiverConfirmKeeps
<1>4. CASE \E t \in shown : RevertTransaction(t)
  BY <1>4, RevertKeeps
<1>5. CASE \E t \in shown : DeleteTxInCache(t)
  BY <1>5, DropKeeps DEF DeleteTxInCache
<1>6. CASE ClearRevertedFromCache \/ ClearFinalizedFromCache
  BY <1>6, DropKeeps DEF ClearRevertedFromCache, ClearFinalizedFromCache,
                         ClearFromCache
<1>7. CASE FetchStart
  BY <1>7, AskKeeps DEF FetchStart
<1>8. CASE WatchTxUpdates \/ UnsubscribeWatchTxUpdates
  BY <1>8, WatchCallsKeep
<1>9. QED
  BY <1>1, <1>2, <1>3, <1>4, <1>5, <1>6, <1>7, <1>8 DEF ApiCall

\* add_account keeps the invariant.
LEMMA AddAccountKeeps ==
  ASSUME NodeInv, NEW a, AddAccount(a)
  PROVE  NodeInv'
BY FrameKeeps DEF AddAccount, NodeInv, memory, queues, tasks, history

\* The end of a fetch shows what the cache holds.
LEMMA FetchEndKeeps ==
  ASSUME NodeInv, FetchEnd
  PROVE  NodeInv'
<1> DEFINE found == {e.tx : e \in Range(cache')}
<1>0. UNCHANGED <<nonce, queues, dispatcher, handler, watcher, submitted,
                  environment>>
  BY DEF FetchEnd
<1>1. CASE panicked' = TRUE /\ UNCHANGED <<cache, shown, integrity, fetching>>
  BY <1>0, <1>1, FrameKeeps DEF NodeInv, queues
<1>2. CASE \E expired \in SUBSET Keys :
             /\ cache' = Without(cache, expired) /\ shown' = shown \cup found
             /\ integrity' = Remember(integrity, found) /\ fetching' = "no"
             /\ UNCHANGED panicked
  <2>1. PICK expired \in SUBSET Keys :
          /\ cache' = Without(cache, expired) /\ shown' = shown \cup found
          /\ integrity' = Remember(integrity, found) /\ fetching' = "no"
          /\ UNCHANGED panicked
    BY <1>2
  <2>2. cache' \in Caches
    BY <2>1, WithoutCache DEF NodeInv, CacheInv
  <2>3. found \in SUBSET Good
    <3>1. Range(cache') \subseteq Entries
      BY <2>2 DEF Caches, Range
    <3>2. \A e \in Entries : e.tx \in Good
      BY DEF Entries
    <3>3. QED
      BY <3>1, <3>2
  <2> HIDE DEF found
  <2>4. CacheInv' /\ FetchInv'
    BY <2>1, <2>2 DEF CacheInv, FetchInv
  <2>5. TableInv'
    BY <1>0, <2>1, <2>3, RememberNonces DEF NodeInv, TableInv
  <2>6. HistoryInv'
    BY <1>0, <2>1, <2>3 DEF NodeInv, HistoryInv
  <2>7. QED
    BY <1>0, <2>1, <2>4, <2>5, <2>6, FrameKeeps DEF NodeInv, queues
<1>3. QED
  BY <1>1, <1>2 DEF FetchEnd, Borrowing

\* The watcher shows what it has received and keeps the invariant.
LEMMA WatchKeeps ==
  ASSUME NodeInv, Watch
  PROVE  NodeInv'
<1>1. /\ rpcq \in Seq(Good) /\ rpcq # <<>> /\ Len(rpcq) <= RpcCap
      /\ rpcq' = Tail(rpcq)
  BY DEF NodeInv, RpcqInv, Watch
<1>2. /\ Head(rpcq) \in Good /\ rpcq' \in Seq(Good)
      /\ Len(rpcq') = Len(rpcq) - 1 /\ Len(rpcq) \in Nat
  BY <1>1
<1>3. RpcqInv'
  BY <1>1, <1>2, NodeAssumption DEF RpcqInv
<1>4. TableInv'
  BY <1>2, RememberNonces DEF Watch, NodeInv, TableInv
<1>5. HistoryInv'
  BY <1>2 DEF Watch, NodeInv, HistoryInv
<1>6. QED
  BY <1>3, <1>4, <1>5, FrameKeeps DEF Watch, NodeInv, tasks

\* The connection takes a command and keeps the invariant.
LEMMA TakeCommandKeeps ==
  ASSUME NodeInv, TakeCommand
  PROVE  NodeInv'
<1>1. /\ commands \in Seq(Commands) /\ commands # <<>>
      /\ Len(commands) <= CommandCap /\ commands' = Tail(commands)
      /\ inflight' = inflight \cup {Head(commands)}
  BY DEF NodeInv, CommandsInv, TakeCommand
<1>2. /\ Head(commands) \in Commands /\ Tail(commands) \in Seq(Commands)
      /\ Len(Tail(commands)) = Len(commands) - 1 /\ Len(commands) \in Nat
  BY <1>1
<1>3. CommandsInv'
  BY <1>1, <1>2, NodeAssumption DEF CommandsInv
<1>4. InflightInv'
  BY <1>1, <1>2 DEF NodeInv, EnvironmentInv, InflightInv
<1>5. QED
  BY <1>3, <1>4, FrameKeeps
     DEF TakeCommand, NodeInv, EnvironmentInv, memory, tasks, history

-----------------------------------------------------------------------------
(* The dispatcher keeps it *)

\* The user channel without the transaction that the dispatcher takes.
LEMMA TakesKeeps ==
  ASSUME NodeInv, NEW t, NEW statuses, Takes(t, statuses)
  PROVE  t \in Good /\ t.status \in statuses /\ UserqInv'
<1>1. userq \in Seq(Good) /\ userq # <<>> /\ Len(userq) <= UserCap
      /\ t = Head(userq) /\ t.status \in statuses /\ userq' = Tail(userq)
  BY DEF NodeInv, UserqInv, Takes
<1>2. Head(userq) \in Good /\ Tail(userq) \in Seq(Good)
      /\ Len(Tail(userq)) = Len(userq) - 1 /\ Len(userq) \in Nat
  BY <1>1
<1>3. Len(Tail(userq)) <= UserCap
  BY <1>1, <1>2, NodeAssumption
<1>4. QED
  BY <1>1, <1>2, <1>3 DEF UserqInv

\* What a step of the dispatcher may write, and still keeps the invariant.
DispatcherParts == CacheInv /\ RpcqInv /\ CommandsInv /\ DispatcherInv /\ PanicInv

\* A step of the dispatcher that keeps these parts keeps the others.
LEMMA DispatcherPartsSuffice ==
  ASSUME NodeInv, UserqInv', DispatcherParts', UNCHANGED dispatcherFrame,
         HistoryInv' \/ UNCHANGED submitted
  PROVE  NodeInv'
BY FrameKeeps DEF dispatcherFrame, DispatcherParts, NodeInv

\* The commands that a handler sends.
LEMMA CommandIsCommand ==
  ASSUME NEW t \in Good
  PROVE  /\ \A type \in {"response", "confirm", "submission", "revert", "close"} :
              Command(type, t) \in Commands
         /\ t.status = "Genesis" => Command("request", t) \in Commands
BY DEF Command, Commands, Fresh

\* What follows the commands keeps the invariant.
LEMMA AfterCommandsKeeps ==
  ASSUME NodeInv, NEW t \in Good, NEW recs, AfterCommands(t, recs)
  PROVE  CacheInv' /\ RpcqInv' /\ DispatcherInv' /\ PanicInv'
<1>1. cache \in Caches
  BY DEF NodeInv, CacheInv
<1>2. CASE dispatcher' = Idle /\ UNCHANGED <<cache, rpcq, panicked>>
  <2>1. DispatcherInv'
    BY <1>2 DEF Idle, DispatcherInv, TaskOK
  <2>2. QED
    BY <1>2, <2>1, FrameKeeps
<1>3. ASSUME NEW holds, NEW rs, Notify(t, holds, rs),
             \/ cache' = Push(cache, Entry(t, "now"))
             \/ cache' = Update(cache, t)
      PROVE  CacheInv' /\ RpcqInv' /\ DispatcherInv' /\ PanicInv'
  <2>1. Entry(t, "now") \in Entries
    BY DEF Entry, Entries
  <2>2. CacheInv'
    BY <1>1, <1>3, <2>1, PushCache, UpdateCache DEF CacheInv
  <2>3. QED
    BY <1>3, <2>2, NotifyKeeps
<1>4. CASE panicked' = TRUE /\ UNCHANGED <<cache, rpcq, dispatcher>>
  BY <1>4, FrameKeeps
<1>5. CASE cache' = Push(cache, Entry(t, "now")) /\ Notify(t, Held(t), recs)
  BY <1>3, <1>5
<1>6. CASE cache' = Update(cache, t) /\ Notify(t, Held(t) \cup {"cache"}, recs)
  BY <1>3, <1>6
<1>7. CASE /\ cache' = Update(cache, t)
           /\ Notify(t, {}, recs \cup {RecordOf(t, FALSE)})
  BY <1>3, <1>7
<1>8. QED
  BY <1>2, <1>4, <1>5, <1>6, <1>7 DEF AfterCommands

\* The commands of a handler go into the channel, or it waits with some, and
\* the invariant is kept.
LEMMA SendCommandsKeeps ==
  ASSUME NodeInv, NEW t \in Good, NEW cmds \in Seq(Commands), NEW recs,
         SendCommands(t, cmds, recs)
  PROVE  DispatcherParts'
<1> DEFINE room == CommandCap - Len(commands)
           first == SubSeq(cmds, 1, room)
           rest == SubSeq(cmds, room + 1, Len(cmds))
<1>1. room \in Nat /\ Len(cmds) \in Nat
  BY NodeAssumption DEF NodeInv, CommandsInv
<1>2. CASE Len(cmds) <= room
  <2>1. commands' = commands \o cmds /\ AfterCommands(t, recs)
    BY <1>2 DEF SendCommands
  <2>2. CommandsInv'
    BY <1>2, <2>1, CommandsGrow
  <2>3. QED
    BY <2>1, <2>2, AfterCommandsKeeps DEF DispatcherParts
<1>3. CASE ~(Len(cmds) <= room)
  <2>1. /\ commands' = commands \o first
        /\ dispatcher' = Commanding(t, rest, Held(t))
        /\ UNCHANGED <<cache, rpcq, panicked>>
    BY <1>3 DEF SendCommands
  <2> HIDE DEF room
  <2>2. first \in Seq(Commands) /\ Len(first) = room /\ rest \in Seq(Commands)
    BY <1>1, <1>3
  <2> HIDE DEF first, rest
  <2>3. CommandsInv'
    <3>1. Len(first) <= CommandCap - Len(commands)
      BY <1>1, <2>2 DEF room
    <3>2. QED
      BY <2>1, <2>2, <3>1, CommandsGrow
  <2>4. DispatcherInv'
    BY <2>1, <2>2 DEF Commanding, DispatcherInv, TaskOK
  <2>5. QED
    BY <2>1, <2>3, <2>4, FrameKeeps DEF DispatcherParts
<1>4. QED
  BY <1>2, <1>3

\* A dispatcher that ends in an error takes its message with it.
LEMMA DieKeeps ==
  ASSUME NodeInv, Die
  PROVE  DispatcherParts'
<1>1. DispatcherInv'
  BY DEF Die, Dead, DispatcherInv, TaskOK
<1>2. QED
  BY <1>1, FrameKeeps DEF Die, DispatcherParts

\* handle_genesis_tx_state keeps the invariant.
LEMMA GenesisKeeps ==
  ASSUME NodeInv, NEW t, HandleGenesisTxState(t)
  PROVE  NodeInv'
<1>0. Takes(t, {"Genesis"}) /\ UNCHANGED <<submitted, dispatcherFrame>>
  BY DEF HandleGenesisTxState
<1>1. t \in Good /\ t.status = "Genesis" /\ UserqInv'
  BY <1>0, TakesKeeps
<1>2. CASE Die
  BY <1>0, <1>1, <1>2, DieKeeps, DispatcherPartsSuffice
<1>3. CASE /\ cache' = Update(cache, t) /\ Notify(t, {}, records)
           /\ UNCHANGED commands
  <2>1. CacheInv'
    BY <1>1, <1>3, UpdateCache DEF NodeInv, CacheInv
  <2>2. RpcqInv' /\ DispatcherInv' /\ PanicInv'
    BY <1>1, <1>3, NotifyKeeps
  <2>3. DispatcherParts'
    BY <1>3, <2>1, <2>2, FrameKeeps DEF DispatcherParts
  <2>4. QED
    BY <1>0, <1>1, <2>3, DispatcherPartsSuffice
<1>4. CASE SendCommands(t, <<Command("request", t)>>, records)
  <2>1. <<Command("request", t)>> \in Seq(Commands)
    BY <1>1, CommandIsCommand
  <2>2. DispatcherParts'
    BY <1>1, <1>4, <2>1, SendCommandsKeeps
  <2>3. QED
    BY <1>0, <1>1, <2>2, DispatcherPartsSuffice
<1>5. QED
  BY <1>2, <1>3, <1>4 DEF HandleGenesisTxState

\* The end of a local confirmation.
LEMMA EndLocalKeeps ==
  ASSUME NodeInv, NEW t \in Good, EndLocalConfirmation(t)
  PROVE  CacheInv' /\ RpcqInv' /\ DispatcherInv' /\ PanicInv'
<1>1. CASE panicked' = TRUE /\ UNCHANGED <<cache, rpcq, dispatcher>>
  BY <1>1, FrameKeeps
<1>2. CASE /\ UNCHANGED panicked
           /\ \/ dispatcher' = Dead /\ UNCHANGED <<cache, rpcq>>
              \/ /\ ~RpcFull /\ rpcq' = Append(rpcq, t)
                 /\ dispatcher' \in {Idle, Dead}
                 /\ cache' = UpdateFound(cache, t)
  <2>1. DispatcherInv'
    BY <1>2 DEF Dead, Idle, DispatcherInv, TaskOK
  <2>2. CacheInv'
    BY <1>2, UpdateFoundCache, FrameKeeps DEF NodeInv, CacheInv
  <2>3. QED
    BY <1>2, <2>1, <2>2, RpcqGrows, FrameKeeps
<1>3. QED
  BY <1>1, <1>2 DEF EndLocalConfirmation, Borrowing

\* handle_recv_addr_confirmed_tx_state keeps the invariant: it is here that a
\* transaction becomes ready to be signed.
LEMMA ReceiverConfirmedKeeps ==
  ASSUME NodeInv, NEW t, HandleRecvAddrConfirmedTxState(t)
  PROVE  NodeInv'
<1> DEFINE ready == Bump(With(t, "RecvAddrConfirmationPassed"))
           failed == Bump(With(t, "Reverted"))
<1>0. /\ Takes(t, {"RecvAddrConfirmed"})
      /\ UNCHANGED <<submitted, dispatcherFrame>>
  BY DEF HandleRecvAddrConfirmedTxState
<1>1. t \in Good /\ UserqInv'
  BY <1>0, TakesKeeps
<1>s. {"RecvAddrConfirmationPassed", "Reverted"} \subseteq Status
  BY DEF Status
<1>2. CASE SendCommands(t, <<Command("response", t)>>, records)
  <2>1. <<Command("response", t)>> \in Seq(Commands)
    BY <1>1, CommandIsCommand
  <2>2. DispatcherParts'
    BY <1>1, <1>2, <2>1, SendCommandsKeeps
  <2>3. QED
    BY <1>0, <1>1, <2>2, DispatcherPartsSuffice
<1>3. CASE panicked' = TRUE /\ UNCHANGED <<cache, rpcq, dispatcher, commands>>
  <2>1. DispatcherParts'
    BY <1>3, FrameKeeps DEF DispatcherParts
  <2>2. QED
    BY <1>0, <1>1, <2>1, DispatcherPartsSuffice
<1>4. CASE /\ Verified(t, "Receiver")
           /\ dispatcher' = Waiting("creating", ready, {"worker"})
           /\ UNCHANGED <<cache, rpcq, panicked, commands>>
  <2>1. t.recv = "valid"
    BY <1>4 DEF Verified
  <2>2. /\ With(t, "RecvAddrConfirmationPassed") \in Good
        /\ With(t, "RecvAddrConfirmationPassed").recv = "valid"
    BY <1>1, <1>s, <2>1, WithStatus
  <2>3. ready \in Good /\ ready.recv = "valid"
    BY <2>2, BumpGood
  <2> HIDE DEF ready
  <2>4. DispatcherInv'
    BY <1>4, <2>3 DEF Waiting, DispatcherInv, TaskOK
  <2>5. DispatcherParts'
    BY <1>4, <2>4, FrameKeeps DEF DispatcherParts
  <2>6. QED
    BY <1>0, <1>1, <2>5, DispatcherPartsSuffice
<1>5. CASE EndLocalConfirmation(failed) /\ UNCHANGED commands
  <2>1. failed \in Good
    BY <1>1, <1>s, WithStatus, BumpGood
  <2> HIDE DEF failed
  <2>2. DispatcherParts'
    BY <1>5, <2>1, EndLocalKeeps, FrameKeeps DEF DispatcherParts
  <2>3. QED
    BY <1>0, <1>1, <2>2, DispatcherPartsSuffice
<1>6. QED
  BY <1>2, <1>3, <1>4, <1>5 DEF HandleRecvAddrConfirmedTxState, Borrowing

\* The end of create_tx_js for the dispatcher keeps the invariant.
LEMMA CreatedKeeps ==
  ASSUME NodeInv, DispatcherCreated
  PROVE  NodeInv'
<1> DEFINE failed == With(dispatcher.tx, "TxError")
<1>0. /\ dispatcher.tx \in Good
      /\ UNCHANGED <<userq, commands, submitted, dispatcherFrame>>
  BY DEF DispatcherCreated, NodeInv, DispatcherInv, TaskOK
<1>1. UserqInv' /\ CommandsInv'
  BY <1>0, FrameKeeps
<1>2. CASE EndLocalConfirmation(Created(dispatcher.tx))
  <2>1. DispatcherParts'
    BY <1>0, <1>1, <1>2, CreatedGood, EndLocalKeeps DEF DispatcherParts
  <2>2. QED
    BY <1>0, <1>1, <2>1, DispatcherPartsSuffice
<1>3. CASE /\ cache' = UpdateFound(cache, failed) /\ panicked' = TRUE
           /\ UNCHANGED <<rpcq, dispatcher>>
  <2>1. "TxError" \in Status
    BY DEF Status
  <2>2. failed \in Good
    BY <1>0, <2>1, WithStatus
  <2> HIDE DEF failed
  <2>3. CacheInv'
    BY <1>3, <2>2, UpdateFoundCache DEF NodeInv, CacheInv
  <2>4. DispatcherParts'
    BY <1>1, <1>3, <2>3, FrameKeeps DEF DispatcherParts
  <2>5. QED
    BY <1>0, <1>1, <2>4, DispatcherPartsSuffice
<1>4. CASE dispatcher' = Dead /\ UNCHANGED <<cache, rpcq, panicked>>
  <2>1. DispatcherInv'
    BY <1>4 DEF Dead, DispatcherInv, TaskOK
  <2>2. DispatcherParts'
    BY <1>1, <1>4, <2>1, FrameKeeps DEF DispatcherParts
  <2>3. QED
    BY <1>0, <1>1, <2>2, DispatcherPartsSuffice
<1>5. QED
  BY <1>2, <1>3, <1>4 DEF DispatcherCreated

\* handle_submitted_tx_state keeps the invariant.
LEMMA SubmittedStateKeeps ==
  ASSUME NodeInv, NEW t, HandleSubmittedTxState(t)
  PROVE  NodeInv'
<1>1. /\ Takes(t, {"TxSubmissionPassed", "FailedToSubmitTxn"})
      /\ cache' = UpdateFound(cache, t) /\ panicked' = TRUE
      /\ UNCHANGED <<rpcq, commands, dispatcher, submitted, dispatcherFrame>>
  BY DEF HandleSubmittedTxState
<1>2. t \in Good /\ UserqInv'
  BY <1>1, TakesKeeps
<1>3. CacheInv'
  BY <1>1, <1>2, UpdateFoundCache DEF NodeInv, CacheInv
<1>4. DispatcherParts'
  BY <1>1, <1>3, FrameKeeps DEF DispatcherParts
<1>5. QED
  BY <1>1, <1>2, <1>4, DispatcherPartsSuffice

\* handle_sender_confirmed_tx_state keeps the invariant.
LEMMA SenderConfirmedKeeps ==
  ASSUME NodeInv, NEW t, HandleSenderConfirmedTxState(t)
  PROVE  NodeInv'
<1>0. Takes(t, {"SenderConfirmed"}) /\ UNCHANGED dispatcherFrame
  BY DEF HandleSenderConfirmedTxState
<1>1. t \in Good /\ UserqInv'
  BY <1>0, TakesKeeps
<1>2. CASE Die /\ UNCHANGED submitted
  BY <1>0, <1>1, <1>2, DieKeeps, DispatcherPartsSuffice
<1>3. CASE /\ panicked' = TRUE
           /\ UNCHANGED <<cache, rpcq, commands, dispatcher, records, submitted>>
  <2>1. DispatcherParts'
    BY <1>3, FrameKeeps DEF DispatcherParts
  <2>2. QED
    BY <1>0, <1>1, <1>3, <2>1, DispatcherPartsSuffice
<1>4. ASSUME NEW status \in {"SenderConfirmationfailed", "TxError"},
             SendCommands(With(t, status),
                          <<Command("confirm", With(t, status))>>, records),
             UNCHANGED submitted
      PROVE  NodeInv'
  <2> DEFINE failed == With(t, status)
  <2>1. status \in Status /\ status # "RecvAddrConfirmationPassed"
    BY DEF Status
  <2>2. failed \in Good
    BY <1>1, <2>1, WithStatus
  <2>3. SendCommands(failed, <<Command("confirm", failed)>>, records)
    BY <1>4
  <2> HIDE DEF failed
  <2>4. <<Command("confirm", failed)>> \in Seq(Commands)
    BY <2>2, CommandIsCommand
  <2>5. DispatcherParts'
    BY <2>2, <2>3, <2>4, SendCommandsKeeps
  <2>6. QED
    BY <1>0, <1>1, <1>4, <2>5, DispatcherPartsSuffice
<1>5. CASE /\ dispatcher' = Waiting("submitting", t, {"worker"})
           /\ submitted' = submitted \cup {t}
           /\ UNCHANGED <<cache, rpcq, commands, panicked>>
  <2>1. DispatcherInv'
    BY <1>1, <1>5 DEF Waiting, DispatcherInv, TaskOK
  <2>2. HistoryInv'
    BY <1>0, <1>1, <1>5 DEF dispatcherFrame, NodeInv, HistoryInv
  <2>3. DispatcherParts'
    BY <1>5, <2>1, FrameKeeps DEF DispatcherParts
  <2>4. QED
    BY <1>0, <1>1, <2>2, <2>3, DispatcherPartsSuffice
<1>6. QED
  BY <1>2, <1>3, <1>4, <1>5 DEF HandleSenderConfirmedTxState, Borrowing

\* The return of submit_tx_js keeps the invariant.
LEMMA SubmittedKeeps ==
  ASSUME NodeInv, DispatcherSubmitted
  PROVE  NodeInv'
<1>1. PICK status, recs :
        /\ status \in {"TxSubmissionPassed", "FailedToSubmitTxn"}
        /\ dispatcher.pc = "submitting"
        /\ SendCommands(With(dispatcher.tx, status),
             <<Command("submission", With(dispatcher.tx, status))>>, recs)
        /\ UNCHANGED <<userq, submitted, dispatcherFrame>>
  BY DEF DispatcherSubmitted
<1> DEFINE t == With(dispatcher.tx, status)
<1>2. status \in Status /\ status # "RecvAddrConfirmationPassed"
  BY <1>1 DEF Status
<1>3. dispatcher.tx \in Good
  BY <1>1 DEF NodeInv, DispatcherInv, TaskOK
<1>4. t \in Good
  BY <1>2, <1>3, WithStatus
<1>5. SendCommands(t, <<Command("submission", t)>>, recs)
  BY <1>1
<1> HIDE DEF t
<1>6. <<Command("submission", t)>> \in Seq(Commands)
  BY <1>4, CommandIsCommand
<1>7. DispatcherParts'
  BY <1>4, <1>5, <1>6, SendCommandsKeeps
<1>8. UserqInv'
  BY <1>1, FrameKeeps
<1>9. QED
  BY <1>1, <1>7, <1>8, DispatcherPartsSuffice

\* handle_reverted_tx_state keeps the invariant.
LEMMA RevertedKeeps ==
  ASSUME NodeInv, NEW t, HandleRevertedTxState(t)
  PROVE  NodeInv'
<1> DEFINE cmds == IF IsLocal(t) THEN <<>>
                   ELSE <<Command("revert", t), Command("close", t)>>
<1>0. /\ Takes(t, {"Reverted"}) /\ SendCommands(t, cmds, records)
      /\ UNCHANGED <<submitted, dispatcherFrame>>
  BY DEF HandleRevertedTxState
<1>1. t \in Good /\ UserqInv'
  BY <1>0, TakesKeeps
<1>2. cmds \in Seq(Commands)
  <2>1. Command("revert", t) \in Commands /\ Command("close", t) \in Commands
    BY <1>1, CommandIsCommand
  <2>2. <<Command("revert", t), Command("close", t)>> \in Seq(Commands)
    BY <2>1
  <2>3. QED
    BY <2>2
<1> HIDE DEF cmds
<1>3. DispatcherParts'
  BY <1>0, <1>1, <1>2, SendCommandsKeeps
<1>4. QED
  BY <1>0, <1>1, <1>3, DispatcherPartsSuffice

\* The dispatcher that waited in the command channel goes on and keeps the
\* invariant.
LEMMA DispatcherCommandsKeeps ==
  ASSUME NodeInv, DispatcherCommands
  PROVE  NodeInv'
<1>1. dispatcher.tx \in Good /\ dispatcher.cmds \in Seq(Commands)
  BY DEF DispatcherCommands, NodeInv, DispatcherInv, TaskOK
<1>2. DispatcherParts'
  BY <1>1, SendCommandsKeeps DEF DispatcherCommands
<1>3. UserqInv'
  BY FrameKeeps DEF DispatcherCommands
<1>4. QED
  BY <1>2, <1>3, DispatcherPartsSuffice DEF DispatcherCommands

\* Handing a message to the watcher keeps the invariant.
LEMMA DispatcherSendsKeeps ==
  ASSUME NodeInv, DispatcherSends
  PROVE  NodeInv'
<1>1. dispatcher.tx \in Good
  BY DEF DispatcherSends, NodeInv, DispatcherInv, TaskOK
<1>2. RpcqInv'
  BY <1>1, RpcqGrows DEF DispatcherSends
<1>3. DispatcherInv'
  BY DEF DispatcherSends, Idle, DispatcherInv, TaskOK
<1>4. DispatcherParts' /\ UserqInv'
  BY <1>2, <1>3, FrameKeeps DEF DispatcherSends, DispatcherParts
<1>5. QED
  BY <1>4, DispatcherPartsSuffice DEF DispatcherSends

\* Every step of the dispatcher keeps the invariant.
LEMMA DispatchKeeps ==
  ASSUME NodeInv, Dispatch \/ DispatcherCreated \/ DispatcherSubmitted
  PROVE  NodeInv'
BY GenesisKeeps, ReceiverConfirmedKeeps, SubmittedStateKeeps,
   SenderConfirmedKeeps, RevertedKeeps, DispatcherCommandsKeeps,
   DispatcherSendsKeeps, CreatedKeeps, SubmittedKeeps DEF Dispatch

-----------------------------------------------------------------------------
(* The handler keeps it *)

\* The channel without the message that the handler takes.
LEMMA ArrivesKeeps ==
  ASSUME NodeInv, NEW type, Arrives(type)
  PROVE  /\ Head(swarmq) \in Messages /\ Head(swarmq).type = type
         /\ SwarmqInv'
<1>1. swarmq \in Seq(Messages) /\ swarmq # <<>> /\ Head(swarmq).type = type
      /\ swarmq' = Tail(swarmq)
  BY DEF NodeInv, SwarmqInv, Arrives
<1>2. Head(swarmq) \in Messages /\ Tail(swarmq) \in Seq(Messages)
  BY <1>1
<1>3. QED
  BY <1>1, <1>2 DEF SwarmqInv

\* What a step of the handler may write, and still keeps the invariant.
HandlerParts == CacheInv /\ RpcqInv /\ HandlerInv /\ PanicInv

\* A step of the handler that keeps these parts keeps the others.
LEMMA HandlerPartsSuffice ==
  ASSUME NodeInv, SwarmqInv', HandlerParts', UNCHANGED handlerFrame
  PROVE  NodeInv'
BY FrameKeeps DEF handlerFrame, HandlerParts, NodeInv

\* A request that the backend passes on keeps the invariant.
LEMMA RequestKeeps ==
  ASSUME NodeInv, OnRequest
  PROVE  NodeInv'
<1> DEFINE t == Head(swarmq).tx
<1>0. SwarmqInv' /\ UNCHANGED <<handler, handlerFrame>>
  BY ArrivesKeeps DEF OnRequest
<1>1. t \in Good
  BY ArrivesKeeps DEF OnRequest, Messages
<1>2. \/ panicked' = TRUE /\ cache' = cache /\ rpcq' = rpcq
      \/ /\ panicked' = panicked /\ cache' = Push(cache, Entry(t, "now"))
         /\ rpcq' = IF RpcFull THEN rpcq ELSE Append(rpcq, t)
  BY DEF OnRequest, Borrowing
<1> HIDE DEF t
<1>3. RpcqInv' /\ PanicInv' /\ HandlerInv'
  BY <1>0, <1>1, <1>2, RpcqGrows, FrameKeeps
<1>4. Entry(t, "now") \in Entries
  BY <1>1 DEF Entry, Entries
<1>5. CacheInv'
  BY <1>2, <1>4, PushCache, FrameKeeps DEF NodeInv, CacheInv
<1>6. HandlerParts'
  BY <1>3, <1>5 DEF HandlerParts
<1>7. QED
  BY <1>0, <1>6, HandlerPartsSuffice

\* The end of a response.
LEMMA EndResponseKeeps ==
  ASSUME NodeInv, NEW t \in Good, EndResponse(t)
  PROVE  HandlerParts'
<1> DEFINE expired == With(t, "TxError")
<1>1. "TxError" \in Status
  BY DEF Status
<1>2. expired \in Good
  BY <1>1, WithStatus
<1>3. /\ rpcq \in Seq(Good) /\ Len(rpcq) <= RpcCap /\ cache \in Caches
      /\ RpcCap \in Nat
  BY NodeAssumption DEF NodeInv, RpcqInv, CacheInv
<1>4. CASE panicked' = TRUE /\ UNCHANGED <<cache, rpcq, handler>>
  BY <1>4, FrameKeeps DEF HandlerParts
<1>5. CASE ~ \E c \in {"rpc"} : Borrowed(c)
  <2>1. /\ panicked' = panicked
        /\ \/ /\ handler' = Idle /\ UNCHANGED <<cache, rpcq>>
           \/ /\ ~RpcFull /\ cache' = Update(cache, t)
              /\ rpcq' = Append(rpcq, t) /\ handler' = Idle
           \/ /\ ~RpcFull /\ cache' = Push(cache, Entry(expired, "now"))
              /\ Len(rpcq) + 1 < RpcCap /\ rpcq' = rpcq \o <<t, expired>>
              /\ handler' = Idle
           \/ /\ ~RpcFull /\ cache' = Push(cache, Entry(expired, "now"))
              /\ rpcq' = Append(rpcq, t)
              /\ handler' = Waiting("sending", expired, {"rpc"})
    BY <1>5 DEF EndResponse, Borrowing
  <2> HIDE DEF expired
  <2>2. Entry(expired, "now") \in Entries
    BY <1>2 DEF Entry, Entries
  <2>3. CacheInv'
    BY <1>3, <2>1, <2>2, UpdateCache, PushCache DEF CacheInv
  <2>4. HandlerInv'
    BY <1>2, <2>1 DEF Idle, Waiting, HandlerInv, TaskOK
  <2>5. RpcqInv'
    <3>1. CASE UNCHANGED rpcq
      BY <3>1, FrameKeeps
    <3>2. CASE ~RpcFull /\ rpcq' = Append(rpcq, t)
      BY <3>2, RpcqGrows
    <3>3. CASE Len(rpcq) + 1 < RpcCap /\ rpcq' = rpcq \o <<t, expired>>
      <4>1. <<t, expired>> \in Seq(Good) /\ Len(<<t, expired>>) = 2
        BY <1>2
      <4>2. rpcq' \in Seq(Good) /\ Len(rpcq') = Len(rpcq) + 2
        BY <1>3, <3>3, <4>1
      <4>3. QED
        BY <1>3, <3>3, <4>2 DEF RpcqInv
    <3>4. QED
      BY <2>1, <3>1, <3>2, <3>3
  <2>6. QED
    BY <2>1, <2>3, <2>4, <2>5, FrameKeeps DEF HandlerParts
<1>6. QED
  BY <1>4, <1>5 DEF EndResponse, Borrowing

\* A response that the backend passes on keeps the invariant.
LEMMA ResponseKeeps ==
  ASSUME NodeInv, OnResponse
  PROVE  NodeInv'
<1> DEFINE t == Head(swarmq).tx
           ready == Bump(With(t, "RecvAddrConfirmationPassed"))
           failed == Bump(With(t, "Reverted"))
<1>0. SwarmqInv' /\ UNCHANGED handlerFrame
  BY ArrivesKeeps DEF OnResponse
<1>1. t \in Good
  BY ArrivesKeeps DEF OnResponse, Messages
<1>s. {"RecvAddrConfirmationPassed", "Reverted"} \subseteq Status
  BY DEF Status
<1>2. CASE /\ UNCHANGED <<cache, rpcq, handler>>
           /\ panicked' = TRUE \/ UNCHANGED panicked
  <2>1. HandlerParts'
    BY <1>2, FrameKeeps DEF HandlerParts
  <2>2. QED
    BY <1>0, <2>1, HandlerPartsSuffice
<1>3. CASE /\ Verified(t, "Receiver")
           /\ handler' = Waiting("creating", ready, {"worker"})
           /\ UNCHANGED <<cache, rpcq, panicked>>
  <2>1. t.recv = "valid"
    BY <1>3 DEF Verified
  <2>2. /\ With(t, "RecvAddrConfirmationPassed") \in Good
        /\ With(t, "RecvAddrConfirmationPassed").recv = "valid"
    BY <1>1, <1>s, <2>1, WithStatus
  <2>3. ready \in Good /\ ready.recv = "valid"
    BY <2>2, BumpGood
  <2> HIDE DEF ready
  <2>4. HandlerInv'
    BY <1>3, <2>3 DEF Waiting, HandlerInv, TaskOK
  <2>5. HandlerParts'
    BY <1>3, <2>4, FrameKeeps DEF HandlerParts
  <2>6. QED
    BY <1>0, <2>5, HandlerPartsSuffice
<1>4. CASE EndResponse(failed)
  <2>1. failed \in Good
    BY <1>1, <1>s, WithStatus, BumpGood
  <2> HIDE DEF failed
  <2>2. HandlerParts'
    BY <1>4, <2>1, EndResponseKeeps
  <2>3. QED
    BY <1>0, <2>2, HandlerPartsSuffice
<1>5. QED
  BY <1>2, <1>3, <1>4 DEF OnResponse, Borrowing

\* The end of create_tx_js for the handler keeps the invariant.
LEMMA HandlerCreatedKeeps ==
  ASSUME NodeInv, HandlerCreated
  PROVE  NodeInv'
<1> DEFINE failed == With(handler.tx, "TxError")
<1>0. /\ handler.tx \in Good
      /\ UNCHANGED <<swarmq, handlerFrame>>
  BY DEF HandlerCreated, NodeInv, HandlerInv, TaskOK
<1>1. SwarmqInv'
  BY <1>0, FrameKeeps
<1>2. CASE EndResponse(Created(handler.tx))
  <2>1. HandlerParts'
    BY <1>0, <1>2, CreatedGood, EndResponseKeeps
  <2>2. QED
    BY <1>0, <1>1, <2>1, HandlerPartsSuffice
<1>3. CASE /\ cache' = UpdateFound(cache, failed) /\ panicked' = TRUE
           /\ UNCHANGED <<rpcq, handler>>
  <2>1. "TxError" \in Status
    BY DEF Status
  <2>2. failed \in Good
    BY <1>0, <2>1, WithStatus
  <2> HIDE DEF failed
  <2>3. CacheInv'
    BY <1>3, <2>2, UpdateFoundCache DEF NodeInv, CacheInv
  <2>4. HandlerParts'
    BY <1>3, <2>3, FrameKeeps DEF HandlerParts
  <2>5. QED
    BY <1>0, <1>1, <2>4, HandlerPartsSuffice
<1>4. QED
  BY <1>2, <1>3 DEF HandlerCreated

\* The swarm handler passing on a message keeps the invariant.
LEMMA HandlerSendsKeeps ==
  ASSUME NodeInv, HandlerSends
  PROVE  NodeInv'
<1>1. handler.tx \in Good
  BY DEF HandlerSends, NodeInv, HandlerInv, TaskOK
<1>2. RpcqInv'
  BY <1>1, RpcqGrows DEF HandlerSends
<1>3. HandlerInv'
  BY DEF HandlerSends, Idle, HandlerInv, TaskOK
<1>4. HandlerParts' /\ SwarmqInv'
  BY <1>2, <1>3, FrameKeeps DEF HandlerSends, HandlerParts
<1>5. QED
  BY <1>4, HandlerPartsSuffice DEF HandlerSends

\* The pending transactions of a fetch keep the invariant.
LEMMA PendingKeeps ==
  ASSUME NodeInv, OnPendingFetched
  PROVE  NodeInv'
<1> DEFINE ts == Head(swarmq).txs
           c == FoldLeft(UpdatePending, cache, ts)
<1>0. SwarmqInv' /\ UNCHANGED <<rpcq, handler, handlerFrame>>
  BY ArrivesKeeps DEF OnPendingFetched
<1>1. ts \in Seq(Good)
  BY ArrivesKeeps DEF OnPendingFetched, Messages
<1>2. \/ panicked' = TRUE /\ cache' = cache
      \/ panicked' = panicked /\ cache' = c
  BY DEF OnPendingFetched, Borrowing
<1>3. c \in Caches
  <2> HIDE DEF ts
  <2>1. QED
    BY <1>1, PendingCache DEF NodeInv, CacheInv
<1> HIDE DEF c
<1>4. CacheInv'
  BY <1>2, <1>3, FrameKeeps DEF CacheInv
<1>5. HandlerParts'
  BY <1>0, <1>2, <1>4, FrameKeeps DEF HandlerParts
<1>6. QED
  BY <1>0, <1>5, HandlerPartsSuffice

\* Every step of the swarm handler keeps the invariant.
LEMMA HandleSwarmKeeps ==
  ASSUME NodeInv, HandleSwarmMessage \/ HandlerCreated
  PROVE  NodeInv'
BY RequestKeeps, ResponseKeeps, PendingKeeps, HandlerSendsKeeps,
   HandlerCreatedKeeps DEF HandleSwarmMessage

-----------------------------------------------------------------------------
(* The backend and the other accounts keep it *)

\* The backend stores a transaction.
LEMMA StoredKeeps ==
  ASSUME NodeInv, NEW t \in Good
  PROVE  Stored(t) \subseteq Good /\ IsFiniteSet(Stored(t))
<1> DEFINE rest == {u \in remote : MultiId(u) # MultiId(t)}
<1>1. rest \subseteq remote /\ remote \subseteq Good /\ IsFiniteSet(remote)
  BY DEF NodeInv, EnvironmentInv, RemoteInv
<1>2. Stored(t) = rest \cup {t} \/ Stored(t) = remote
  BY DEF Stored
<1> HIDE DEF rest
<1>3. IsFiniteSet(rest)
  BY <1>1, FS_Subset
<1>4. IsFiniteSet(rest \cup {t})
  BY <1>3, FS_AddElement
<1>5. QED
  BY <1>1, <1>2, <1>4

\* What the subscription brings.
LEMMA DeliversKeeps ==
  ASSUME NodeInv, NEW type \in {"request", "response"}, NEW t \in Good,
         NEW wanted, Delivers(type, t, wanted)
  PROVE  SwarmqInv'
<1> DEFINE msg == [type |-> type, tx |-> t]
<1>1. swarmq' = Append(swarmq, msg) \/ swarmq' = swarmq
  BY DEF Delivers
<1>2. msg \in Messages
  BY DEF Messages
<1> HIDE DEF msg
<1>3. QED
  BY <1>1, <1>2, FrameKeeps DEF NodeInv, SwarmqInv

\* What the answer to a fetch brings.
LEMMA FetchedAreGood ==
  ASSUME NodeInv, NEW S \in SUBSET remote, NEW ts \in SetToSeqs(S)
  PROVE  [type |-> "pending", txs |-> ts] \in Messages
<1>1. remote \subseteq Good /\ IsFiniteSet(remote)
  BY DEF NodeInv, EnvironmentInv, RemoteInv
<1>2. IsFiniteSet(S)
  BY <1>1, FS_Subset
<1>3. Cardinality(S) \in Nat
  BY <1>2, FS_CardinalityType
<1>4. ts \in [1..Cardinality(S) -> S]
  BY DEF SetToSeqs
<1>5. ts \in Seq(Good)
  BY <1>1, <1>3, <1>4
<1>6. QED
  BY <1>5 DEF Messages

\* A step of the backend or of another account changes nothing of the node but
\* what is on its way to it.
LEMMA EnvironmentSuffices ==
  ASSUME NodeInv, SwarmqInv', EnvironmentInv', UNCHANGED node
  PROVE  NodeInv'
BY FrameKeeps DEF node, memory, tasks, history, NodeInv

\* A request that reaches the backend.
LEMMA RequestArrivesKeeps ==
  ASSUME NodeInv, NEW c \in Commands, RequestArrives(c)
  PROVE  SwarmqInv' /\ RemoteInv' /\ OthersInv'
<1> DEFINE t == c.tx
<1>1. t \in Fresh
  BY DEF RequestArrives, Commands
<1>2. t \in Good
  BY <1>1 DEF Fresh
<1>3. /\ remote' = Stored(t) /\ Delivers("request", t, t.receiver = Me)
      /\ others' = [others EXCEPT !.asked = @ \cup {t}]
  BY DEF RequestArrives
<1> HIDE DEF t
<1>4. RemoteInv'
  BY <1>2, <1>3, StoredKeeps DEF RemoteInv
<1>5. OthersInv'
  BY <1>1, <1>3 DEF NodeInv, EnvironmentInv, OthersInv
<1>6. SwarmqInv'
  BY <1>2, <1>3, DeliversKeeps
<1>7. QED
  BY <1>4, <1>5, <1>6

\* A response that reaches the backend.
LEMMA ResponseArrivesKeeps ==
  ASSUME NodeInv, NEW c \in Commands, ResponseArrives(c)
  PROVE  SwarmqInv' /\ RemoteInv' /\ OthersInv'
<1>1. c.tx \in Good
  BY DEF ResponseArrives, Commands
<1>2. RemoteInv'
  BY <1>1, StoredKeeps DEF ResponseArrives, RemoteInv
<1>3. SwarmqInv'
  BY <1>1, DeliversKeeps DEF ResponseArrives
<1>4. QED
  BY <1>2, <1>3, FrameKeeps DEF ResponseArrives

\* An update of the sender that reaches the backend.
LEMMA UpdateArrivesKeeps ==
  ASSUME NodeInv, NEW c \in Commands, UpdateArrives(c)
  PROVE  SwarmqInv' /\ RemoteInv' /\ OthersInv'
<1>1. c.tx \in Good
  BY DEF UpdateArrives, Commands
<1>2. remote' = Stored(c.tx) \/ remote' = remote
  BY DEF UpdateArrives
<1>3. RemoteInv'
  BY <1>1, <1>2, StoredKeeps, FrameKeeps DEF RemoteInv
<1>4. QED
  BY <1>3, FrameKeeps DEF UpdateArrives

\* A fetch that reaches the backend.
LEMMA FetchArrivesKeeps ==
  ASSUME NodeInv, NEW c, FetchArrives(c)
  PROVE  SwarmqInv' /\ RemoteInv' /\ OthersInv'
<1> DEFINE S == {t \in remote : Me \in {t.sender, t.receiver} /\ ~IsReverted(t)}
<1>1. /\ UNCHANGED <<remote, others>>
      /\ \/ UNCHANGED swarmq
         \/ \E ts \in SetToSeqs(S) :
              swarmq' = Append(swarmq, [type |-> "pending", txs |-> ts])
  BY DEF FetchArrives
<1>2. S \in SUBSET remote
  OBVIOUS
<1> HIDE DEF S
<1>3. ASSUME NEW ts \in SetToSeqs(S),
             swarmq' = Append(swarmq, [type |-> "pending", txs |-> ts])
      PROVE  SwarmqInv'
  <2> DEFINE msg == [type |-> "pending", txs |-> ts]
  <2>1. msg \in Messages
    BY <1>2, FetchedAreGood
  <2>2. swarmq' = Append(swarmq, msg)
    BY <1>3
  <2> HIDE DEF msg
  <2>3. QED
    BY <2>1, <2>2 DEF NodeInv, SwarmqInv
<1>4. QED
  BY <1>1, <1>3, FrameKeeps

\* Whatever becomes of a request to the backend keeps the invariant.
LEMMA ArrivalKeeps ==
  ASSUME NodeInv, Arrival
  PROVE  NodeInv'
<1>1. PICK c \in inflight :
        /\ \/ RequestArrives(c) \/ ResponseArrives(c) \/ UpdateArrives(c)
           \/ CloseArrives(c) \/ FetchArrives(c)
           \/ UNCHANGED <<swarmq, remote, linked, others>>
        /\ inflight' = inflight \ {c} /\ UNCHANGED <<node, link>>
  BY DEF Arrival
<1>2. c \in Commands
  BY DEF NodeInv, EnvironmentInv, InflightInv
<1>3. InflightInv'
  BY <1>1 DEF NodeInv, EnvironmentInv, InflightInv
<1>4. SwarmqInv' /\ RemoteInv' /\ OthersInv'
  <2>1. CASE CloseArrives(c) \/ UNCHANGED <<swarmq, remote, linked, others>>
    BY <2>1, FrameKeeps DEF CloseArrives
  <2>2. QED
    BY <1>1, <1>2, <2>1, RequestArrivesKeeps, ResponseArrivesKeeps,
       UpdateArrivesKeeps, FetchArrivesKeeps
<1>5. EnvironmentInv'
  BY <1>1, <1>3, <1>4, FrameKeeps DEF EnvironmentInv
<1>6. QED
  BY <1>1, <1>4, <1>5, EnvironmentSuffices

\* The end of the connection's loop keeps the invariant.
LEMMA LinkFailsKeeps ==
  ASSUME NodeInv, LinkFails
  PROVE  NodeInv'
<1>1. LinkInv'
  BY DEF LinkFails, LinkInv
<1>2. SwarmqInv' /\ EnvironmentInv'
  BY <1>1, FrameKeeps DEF LinkFails, EnvironmentInv
<1>3. QED
  BY <1>2, EnvironmentSuffices DEF LinkFails

\* The answer of another node keeps the invariant.
LEMMA PeerRespondsKeeps ==
  ASSUME NodeInv, NEW t \in others.asked, NEW s \in Signatures,
         NEW b \in Matches, PeerResponds(t, s, b)
  PROVE  NodeInv'
<1> DEFINE u == Answer(t, s)
           a == [u EXCEPT !.matching = b]
           x == [Bump(With(t, "RecvAddrConfirmed")) EXCEPT !.recv = s,
                                                           !.matching = b]
<1>1. t \in Good
  BY DEF NodeInv, EnvironmentInv, OthersInv, Fresh
<1>2. u \in Good
  BY <1>1, AnswerIsGood
<1>3. a \in Good
  <2> HIDE DEF u
  <2>1. QED
    BY <1>2, MatchingIsGood
<1>4. x = a
  BY DEF Answer
<1>5. /\ remote' = Stored(x) /\ Delivers("response", x, t.sender = Me)
      /\ others' = [others EXCEPT !.asked = @ \ {t}]
      /\ UNCHANGED <<node, link, inflight, linked>>
  BY DEF PeerResponds
<1> HIDE DEF u, a, x
<1>6. RemoteInv'
  BY <1>3, <1>4, <1>5, StoredKeeps DEF RemoteInv
<1>7. SwarmqInv'
  BY <1>3, <1>4, <1>5, DeliversKeeps
<1>8. OthersInv'
  BY <1>5 DEF NodeInv, EnvironmentInv, OthersInv
<1>9. EnvironmentInv'
  BY <1>5, <1>6, <1>8, FrameKeeps DEF EnvironmentInv
<1>10. QED
  BY <1>5, <1>7, <1>9, EnvironmentSuffices

\* The request of another node keeps the invariant.
LEMMA PeerRequestsKeeps ==
  ASSUME NodeInv, NEW m \in Routes, NEW n \in others.nonces, PeerRequests(m, n)
  PROVE  NodeInv'
<1> DEFINE t == Genesis(m, n)
<1>1. n \in Nonces
  BY DEF NodeInv, EnvironmentInv, OthersInv
<1>2. t \in Good
  BY <1>1, GenesisIsFresh DEF Fresh
<1>3. /\ remote' = Stored(t) /\ Delivers("request", t, TRUE)
      /\ others' = [others EXCEPT !.nonces = @ \ {n}]
      /\ UNCHANGED <<node, link, inflight>>
  BY DEF PeerRequests
<1> HIDE DEF t
<1>4. RemoteInv'
  BY <1>2, <1>3, StoredKeeps DEF RemoteInv
<1>5. SwarmqInv'
  BY <1>2, <1>3, DeliversKeeps
<1>6. OthersInv'
  BY <1>3 DEF NodeInv, EnvironmentInv, OthersInv
<1>7. EnvironmentInv'
  BY <1>3, <1>4, <1>6, FrameKeeps DEF EnvironmentInv
<1>8. QED
  BY <1>3, <1>5, <1>7, EnvironmentSuffices

\* Whatever the backend and the other nodes do keeps the invariant.
LEMMA EnvironmentKeeps ==
  ASSUME NodeInv, Environment
  PROVE  NodeInv'
BY ArrivalKeeps, LinkFailsKeeps, PeerRespondsKeeps, PeerRequestsKeeps
   DEF Environment

-----------------------------------------------------------------------------
(* The theorems *)

\* A node that has just started satisfies the invariant.
LEMMA NodeInvInit == NodeInit => NodeInv
<1> SUFFICES ASSUME NodeInit PROVE NodeInv
  OBVIOUS
<1>1. <<>> \in Caches
  BY NodeAssumption DEF Caches, HasOneKeyEach
<1>2. CacheInv /\ UserqInv /\ RpcqInv /\ SwarmqInv /\ CommandsInv
  BY <1>1, NodeAssumption
     DEF NodeInit, CacheInv, UserqInv, RpcqInv, SwarmqInv, CommandsInv
<1>3. DispatcherInv /\ HandlerInv
  BY DEF NodeInit, Idle, DispatcherInv, HandlerInv, TaskOK
<1>4. WatcherInv
  BY DEF NodeInit, WatcherInv
<1>5. FetchInv /\ PanicInv
  BY DEF NodeInit, FetchInv, PanicInv
<1>6. TableInv /\ HistoryInv
  BY DEF NodeInit, TableInv, HistoryInv
<1>7. RemoteInv /\ InflightInv
  BY FS_EmptySet DEF NodeInit, RemoteInv, InflightInv
<1>8. OthersInv /\ LinkInv
  BY NodeAssumption DEF NodeInit, OthersInv, LinkInv
<1>9. QED
  BY <1>2, <1>3, <1>4, <1>5, <1>6, <1>7, <1>8 DEF NodeInv, EnvironmentInv

\* Every step keeps the invariant.
LEMMA NodeInvStep == NodeInv /\ [NodeNext]_nodeVars => NodeInv'
<1> SUFFICES ASSUME NodeInv, [NodeNext]_nodeVars PROVE NodeInv'
  OBVIOUS
<1>1. CASE UNCHANGED nodeVars
  BY <1>1, FrameKeeps DEF nodeVars, memory, queues, tasks, history, NodeInv
<1>2. CASE \E a \in Profile : AddAccount(a)
  BY <1>2, AddAccountKeeps
<1>3. CASE TaskStep
  BY <1>3, AskKeeps, FetchEndKeeps, WatchKeeps, TakeCommandKeeps, DispatchKeeps,
     HandleSwarmKeeps DEF TaskStep, FetchAsks
<1>4. QED
  BY <1>1, <1>2, <1>3, ApiCallKeeps, EnvironmentKeeps DEF NodeNext

\* The invariant holds in every reachable state.
LEMMA NodeInvAlways == NodeSpec => []NodeInv
BY NodeInvInit, NodeInvStep, PTL DEF NodeSpec

\* The accounts that the database knows are the user's, the one the node was
\* started with among them.
ProfileInv == Me \in profile /\ profile \subseteq Profile

\* The user's profile is typed in every reachable state.
LEMMA ProfileAlways == NodeSpec => []ProfileInv
<1>1. NodeInit => ProfileInv
  BY DEF NodeInit, ProfileInv
<1>2. ProfileInv /\ [NodeNext]_nodeVars => ProfileInv'
  <2> SUFFICES ASSUME ProfileInv, [NodeNext]_nodeVars PROVE ProfileInv'
    OBVIOUS
  <2>1. CASE profile' = profile
    BY <2>1 DEF ProfileInv
  <2>2. CASE \E a \in Profile : AddAccount(a)
    BY <2>2 DEF AddAccount, ProfileInv
  <2>3. QED
    BY <2>1, <2>2 DEF NodeNext, nodeVars
<1>3. QED
  BY <1>1, <1>2, PTL DEF NodeSpec

\* The node's state keeps its type, for any number of accounts, calls and
\* transactions and any sizes of its queues: the cache never holds two entries
\* of one key nor more than its capacity, and the channels to the watcher and to
\* the connection never more than their own, whatever waits for room in them
\* (LruCache::push, rpc_sender_channel, command_tx).
THEOREM NodeTypeCorrect == NodeSpec => []NodeTypeOK
<1>1. NodeInv /\ ProfileInv => NodeTypeOK
  <2> SUFFICES ASSUME NodeInv, ProfileInv PROVE NodeTypeOK
    OBVIOUS
  <2>1. /\ cache \in Seq(Entries) /\ Len(cache) <= CacheCap
        /\ Cardinality(Keys) = Len(cache)
    BY KeysOfCache DEF NodeInv, CacheInv, Caches
  <2>2. \A k \in DOMAIN cache : /\ cache[k].tx \in NodeTx
                                /\ cache[k].ttl \in {"now", "epoch"}
    <3>1. \A k \in DOMAIN cache : cache[k] \in Entries
      BY <2>1
    <3>2. \A e \in Entries : e.tx \in NodeTx /\ e.ttl \in {"now", "epoch"}
      BY DEF Entries, Good
    <3>3. QED
      BY <3>1, <3>2
  <2>3. Range(userq) \cup Range(rpcq) \subseteq NodeTx
    BY DEF NodeInv, UserqInv, RpcqInv, Range, Good
  <2>4. shown \cup submitted \cup remote \subseteq NodeTx
    BY DEF NodeInv, HistoryInv, EnvironmentInv, RemoteInv, Good
  <2>5. panicked \in BOOLEAN
    BY DEF NodeInv, PanicInv
  <2>6. QED
    BY <2>1, <2>2, <2>3, <2>4, <2>5
       DEF NodeTypeOK, NodeInv, EnvironmentInv, ProfileInv, UserqInv, RpcqInv,
           CommandsInv, DispatcherInv, HandlerInv, WatcherInv, FetchInv,
           LinkInv, TableInv
<1>2. QED
  BY <1>1, NodeInvAlways, ProfileAlways, PTL

\* Whoever confirms, however late or often, nothing is shown as ready for the
\* sender, nor handed to JavaScript to create, without a signature of the
\* receiver that verifies, for any number of accounts, calls and transactions
\* (handle_recv_addr_confirmed_tx_state, handle_swarm_message).
THEOREM ReadyIsVerified == NodeSpec => []ReadyMeansVerified
<1>1. NodeInv => ReadyMeansVerified
  <2> SUFFICES ASSUME NodeInv PROVE ReadyMeansVerified
    OBVIOUS
  <2>1. \A t \in Good :
          t.status = "RecvAddrConfirmationPassed" => t.recv = "valid"
    BY DEF Good, Sound
  <2>2. shown \subseteq Good /\ Range(rpcq) \subseteq Good
    BY DEF NodeInv, HistoryInv, RpcqInv, Range
  <2>3. Range(cache) \subseteq Entries
    BY DEF NodeInv, CacheInv, Caches, Range
  <2>4. \A e \in Entries : e.tx \in Good
    BY DEF Entries
  <2>5. TaskOK(dispatcher) /\ TaskOK(handler)
    BY DEF NodeInv, DispatcherInv, HandlerInv
  <2>6. QED
    BY <2>1, <2>2, <2>3, <2>4, <2>5 DEF ReadyMeansVerified, TaskOK
<1>2. QED
  BY <1>1, NodeInvAlways, PTL
=============================================================================
