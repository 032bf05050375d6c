---------------------------- MODULE RelayProofs ----------------------------
(***************************************************************************)
(* Proofs about the relay: what its metric service shows agrees with the   *)
(* circuits and reservations of libp2p, for any number of pairs and peers; *)
(* and about the store of client metrics: its counters and lists agree     *)
(* with what the clients have exported, in whatever order and however      *)
(* often exports arrive.                                                   *)
(***************************************************************************)
EXTENDS Relay, FoldProofs

-----------------------------------------------------------------------------
(* Merging the failed transactions *)

\* One step of a merge.
MergeStep == [p \in Seq(Hashes) \X Hashes |-> AddNew(p[1], p[2])]

\* It goes through the list element by element.
LEMMA MergeRuns ==
  ASSUME NEW s \in Seq(Hashes), NEW listed \in Seq(Hashes)
  PROVE  RunsTo(s, Seq(Hashes), listed, MergeStep, MergeFailed(listed, s))
<1> DEFINE n == Len(s)
           V == Seq(Hashes)
           z == listed
           f == MergeStep
           P(it) == it = [t \in SUBSET (1..n) |->
                            IF t = {} THEN z
                            ELSE AddNew(it[t \ {Max(t)}], s[Max(t)])]
           it == CHOOSE it : P(it)
<1>0. z \in V /\ \A v \in V, e \in Hashes : AddNew(v, e) \in V
  BY  DEF AddNew
<1>1. f \in [V \X Hashes -> V] /\ z \in V
  BY <1>0 DEF MergeStep
<1>2. \A v \in V, e \in Hashes : f[<<v, e>>] = AddNew(v, e)
  BY DEF MergeStep
<1>3. n \in Nat /\ DOMAIN s = 1..n /\ \A k \in 1..n : s[k] \in Hashes
  OBVIOUS
<1> HIDE DEF n, f, V
<1>4. \A t \in (SUBSET (1..n)) \ {{}} :
        Max(t) \in 1..n /\ t \ {Max(t)} \in SUBSET (1..n)
  BY <1>3, MaxOfSet
<1>5. PICK w \in [SUBSET (1..n) -> V] : FoldsSeq(w, s, V, z, f)
  <2> HIDE DEF z
  <2>1. QED
    BY <1>1, FoldsSeqExists DEF n
<1>6. P(w)
  <2>1. \A t \in (SUBSET (1..n)) \ {{}} :
          w[t] = AddNew(w[t \ {Max(t)}], s[Max(t)])
    BY <1>2, <1>3, <1>4, <1>5 DEF FoldsSeq, n
  <2>2. w[{}] = z
    BY <1>5 DEF FoldsSeq
  <2>3. QED
    BY <2>1, <2>2
<1>7. P(it)
  <2> HIDE DEF P
  <2> QED BY <1>6
<1>8. MergeFailed(listed, s) = it[1..n]
  BY <1>3 DEF MergeFailed, FoldLeft, MapThenFoldSet
<1>9. FoldsSeq(it, s, V, z, f)
  <2> HIDE DEF it
  <2>1. \A t \in (SUBSET (1..n)) \ {{}} :
          it[t] = AddNew(it[t \ {Max(t)}], s[Max(t)])
    BY <1>7
  <2>2. it[{}] = z
    BY <1>7
  <2>3. QED
    BY <1>2, <1>3, <1>4, <2>1, <2>2 DEF FoldsSeq, n
<1> HIDE DEF it, z
<1>10. RunsTo(s, V, z, f, it[1..Len(s)])
  BY <1>1, <1>9, FoldsSeqRuns
<1>11. QED
  BY <1>8, <1>10 DEF n, V, f, z

\* A merge with a transaction more, and with none.
LEMMA MergeAppend ==
  ASSUME NEW listed \in Seq(Hashes)
  PROVE  /\ MergeFailed(listed, <<>>) = listed
         /\ \A s \in Seq(Hashes), e \in Hashes :
              /\ MergeFailed(listed, s) \in Seq(Hashes)
              /\ MergeFailed(listed, Append(s, e)) = AddNew(MergeFailed(listed, s), e)
<1> DEFINE f == MergeStep
           V == Seq(Hashes)
           z == listed
<1>1. \A v \in V, e \in Hashes : f[<<v, e>>] = AddNew(v, e)
  BY DEF MergeStep
<1> HIDE DEF f
<1>2. MergeFailed(listed, <<>>) = z
  <2>1. <<>> \in Seq(Hashes)
    OBVIOUS
  <2>2. RunsTo(<<>>, V, z, f, MergeFailed(listed, <<>>))
    BY <2>1, MergeRuns DEF f
  <2>3. QED
    BY <2>2, RunsToEmpty
<1>3. ASSUME NEW s \in Seq(Hashes), NEW e \in Hashes
      PROVE  /\ MergeFailed(listed, s) \in V
             /\ MergeFailed(listed, Append(s, e)) = AddNew(MergeFailed(listed, s), e)
  <2>1. RunsTo(s, V, z, f, MergeFailed(listed, s))
    BY MergeRuns DEF f
  <2>2. Append(s, e) \in Seq(Hashes)
    OBVIOUS
  <2>3. RunsTo(Append(s, e), V, z, f, MergeFailed(listed, Append(s, e)))
    BY <2>2, MergeRuns DEF f
  <2> HIDE DEF V, z
  <2>4. /\ MergeFailed(listed, s) \in V
        /\ MergeFailed(listed, Append(s, e)) = f[<<MergeFailed(listed, s), e>>]
    BY <2>1, <2>3, RunsToAppend
  <2>5. QED
    BY <1>1, <2>4
<1>4. QED
  BY <1>2, <1>3

\* A merged list has the hashes of both, each once if it had each once before.
LEMMA MergeIsUnion ==
  ASSUME NEW listed \in Seq(Hashes), NEW failed \in Seq(Hashes),
         IsInjective(listed)
  PROVE  /\ MergeFailed(listed, failed) \in Seq(Hashes)
         /\ IsInjective(MergeFailed(listed, failed))
         /\ Range(MergeFailed(listed, failed)) = Range(listed) \cup Range(failed)
<1> DEFINE M(f) == MergeFailed(listed, f)
           N == { f \in Seq(Hashes) :
                    /\ M(f) \in Seq(Hashes) /\ IsInjective(M(f))
                    /\ Range(M(f)) = Range(listed) \cup Range(f) }
<1>1. <<>> \in N
  <2>1. M(<<>>) = listed /\ Range(<<>>) = {}
    BY MergeAppend DEF Range
  <2>2. QED
    BY <2>1
<1>2. ASSUME NEW f \in Seq(Hashes), NEW h \in Hashes, f \in N
      PROVE  Append(f, h) \in N
  <2> DEFINE l == M(f)
             k == M(Append(f, h))
  <2>1. /\ l \in Seq(Hashes) /\ IsInjective(l)
        /\ Range(l) = Range(listed) \cup Range(f)
    BY <1>2
  <2>2. k = AddNew(l, h)
    BY MergeAppend
  <2>3. Range(Append(f, h)) = Range(f) \cup {h} /\ Append(f, h) \in Seq(Hashes)
    BY RangeOfAppend
  <2> HIDE DEF l, k
  <2>4. CASE h \in Range(l)
    <3>1. k = l
      BY <2>2, <2>4 DEF AddNew
    <3>2. Range(l) = Range(listed) \cup Range(Append(f, h))
      BY <2>1, <2>3, <2>4
    <3>3. QED
      BY <2>1, <2>3, <3>1, <3>2 DEF l, k
  <2>5. CASE h \notin Range(l)
    <3>1. k = Append(l, h)
      BY <2>2, <2>5 DEF AddNew
    <3>2. k \in Seq(Hashes) /\ Range(k) = Range(l) \cup {h}
      BY <2>1, <3>1, RangeOfAppend
    <3>3. IsInjective(k)
      BY <2>1, <2>5, <3>1 DEF IsInjective, Range
    <3>4. Range(k) = Range(listed) \cup Range(Append(f, h))
      BY <2>1, <2>3, <3>2
    <3>5. QED
      BY <2>3, <3>2, <3>3, <3>4 DEF k
  <2>6. QED
    BY <2>4, <2>5
<1>3. Seq(Hashes) \subseteq N
  <2> HIDE DEF N
  <2>1. QED
    BY <1>1, <1>2, SeqInduction
<1>4. QED
  BY <1>3

-----------------------------------------------------------------------------
(* What is counted *)

\* The greatest of a bounded set of numbers.
LEMMA MaxOfNumbers ==
  ASSUME NEW n \in Nat, NEW S \in SUBSET (0..n), S # {}
  PROVE  Max(S) \in S /\ \A y \in S : y <= Max(S)
<1> DEFINE T == {n - y : y \in S}
<1>1. T \subseteq Nat /\ T # {}
  <2>1. \A y \in S : n - y \in Nat
    OBVIOUS
  <2>2. QED
    BY <2>1
<1> HIDE DEF T
<1>2. PICK k \in T : \A m \in T : k <= m
  BY <1>1, LeastNumber
<1>3. PICK y \in S : k = n - y
  BY DEF T
<1>4. \A z \in S : n - z \in T
  BY DEF T
<1>5. \A z \in S : y >= z
  BY <1>2, <1>3, <1>4
<1>6. Max(S) \in S /\ \A z \in S : Max(S) >= z
  BY <1>5 DEF Max
<1>7. QED
  BY <1>6

\* The greatest with a number more.
LEMMA MaxWithOneMore ==
  ASSUME NEW n \in Nat, NEW S \in SUBSET (0..n), NEW c \in 0..n
  PROVE  Max(S \cup {c}) = IF S = {} \/ c >= Max(S) THEN c ELSE Max(S)
<1> DEFINE T == S \cup {c}
<1>1. T \in SUBSET (0..n) /\ T # {}
  OBVIOUS
<1>2. Max(T) \in T /\ \A y \in T : y <= Max(T)
  <2> HIDE DEF T
  <2>1. QED
    BY <1>1, MaxOfNumbers
<1>3. CASE S = {}
  BY <1>2, <1>3
<1>4. CASE S # {}
  <2>1. Max(S) \in S /\ \A y \in S : y <= Max(S)
    BY <1>4, MaxOfNumbers
  <2>2. Max(S) \in 0..n /\ Max(T) \in 0..n /\ Max(S) \in T /\ c \in T
    BY <1>1, <1>2, <2>1
  <2>3. Max(S) <= Max(T) /\ c <= Max(T) /\ (Max(T) = c \/ Max(T) <= Max(S))
    BY <1>2, <2>1, <2>2
  <2>4. QED
    BY <1>4, <2>2, <2>3
<1>5. QED
  BY <1>3, <1>4

\* A sum of which one term changes or is new.
LEMMA SumPut ==
  ASSUME NEW S, IsFiniteSet(S), NEW x, NEW f \in [S -> Nat],
         NEW g \in [S \cup {x} -> Nat], \A y \in S \ {x} : f[y] = g[y]
  PROVE  SumFunction(g) + (IF x \in S THEN f[x] ELSE 0) = SumFunction(f) + g[x]
<1>1. CASE x \in S
  <2>1. S \cup {x} = S
    BY <1>1
  <2>2. g \in [S -> Nat]
    BY <2>1
  <2>3. QED
    BY <1>1, <2>2, SumChange
<1>2. CASE x \notin S
  <2>1. SumFunction(g) = g[x] + SumFunction(f)
    BY <1>2, SumOneMore
  <2>2. SumFunction(f) \in Nat /\ g[x] \in Nat
    BY SumIsNumber
  <2>3. QED
    BY <1>2, <2>1, <2>2
<1>3. QED
  BY <1>1, <1>2

\* The most that the exports of  G  report for an account.
ValuesOf(val, G, a) == {val[y] : y \in {z \in G : AccountOf(z) = a}}
Most(val, G, a) == Max(ValuesOf(val, G, a))

\* Accounts that have reported, and the sum of the most they have.
KeysOf(G) == {AccountOf(y) : y \in G}
MostOfAll(val, G) == SumFunction([a \in KeysOf(G) |-> Most(val, G, a)])

\* Reports of no more than an export holds.
Bounded(val, G) == \A y \in G : val[y] \in 0..MaxTx

\* A report more may be of a new account, and changes nothing for the others.
LEMMA KeysWithOneMore ==
  ASSUME NEW G, NEW x
  PROVE  KeysOf(G \cup {x}) = KeysOf(G) \cup {AccountOf(x)}
  BY DEF KeysOf

\* A report of one account does not change the greatest of another.
LEMMA OthersKeepMost ==
  ASSUME NEW val, NEW G, NEW x, NEW a, a # AccountOf(x)
  PROVE  Most(val, G \cup {x}, a) = Most(val, G, a)
<1>1. ValuesOf(val, G \cup {x}, a) = ValuesOf(val, G, a)
  BY DEF ValuesOf
<1>2. QED
  BY <1>1 DEF Most

\* For its own account the most is what it was, or the new report.
LEMMA MostWithOneMore ==
  ASSUME NEW val, NEW G, NEW x, Bounded(val, G \cup {x})
  PROVE  /\ \A a \in KeysOf(G) : /\ Most(val, G, a) \in 0..MaxTx
                                 /\ \A y \in G : AccountOf(y) = a =>
                                      val[y] <= Most(val, G, a)
         /\ Most(val, G \cup {x}, AccountOf(x))
              = IF /\ AccountOf(x) \in KeysOf(G)
                   /\ Most(val, G, AccountOf(x)) > val[x]
                THEN Most(val, G, AccountOf(x)) ELSE val[x]
<1> DEFINE H == G \cup {x}
<1>0. MaxTx \in Nat
  BY MetricsAssumption
<1>1. val[x] \in 0..MaxTx /\ \A a : ValuesOf(val, G, a) \in SUBSET (0..MaxTx)
  BY DEF ValuesOf, Bounded
<1>2. \A a : a \in KeysOf(G) <=> ValuesOf(val, G, a) # {}
  BY DEF ValuesOf, KeysOf
<1>5. ValuesOf(val, H, AccountOf(x))
        = ValuesOf(val, G, AccountOf(x)) \cup {val[x]}
  BY DEF ValuesOf
<1>6. \A a, y : y \in G /\ AccountOf(y) = a => val[y] \in ValuesOf(val, G, a)
  BY DEF ValuesOf
<1>7. ASSUME NEW a \in KeysOf(G)
      PROVE  /\ Most(val, G, a) \in 0..MaxTx
             /\ \A y \in G : AccountOf(y) = a => val[y] <= Most(val, G, a)
  <2> DEFINE S == ValuesOf(val, G, a)
  <2>1. S \in SUBSET (0..MaxTx) /\ S # {}
    BY <1>1, <1>2
  <2>2. \A y \in G : AccountOf(y) = a => val[y] \in S
    BY <1>6
  <2> HIDE DEF S
  <2>3. Max(S) \in S /\ \A v \in S : v <= Max(S)
    BY <1>0, <2>1, MaxOfNumbers
  <2>4. QED
    BY <2>1, <2>2, <2>3 DEF S, Most
<1>8. Most(val, H, AccountOf(x))
        = IF /\ AccountOf(x) \in KeysOf(G)
             /\ Most(val, G, AccountOf(x)) > val[x]
          THEN Most(val, G, AccountOf(x)) ELSE val[x]
  <2> DEFINE a == AccountOf(x)
             S == ValuesOf(val, G, a)
             c == val[x]
  <2>0. a \in KeysOf(G) <=> S # {}
    BY <1>2
  <2>1. S \in SUBSET (0..MaxTx) /\ c \in 0..MaxTx
    BY <1>1
  <2> HIDE DEF S, c, a
  <2>2. Max(S \cup {c}) = IF S = {} \/ c >= Max(S) THEN c ELSE Max(S)
    BY <1>0, <2>1, MaxWithOneMore
  <2>3. ASSUME S # {} PROVE Max(S) \in Nat
    <3>1. Max(S) \in S
      BY <1>0, <2>1, <2>3, MaxOfNumbers
    <3>2. \A v \in S : v \in Nat
      BY <1>0, <2>1
    <3>3. QED
      BY <3>1, <3>2
  <2>4. Max(S \cup {c}) = IF a \in KeysOf(G) /\ Max(S) > c THEN Max(S) ELSE c
    <3>1. c \in Nat
      BY <1>0, <2>1
    <3>2. CASE S = {}
      BY <2>0, <2>2, <3>2
    <3>3. CASE S # {}
      BY <2>0, <2>2, <2>3, <3>1, <3>3
    <3>4. QED
      BY <3>2, <3>3
  <2>5. Most(val, H, a) = Max(S \cup {c}) /\ Most(val, G, a) = Max(S)
    BY <1>5 DEF S, c, a, Most
  <2>6. QED
    BY <2>4, <2>5 DEF c, a
<1>9. QED
  BY <1>7, <1>8

\* What an export adds to a counter, last being the value of the account's last
\* export: at least what is new, and no more if it is not an older one.
LEMMA CountStep ==
  ASSUME NEW val, NEW G, NEW x, Bounded(val, G \cup {x}),
         IsFiniteSet(KeysOf(G)),
         NEW total \in Nat, NEW last \in Nat,
         AccountOf(x) \in KeysOf(G) => last <= Most(val, G, AccountOf(x)),
         AccountOf(x) \notin KeysOf(G) => last = 0
  PROVE  /\ total >= MostOfAll(val, G) =>
              total + SaturatingSub(val[x], last) >= MostOfAll(val, G \cup {x})
         /\ /\ total <= MostOfAll(val, G) /\ last <= val[x]
            /\ AccountOf(x) \in KeysOf(G) => last = Most(val, G, AccountOf(x))
            => /\ total + SaturatingSub(val[x], last)
                    <= MostOfAll(val, G \cup {x})
               /\ Most(val, G \cup {x}, AccountOf(x)) = val[x]
<1>m. KeysOf(G \cup {x}) = KeysOf(G) \cup {AccountOf(x)}
  BY KeysWithOneMore
<1>n. \A k \in KeysOf(G) : Most(val, G, k) \in 0..MaxTx
  BY MostWithOneMore
<1>o. \A k : k # AccountOf(x) => Most(val, G \cup {x}, k) = Most(val, G, k)
  BY OthersKeepMost
<1>p. Most(val, G \cup {x}, AccountOf(x))
        = IF /\ AccountOf(x) \in KeysOf(G)
             /\ Most(val, G, AccountOf(x)) > val[x]
          THEN Most(val, G, AccountOf(x)) ELSE val[x]
  BY MostWithOneMore
<1> DEFINE H == G \cup {x}
           a == AccountOf(x)
           K == KeysOf(G)
           f == [k \in K |-> Most(val, G, k)]
           g == [k \in K \cup {a} |-> Most(val, H, k)]
           c == val[x]
           old == IF a \in K THEN Most(val, G, a) ELSE 0
           new == Most(val, H, a)
<1>0. MaxTx \in Nat
  BY MetricsAssumption
<1>b. c \in 0..MaxTx
  BY DEF Bounded
<1>1. /\ KeysOf(H) = K \cup {a}
      /\ \A k \in K : Most(val, G, k) \in 0..MaxTx
      /\ \A k : k # a => Most(val, H, k) = Most(val, G, k)
      /\ new = IF a \in K /\ Most(val, G, a) > c THEN Most(val, G, a) ELSE c
  BY <1>m, <1>n, <1>o, <1>p
<1>2. c \in Nat /\ new \in Nat /\ old \in Nat
      /\ new = IF old > c THEN old ELSE c
  BY <1>0, <1>b, <1>1
<1>3. f \in [K -> Nat] /\ g \in [K \cup {a} -> Nat]
      /\ \A k \in K \ {a} : f[k] = g[k]
  BY <1>0, <1>1, <1>2
<1>4. /\ MostOfAll(val, G) = SumFunction(f) /\ MostOfAll(val, H) = SumFunction(g)
      /\ g[a] = new /\ old = IF a \in K THEN f[a] ELSE 0
  BY <1>1 DEF MostOfAll
<1>5. last <= old /\ (a \in K => old = Most(val, G, a)) /\ (a \notin K => old = 0)
      /\ IsFiniteSet(K)
  OBVIOUS
<1> HIDE DEF f, g, K, a, c, old, new, H
<1>6. SumFunction(g) + (IF a \in K THEN f[a] ELSE 0) = SumFunction(f) + g[a]
  BY <1>3, <1>5, SumPut
<1>7. SumFunction(f) \in Nat
  BY <1>3, <1>5, SumIsNumber
<1>8. SumFunction(g) \in Nat
  BY <1>3, <1>5, FS_AddElement, SumIsNumber
<1>9. SumFunction(g) + old = SumFunction(f) + new
  BY <1>4, <1>6
<1>10. total >= SumFunction(f)
         => total + SaturatingSub(c, last) >= SumFunction(g)
  BY <1>2, <1>5, <1>7, <1>8, <1>9 DEF SaturatingSub
<1>11. total <= SumFunction(f) /\ last <= c /\ last = old
         => total + SaturatingSub(c, last) <= SumFunction(g) /\ new = c
  BY <1>2, <1>5, <1>7, <1>8, <1>9 DEF SaturatingSub
<1>12. (a \in K => last = Most(val, G, a)) => last = old
  BY <1>5 DEF a, K
<1>13. QED
  BY <1>4, <1>10, <1>11, <1>12 DEF a, c, K, H, new

-----------------------------------------------------------------------------
(* The store of client metrics *)

\* What an export reports.
SuccessOf == [x \in Export |-> x.success]
FailedOf == [x \in Export |-> Len(x.failed)]

\* Types of an export.
LEMMA ExportType ==
  ASSUME NEW x \in Export
  PROVE  /\ x.success \in 0..MaxTx /\ Len(x.failed) \in 0..MaxTx
         /\ x.success + Len(x.failed) <= MaxTx
         /\ x.failed \in Seq(Hashes)
         /\ SuccessOf[x] = x.success /\ FailedOf[x] = Len(x.failed)
<1>0. MaxTx \in Nat
  BY MetricsAssumption
<1>1. x.success \in 0..MaxTx /\ x.failed \in SeqOf(Hashes, MaxTx)
      /\ x.success + Len(x.failed) <= MaxTx
  BY DEF Export
<1>2. PICK m \in 0..MaxTx : x.failed \in [1..m -> Hashes]
  BY <1>1 DEF SeqOf
<1>3. x.failed \in Seq(Hashes) /\ Len(x.failed) = m
  BY <1>0, <1>2
<1>4. QED
  BY <1>1, <1>2, <1>3 DEF SuccessOf, FailedOf

\* The success rate of an export that has a transaction is a percentage.
LEMMA RateIsPercentage ==
  ASSUME NEW n \in Totals, n # NoTotals
  PROVE  SuccessRate(n) \in 0..100
<1> DEFINE s == n.success
           f == n.failed
           t == s + f
           a == 200 * s + t
           d == 2 * t
           q == a \div d
<1>0. MaxTx \in Nat
  BY MetricsAssumption
<1>1. s \in Nat /\ f \in Nat /\ n = [success |-> s, failed |-> f]
  BY <1>0 DEF Totals
<1>2. t \in Nat \ {0} /\ s <= t
  BY <1>1 DEF NoTotals
<1>3. SuccessRate(n) = q
  BY DEF SuccessRate
<1> HIDE DEF s, f, t
<1>4. a \in Nat /\ d \in Nat \ {0} /\ a < 101 * d
  BY <1>1, <1>2
<1> HIDE DEF a, d
<1>5. q \in Int /\ a % d \in 0..(d - 1) /\ a = d * q + (a % d)
  BY <1>4
<1> HIDE DEF q
<1>6. PICK r \in Nat : r < d /\ a = d * q + r
  BY <1>4, <1>5
<1>7. q >= 0
  <2>1. SUFFICES ASSUME q <= -1 PROVE FALSE
    BY <1>5
  <2>2. d * q <= -d
    BY <1>4, <1>5, <2>1
  <2>3. d * q \in Int
    BY <1>4, <1>5
  <2>4. QED
    BY <1>4, <1>6, <2>2, <2>3
<1>8. q <= 100
  <2>1. SUFFICES ASSUME q >= 101 PROVE FALSE
    BY <1>5
  <2>2. d * q >= 101 * d
    BY <1>4, <1>5, <2>1
  <2>3. d * q \in Int
    BY <1>4, <1>5
  <2>4. QED
    BY <1>4, <1>6, <2>2, <2>3
<1>9. QED
  BY <1>3, <1>5, <1>7, <1>8

\* What the exports have reported in the terms of the properties.
LEMMA NewestIsMost ==
  ASSUME handled \subseteq Export, HandledKeys = KeysOf(handled)
  PROVE  /\ \A a : Newest(a) = [ success |-> Most(SuccessOf, handled, a),
                                 failed |-> Most(FailedOf, handled, a) ]
         /\ SumFunction([a \in HandledKeys |-> Newest(a).success])
              = MostOfAll(SuccessOf, handled)
         /\ SumFunction([a \in HandledKeys |-> Newest(a).failed])
              = MostOfAll(FailedOf, handled)
<1>1. \A x \in handled : SuccessOf[x] = x.success /\ FailedOf[x] = Len(x.failed)
  BY ExportType
<1>2. ASSUME NEW a
      PROVE  /\ {x.success : x \in ExportsOf(a)} = ValuesOf(SuccessOf, handled, a)
             /\ {Len(x.failed) : x \in ExportsOf(a)}
                  = ValuesOf(FailedOf, handled, a)
  BY <1>1 DEF ExportsOf, ValuesOf
<1>3. \A a : /\ Newest(a).success = Most(SuccessOf, handled, a)
             /\ Newest(a).failed = Most(FailedOf, handled, a)
  BY <1>2 DEF Newest, Most
<1>4. \A a : Newest(a) = [ success |-> Most(SuccessOf, handled, a),
                           failed |-> Most(FailedOf, handled, a) ]
  BY <1>2 DEF Newest, Most
<1>5. /\ [a \in HandledKeys |-> Newest(a).success]
           = [a \in KeysOf(handled) |-> Most(SuccessOf, handled, a)]
      /\ [a \in HandledKeys |-> Newest(a).failed]
           = [a \in KeysOf(handled) |-> Most(FailedOf, handled, a)]
  BY <1>3
<1>6. QED
  BY <1>4, <1>5 DEF MostOfAll

\* A counter of the store is right: the account's last report is no more than
\* the most it reported, of which the counter holds at least the sum; and it is
\* exact if the last report is the most and the counter holds no more.
Counter(val, G, total, last) ==
  /\ total \in Nat
  /\ \A k \in KeysOf(G) : last[k] \in Nat /\ last[k] <= Most(val, G, k)
  /\ total >= MostOfAll(val, G)
Exact(val, G, total, last) ==
  /\ total <= MostOfAll(val, G)
  /\ \A k \in KeysOf(G) : last[k] = Most(val, G, k)

\* One more report moves the total by what the account has grown since the
\* last one: the total stays at least the sum of the greatest values, and equal
\* to it when the values of no account ever fall.
LEMMA CounterStep ==
  ASSUME NEW val, NEW G, NEW x, Bounded(val, G \cup {x}),
         IsFiniteSet(KeysOf(G)),
         NEW total, NEW last, Counter(val, G, total, last),
         NEW l, AccountOf(x) \in KeysOf(G) => l = last[AccountOf(x)],
         AccountOf(x) \notin KeysOf(G) => l = 0,
         NEW next, next[AccountOf(x)] = val[x],
         \A k \in KeysOf(G) \ {AccountOf(x)} : next[k] = last[k],
         NEW new, new = total + SaturatingSub(val[x], l)
  PROVE  /\ Counter(val, G \cup {x}, new, next)
         /\ Exact(val, G, total, last) /\ l <= val[x] =>
              Exact(val, G \cup {x}, new, next)
<1> DEFINE H == G \cup {x}
           a == AccountOf(x)
           K == KeysOf(G)
<1>0. val[x] \in Nat
  BY MetricsAssumption DEF Bounded
<1>1. /\ total \in Nat /\ total >= MostOfAll(val, G)
      /\ \A k \in K : last[k] \in Nat /\ last[k] <= Most(val, G, k)
  BY DEF Counter
<1>3. l \in Nat /\ (a \notin K => l = 0)
      /\ (a \in K => l = last[a] /\ l <= Most(val, G, a))
  BY <1>1
<1>4. new \in Nat
  BY <1>0, <1>1, <1>3 DEF SaturatingSub
<1>5. /\ new >= MostOfAll(val, H)
      /\ /\ total <= MostOfAll(val, G) /\ l <= val[x]
         /\ a \in K => l = Most(val, G, a)
         => new <= MostOfAll(val, H) /\ Most(val, H, a) = val[x]
  <2>1. l \in Nat /\ total \in Nat
        /\ (AccountOf(x) \in KeysOf(G) => l <= Most(val, G, AccountOf(x)))
        /\ (AccountOf(x) \notin KeysOf(G) => l = 0)
    BY <1>1, <1>3
  <2>2. /\ total >= MostOfAll(val, G) =>
             total + SaturatingSub(val[x], l) >= MostOfAll(val, G \cup {x})
        /\ /\ total <= MostOfAll(val, G) /\ l <= val[x]
           /\ AccountOf(x) \in KeysOf(G) => l = Most(val, G, AccountOf(x))
           => /\ total + SaturatingSub(val[x], l) <= MostOfAll(val, G \cup {x})
              /\ Most(val, G \cup {x}, AccountOf(x)) = val[x]
    BY <2>1, CountStep, ZenonT(30)
  <2>3. QED
    BY <1>1, <2>2
<1>6. KeysOf(H) = K \cup {a}
  BY KeysWithOneMore
<1>7. /\ \A k \in K : Most(val, G, k) \in 0..MaxTx
      /\ Most(val, H, a) = IF a \in K /\ Most(val, G, a) > val[x]
                           THEN Most(val, G, a) ELSE val[x]
  BY MostWithOneMore
<1>8. \A k \in KeysOf(H) : next[k] \in Nat /\ next[k] <= Most(val, H, k)
  <2> SUFFICES ASSUME NEW k \in K \cup {a}
               PROVE  next[k] \in Nat /\ next[k] <= Most(val, H, k)
    BY <1>6
  <2>1. CASE k = a
    <3>1. a \in K => Most(val, G, a) \in Nat
      BY <1>7, MetricsAssumption
    <3>2. val[x] <= Most(val, H, a)
      BY <1>0, <1>7, <3>1
    <3>3. QED
      BY <1>0, <2>1, <3>2
  <2>2. CASE k # a
    <3>1. k \in K /\ next[k] = last[k] /\ Most(val, H, k) = Most(val, G, k)
      BY <2>2, OthersKeepMost
    <3>2. QED
      BY <1>1, <3>1
  <2>3. QED
    BY <2>1, <2>2
<1>9. ASSUME Exact(val, G, total, last), l <= val[x]
      PROVE  Exact(val, H, new, next)
  <2>1. /\ total <= MostOfAll(val, G)
        /\ \A k \in K : last[k] = Most(val, G, k)
    BY <1>9 DEF Exact
  <2>2. a \in K => l = Most(val, G, a)
    BY <1>3, <2>1
  <2>3. new <= MostOfAll(val, H) /\ Most(val, H, a) = val[x]
    BY <1>5, <1>9, <2>1, <2>2
  <2>4. ASSUME NEW k \in K, k # a PROVE next[k] = Most(val, H, k)
    BY <2>1, <2>4, OthersKeepMost
  <2>5. QED
    BY <1>6, <2>3, <2>4 DEF Exact
<1>10. QED
  BY <1>4, <1>5, <1>8, <1>9 DEF Counter

\* The inductive invariant of the store.
LastSuccess == [k \in HandledKeys |-> store.last_totals[k].success]
LastFailed == [k \in HandledKeys |-> store.last_totals[k].failed]
SuccessCount ==
  /\ Counter(SuccessOf, handled, store.total_success_txs, LastSuccess)
  /\ ~olderSeen =>
       Exact(SuccessOf, handled, store.total_success_txs, LastSuccess)
FailedCount ==
  /\ Counter(FailedOf, handled, store.total_failed_txs, LastFailed)
  /\ ~olderSeen => Exact(FailedOf, handled, store.total_failed_txs, LastFailed)
MetricsInv ==
  /\ MetricsTypeOK
  /\ IsFiniteSet(HandledKeys)
  /\ SuccessCount /\ FailedCount
  /\ FailedAreListedOnce

\* A store with no export.
LEMMA MetricsInvInit == MetricsInit => MetricsInv
<1> SUFFICES ASSUME MetricsInit PROVE MetricsInv
  OBVIOUS
<1>1. /\ store = NewStore /\ updates = 0 /\ handled = {} /\ olderSeen = FALSE
      /\ MaxUpdates \in Nat
  BY MetricsAssumption DEF MetricsInit
<1>2. /\ store.last_totals = <<>> /\ store.per_client = <<>>
      /\ store.total_success_txs = 0 /\ store.total_failed_txs = 0
      /\ store.tx_success_rate_percent = 0
  BY <1>1 DEF NewStore
<1>3. DOMAIN <<>> = {} /\ Range(<<>>) = {} /\ HandledKeys = {}
      /\ KeysOf(handled) = {}
  BY <1>1, <1>2 DEF Range, HandledKeys, KeysOf
<1>4. MetricsTypeOK
  <2>1. handled \subseteq Export /\ updates \in 0..MaxUpdates
    BY <1>1
  <2>2. olderSeen \in BOOLEAN
    BY <1>1
  <2>3. DOMAIN store = DOMAIN NewStore
    BY <1>1
  <2>4. /\ DOMAIN store.last_totals = DOMAIN store.per_client
        /\ DOMAIN store.last_totals = {AccountOf(x) : x \in handled}
        /\ Range(store.last_totals) \subseteq Totals
        /\ Range(store.per_client) \subseteq Snapshot
    BY <1>2, <1>3 DEF KeysOf
  <2>5. /\ {store.total_success_txs, store.total_failed_txs} \subseteq Nat
        /\ store.tx_success_rate_percent \in 0..100
    BY <1>2
  <2>6. QED
    BY <2>1, <2>2, <2>3, <2>4, <2>5, Zenon DEF MetricsTypeOK
<1>5. IsFiniteSet(HandledKeys)
  BY <1>3, FS_EmptySet
<1>6. FailedAreListedOnce
  BY <1>3 DEF FailedAreListedOnce
<1>7. MostOfAll(SuccessOf, handled) = 0 /\ MostOfAll(FailedOf, handled) = 0
  <2>1. ASSUME NEW val PROVE MostOfAll(val, handled) = 0
    <3>1. [a \in KeysOf(handled) |-> Most(val, handled, a)] \in [{} -> Nat]
      BY <1>3
    <3>2. QED
      BY <3>1, SumOfNone DEF MostOfAll
  <2>2. QED
    BY <2>1
<1>8. SuccessCount /\ FailedCount
  BY <1>2, <1>3, <1>7 DEF SuccessCount, FailedCount, Counter, Exact
<1>9. QED
  BY <1>4, <1>5, <1>6, <1>8 DEF MetricsInv

\* An export more.
LEMMA MetricsInvStep ==
  ASSUME MetricsInv, NEW x \in Export, HandleClientMetrics(x)
  PROVE  MetricsInv'
<1> DEFINE a == AccountOf(x)
           cur == Current(x)
           last == LastTotals(store, a)
           lists == MergeFailed(Listed(store, a), x.failed)
           snap == [ success_txs |-> cur.success, failed_txs |-> cur.failed,
                     failed_transactions |-> lists ]
<1>0. MaxTx \in Nat /\ MaxUpdates \in Nat
  BY MetricsAssumption
<1>1. /\ MetricsTypeOK /\ IsFiniteSet(HandledKeys) /\ FailedAreListedOnce
      /\ SuccessCount /\ FailedCount
  BY DEF MetricsInv
<1>2. /\ handled \subseteq Export /\ DOMAIN store.last_totals = KeysOf(handled)
      /\ DOMAIN store.per_client = KeysOf(handled)
      /\ HandledKeys = KeysOf(handled)
      /\ Range(store.last_totals) \subseteq Totals
      /\ Range(store.per_client) \subseteq Snapshot
  BY <1>1 DEF MetricsTypeOK, HandledKeys, KeysOf
<1>3. /\ store' = Updated(store, x) /\ updates' = updates + 1
      /\ handled' = handled \cup {x} /\ updates < MaxUpdates
      /\ olderSeen' = \/ olderSeen
                      \/ x.success < last.success
                      \/ Len(x.failed) < last.failed
  BY DEF HandleClientMetrics
<1>4. /\ store'.last_totals = Put(store.last_totals, a, cur)
      /\ store'.per_client = Put(store.per_client, a, snap)
      /\ store'.total_success_txs
           = store.total_success_txs + SaturatingSub(cur.success, last.success)
      /\ store'.total_failed_txs
           = store.total_failed_txs + SaturatingSub(cur.failed, last.failed)
      /\ store'.tx_success_rate_percent
           = IF cur = NoTotals THEN store.tx_success_rate_percent
                               ELSE SuccessRate(cur)
      /\ DOMAIN store' = DOMAIN NewStore
  BY <1>3 DEF Updated, NewStore
<1>5. /\ cur.success = x.success /\ cur.failed = Len(x.failed)
      /\ cur \in Totals /\ SuccessOf[x] = x.success
      /\ FailedOf[x] = Len(x.failed) /\ x.failed \in Seq(Hashes)
      /\ x.success \in 0..MaxTx /\ Len(x.failed) \in 0..MaxTx
  BY ExportType DEF Current, Totals
<1>6. /\ Listed(store, a) \in Seq(Hashes) /\ IsInjective(Listed(store, a))
      /\ Range(Listed(store, a)) = UNION {Range(y.failed) : y \in ExportsOf(a)}
  <2>1. CASE a \in KeysOf(handled)
    <3>1. Listed(store, a) = store.per_client[a].failed_transactions
      BY <1>2, <2>1 DEF Listed
    <3>2. store.per_client[a] \in Snapshot
      BY <1>2, <2>1 DEF Range
    <3>3. Listed(store, a) \in Seq(Hashes)
      BY <3>1, <3>2 DEF Snapshot
    <3>4. QED
      BY <1>1, <1>2, <2>1, <3>1, <3>3 DEF FailedAreListedOnce
  <2>2. CASE a \notin KeysOf(handled)
    <3>1. Listed(store, a) = <<>>
      BY <1>2, <2>2 DEF Listed
    <3>2. ExportsOf(a) = {}
      BY <2>2 DEF ExportsOf, KeysOf
    <3>3. <<>> \in Seq(Hashes) /\ IsInjective(<<>>) /\ Range(<<>>) = {}
      BY DEF IsInjective, Range
    <3>4. QED
      BY <3>1, <3>2, <3>3
  <2>3. QED
    BY <2>1, <2>2
<1>7. /\ lists \in Seq(Hashes) /\ IsInjective(lists)
      /\ Range(lists) = Range(Listed(store, a)) \cup Range(x.failed)
  BY <1>5, <1>6, MergeIsUnion
<1>8. snap \in Snapshot /\ snap.failed_transactions = lists
  BY <1>5, <1>7 DEF Snapshot
<1> HIDE DEF a, cur, last, lists, snap
<1>9. /\ DOMAIN store'.last_totals = KeysOf(handled) \cup {a}
      /\ store'.last_totals[a] = cur
      /\ \A k \in KeysOf(handled) \ {a} :
           store'.last_totals[k] = store.last_totals[k]
      /\ Range(store'.last_totals) \subseteq Totals
  <2> DEFINE f == store.last_totals
             g == store'.last_totals
  <2>1. /\ DOMAIN f = KeysOf(handled) /\ Range(f) \subseteq Totals
        /\ g = Put(f, a, cur) /\ cur \in Totals
    BY <1>2, <1>4, <1>5
  <2> HIDE DEF f, g
  <2>2. /\ DOMAIN g = DOMAIN f \cup {a} /\ g[a] = cur
        /\ \A k \in DOMAIN f \ {a} : g[k] = f[k]
        /\ Range(g) \subseteq Totals
    BY <2>1 DEF Put, Range
  <2>3. QED
    BY <2>1, <2>2 DEF f, g
<1>10. /\ DOMAIN store'.per_client = KeysOf(handled) \cup {a}
       /\ store'.per_client[a] = snap
       /\ \A k \in KeysOf(handled) \ {a} :
            store'.per_client[k] = store.per_client[k]
       /\ Range(store'.per_client) \subseteq Snapshot
  <2> DEFINE f == store.per_client
             g == store'.per_client
  <2>1. /\ DOMAIN f = KeysOf(handled) /\ Range(f) \subseteq Snapshot
        /\ g = Put(f, a, snap) /\ snap \in Snapshot
    BY <1>2, <1>4, <1>8
  <2> HIDE DEF f, g
  <2>2. /\ DOMAIN g = DOMAIN f \cup {a} /\ g[a] = snap
        /\ \A k \in DOMAIN f \ {a} : g[k] = f[k]
        /\ Range(g) \subseteq Snapshot
    BY <2>1 DEF Put, Range
  <2>3. QED
    BY <2>1, <2>2 DEF f, g
<1>11. /\ KeysOf(handled') = KeysOf(handled) \cup {a} /\ HandledKeys' = KeysOf(handled')
       /\ handled' \subseteq Export
  BY <1>2, <1>3, <1>9, KeysWithOneMore DEF HandledKeys, a
<1>12. IsFiniteSet(HandledKeys') /\ IsFiniteSet(KeysOf(handled))
  BY <1>1, <1>2, <1>11, FS_AddElement
<1>13. /\ last.success = IF a \in KeysOf(handled) THEN LastSuccess[a] ELSE 0
       /\ last.failed = IF a \in KeysOf(handled) THEN LastFailed[a] ELSE 0
  BY <1>2 DEF last, a, LastTotals, NoTotals, LastSuccess, LastFailed
<1>14. /\ Bounded(SuccessOf, handled \cup {x}) /\ Bounded(FailedOf, handled \cup {x})
  BY <1>2, ExportType DEF Bounded
<1>15. /\ LastSuccess'[a] = SuccessOf[x] /\ LastFailed'[a] = FailedOf[x]
       /\ \A k \in KeysOf(handled) \ {a} :
            LastSuccess'[k] = LastSuccess[k] /\ LastFailed'[k] = LastFailed[k]
  BY <1>2, <1>5, <1>9, <1>11 DEF LastSuccess, LastFailed
<1>16. last.success \in Int /\ last.failed \in Int
  BY <1>1, <1>2, <1>13 DEF SuccessCount, FailedCount, Counter
<1>17. ~olderSeen' => /\ ~olderSeen /\ last.success <= SuccessOf[x]
                      /\ last.failed <= FailedOf[x]
  BY <1>0, <1>3, <1>5, <1>16
<1>18. SuccessCount'
  <2> DEFINE val == SuccessOf
             G == handled
             t == store.total_success_txs
             u == store'.total_success_txs
             old == LastSuccess
             new == LastSuccess'
             l == last.success
             b == AccountOf(x)
  <2>1. /\ Bounded(val, G \cup {x}) /\ IsFiniteSet(KeysOf(G))
        /\ Counter(val, G, t, old)
    BY <1>1, <1>12, <1>14 DEF SuccessCount
  <2>2. (b \in KeysOf(G) => l = old[b]) /\ (b \notin KeysOf(G) => l = 0)
    BY <1>13 DEF a
  <2>3. new[b] = val[x] /\ \A k \in KeysOf(G) \ {b} : new[k] = old[k]
    BY <1>15 DEF a
  <2>4. u = t + SaturatingSub(val[x], l) /\ handled' = G \cup {x}
    BY <1>3, <1>4, <1>5
  <2>5. ~olderSeen' => Exact(val, G, t, old) /\ l <= val[x]
    BY <1>1, <1>17 DEF SuccessCount
  <2> HIDE DEF val, G, t, u, old, new, l
  <2>6. /\ Counter(val, G \cup {x}, u, new)
        /\ Exact(val, G, t, old) /\ l <= val[x] => Exact(val, G \cup {x}, u, new)
    BY <2>1, <2>2, <2>3, <2>4, CounterStep
  <2>7. QED
    BY <2>4, <2>5, <2>6 DEF SuccessCount, val, u, new
<1>19. FailedCount'
  <2> DEFINE val == FailedOf
             G == handled
             t == store.total_failed_txs
             u == store'.total_failed_txs
             old == LastFailed
             new == LastFailed'
             l == last.failed
             b == AccountOf(x)
  <2>1. /\ Bounded(val, G \cup {x}) /\ IsFiniteSet(KeysOf(G))
        /\ Counter(val, G, t, old)
    BY <1>1, <1>12, <1>14 DEF FailedCount
  <2>2. (b \in KeysOf(G) => l = old[b]) /\ (b \notin KeysOf(G) => l = 0)
    BY <1>13 DEF a
  <2>3. new[b] = val[x] /\ \A k \in KeysOf(G) \ {b} : new[k] = old[k]
    BY <1>15 DEF a
  <2>4. u = t + SaturatingSub(val[x], l) /\ handled' = G \cup {x}
    BY <1>3, <1>4, <1>5
  <2>5. ~olderSeen' => Exact(val, G, t, old) /\ l <= val[x]
    BY <1>1, <1>17 DEF FailedCount
  <2> HIDE DEF val, G, t, u, old, new, l
  <2>6. /\ Counter(val, G \cup {x}, u, new)
        /\ Exact(val, G, t, old) /\ l <= val[x] => Exact(val, G \cup {x}, u, new)
    BY <2>1, <2>2, <2>3, <2>4, CounterStep
  <2>7. QED
    BY <2>4, <2>5, <2>6 DEF FailedCount, val, u, new
<1>20. MetricsTypeOK'
  <2>1. updates' \in 0..MaxUpdates
    BY <1>0, <1>1, <1>3 DEF MetricsTypeOK
  <2>2. olderSeen' \in BOOLEAN
    BY <1>3
  <2>3. {store'.total_success_txs, store'.total_failed_txs} \subseteq Nat
    BY <1>18, <1>19 DEF SuccessCount, FailedCount, Counter
  <2>4. store'.tx_success_rate_percent \in 0..100
    BY <1>1, <1>4, <1>5, RateIsPercentage DEF MetricsTypeOK
  <2>5. /\ DOMAIN store'.last_totals = DOMAIN store'.per_client
        /\ DOMAIN store'.last_totals = {AccountOf(y) : y \in handled'}
    BY <1>9, <1>10, <1>11 DEF KeysOf
  <2>6. QED
    BY <1>4, <1>9, <1>10, <1>11, <2>1, <2>2, <2>3, <2>4, <2>5, Zenon
    DEF MetricsTypeOK
<1>21. FailedAreListedOnce'
  <2> SUFFICES ASSUME NEW k \in HandledKeys'
               PROVE  LET listed == store'.per_client[k].failed_transactions
                      IN  /\ IsInjective(listed)
                          /\ Range(listed) = UNION {Range(y.failed) :
                                                    y \in ExportsOf(k)'}
    BY DEF FailedAreListedOnce
  <2>1. CASE k = a
    <3>1. ExportsOf(k)' = ExportsOf(a) \cup {x}
      BY <1>3, <2>1 DEF ExportsOf, a
    <3>2. UNION {Range(y.failed) : y \in ExportsOf(k)'}
            = (UNION {Range(y.failed) : y \in ExportsOf(a)}) \cup Range(x.failed)
      BY <3>1
    <3>3. store'.per_client[k].failed_transactions = lists
      BY <1>8, <1>10, <2>1
    <3>4. QED
      BY <1>6, <1>7, <3>2, <3>3
  <2>2. CASE k # a
    <3>1. ExportsOf(k)' = ExportsOf(k)
      BY <1>3, <2>2 DEF ExportsOf, a
    <3>2. k \in HandledKeys /\ store'.per_client[k] = store.per_client[k]
      BY <1>2, <1>10, <1>11, <2>2
    <3>3. QED
      BY <1>1, <3>1, <3>2 DEF FailedAreListedOnce
  <2>3. QED
    BY <2>1, <2>2
<1>22. QED
  BY <1>12, <1>18, <1>19, <1>20, <1>21 DEF MetricsInv

\* The invariant holds of every store.
LEMMA MetricsAlways == MetricsSpec => []MetricsInv
<1>1. MetricsInv /\ [MetricsNext]_metricsVars => MetricsInv'
  <2> SUFFICES ASSUME MetricsInv, [MetricsNext]_metricsVars PROVE MetricsInv'
    OBVIOUS
  <2>1. CASE UNCHANGED metricsVars
    BY <2>1 DEF metricsVars, MetricsInv, MetricsTypeOK, SuccessCount,
        FailedCount, LastSuccess, LastFailed, HandledKeys, FailedAreListedOnce,
        ExportsOf
  <2>2. QED
    BY <2>1, MetricsInvStep DEF MetricsNext
<1>2. QED
  BY <1>1, MetricsInvInit, PTL DEF MetricsSpec

\* Types of the store, for any exports; and the success rate of an export is a
\* percentage, whatever it holds (update_aggregated_metrics).
THEOREM MetricsTypeCorrect == MetricsSpec => []MetricsTypeOK
<1>1. MetricsInv => MetricsTypeOK
  BY DEF MetricsInv
<1>2. QED
  BY <1>1, MetricsAlways, PTL

\* What the invariant says of the sums in the terms of the properties.
LEMMA CountsAreSums ==
  ASSUME MetricsInv
  PROVE  /\ SumFunction([a \in HandledKeys |-> Newest(a).success])
              = MostOfAll(SuccessOf, handled)
         /\ SumFunction([a \in HandledKeys |-> Newest(a).failed])
              = MostOfAll(FailedOf, handled)
<1>1. handled \subseteq Export /\ HandledKeys = KeysOf(handled)
  BY DEF MetricsInv, MetricsTypeOK, HandledKeys, KeysOf
<1>2. QED
  BY <1>1, NewestIsMost

\* The counters hold at least the most that each account has reported, in
\* whatever order its exports arrive and however often (saturating_sub in
\* update_aggregated_metrics).
THEOREM NothingReportedIsLost == MetricsSpec => []AllReportedIsCounted
<1>1. MetricsInv => AllReportedIsCounted
  BY CountsAreSums
  DEF MetricsInv, SuccessCount, FailedCount, Counter, AllReportedIsCounted
<1>2. QED
  BY <1>1, MetricsAlways, PTL

\* They hold no more than that, unless an account has posted an export that
\* held less than the one before it (update_aggregated_metrics).
THEOREM RepeatsAreNotCounted == MetricsSpec => []NothingIsCountedTwice
<1>1. MetricsInv => NothingIsCountedTwice
  BY CountsAreSums
  DEF MetricsInv, SuccessCount, FailedCount, Exact, NothingIsCountedTwice
<1>2. QED
  BY <1>1, MetricsAlways, PTL

\* An account's snapshot lists every failed transaction that it has reported,
\* each hash once (update_aggregated_metrics).
THEOREM FailuresAreMerged == MetricsSpec => []FailedAreListedOnce
<1>1. MetricsInv => FailedAreListedOnce
  BY DEF MetricsInv
<1>2. QED
  BY <1>1, MetricsAlways, PTL

\* The relay's copy of the store is one: it takes exports while its HTTP server
\* is up, and nothing else that the relay does touches it (relay,
\* metric_server.rs).
THEOREM RelayKeepsAStore == RelaySpec => MetricsSpec
<1>1. RelayInit => MetricsInit
  BY DEF RelayInit
<1>2. [RelayNext]_allVars => [MetricsNext]_metricsVars
  <2> SUFFICES ASSUME [RelayNext]_allVars
               PROVE  MetricsNext \/ UNCHANGED metricsVars
    OBVIOUS
  <2>1. CASE UNCHANGED allVars
    BY <2>1 DEF allVars
  <2>2. ASSUME NEW x \in Export, RelayHandleClientMetrics(x) PROVE MetricsNext
    BY <2>2 DEF RelayHandleClientMetrics, MetricsNext
  <2>3. ASSUME Libp2pStep PROVE UNCHANGED metricsVars
    BY <2>3 DEF Libp2pStep, AcceptCircuit, CloseCircuit, DenyCircuit,
        AcceptReservation, RenewReservation, EndReservation, DenyReservation,
        Connection, Happens
  <2>4. CASE StartSwarm \/ StartSwarmFails \/ MetricsServerStarts
               \/ MetricsServerFails \/ HandleSwarmEvent
    BY <2>4 DEF StartSwarm, StartSwarmFails, MetricsServerStarts,
        MetricsServerFails, HandleSwarmEvent
  <2>5. QED
    BY <2>1, <2>2, <2>3, <2>4 DEF RelayNext
<1>3. QED
  BY <1>1, <1>2, PTL DEF RelaySpec, MetricsSpec

-----------------------------------------------------------------------------
(* The events of libp2p *)

\* How often an element occurs in a list with an element more.
LEMMA TimesAppend ==
  ASSUME NEW E, NEW s \in Seq(E), NEW e \in E, NEW x
  PROVE  /\ Times(s, x) \in Nat
         /\ Times(Append(s, e), x) = Times(s, x) + (IF e = x THEN 1 ELSE 0)
<1> DEFINE n == Len(s)
           A == {i \in DOMAIN s : s[i] = x}
           B == {i \in DOMAIN Append(s, e) : Append(s, e)[i] = x}
<1>1. n \in Nat /\ DOMAIN s = 1..n /\ A \in SUBSET (1..n) /\ n + 1 \notin A
  OBVIOUS
<1>2. IsFiniteSet(A) /\ Cardinality(A) \in Nat
  <2>1. IsFiniteSet(1..n)
    BY <1>1, FS_Interval
  <2> HIDE DEF A
  <2>2. QED
    BY <1>1, <2>1, FS_Subset, FS_CardinalityType
<1>3. /\ DOMAIN Append(s, e) = 1..(n + 1) /\ Append(s, e)[n + 1] = e
      /\ \A i \in 1..n : Append(s, e)[i] = s[i]
  OBVIOUS
<1>4. CASE e = x
  <2>1. B = A \cup {n + 1}
    BY <1>1, <1>3, <1>4
  <2> HIDE DEF A, B
  <2>2. Cardinality(B) = Cardinality(A) + 1
    BY <1>1, <1>2, <2>1, FS_AddElement
  <2>3. QED
    BY <1>2, <1>4, <2>2 DEF Times, A, B
<1>5. CASE e # x
  <2>1. B = A
    BY <1>1, <1>3, <1>5
  <2>2. Times(Append(s, e), x) = Times(s, x)
    BY <2>1 DEF Times
  <2>3. Times(s, x) \in Nat
    BY <1>2 DEF Times
  <2>4. QED
    BY <1>5, <2>2, <2>3
<1>6. QED
  BY <1>4, <1>5

\* How often it occurs in a list without the first element.
LEMMA TimesTail ==
  ASSUME NEW E, NEW s \in Seq(E), s # <<>>, NEW x
  PROVE  /\ Times(Tail(s), x) \in Nat
         /\ Times(s, x) = Times(Tail(s), x) + (IF Head(s) = x THEN 1 ELSE 0)
<1> DEFINE n == Len(s)
           A == {i \in DOMAIN Tail(s) : Tail(s)[i] = x}
           B == {i \in DOMAIN s : s[i] = x}
           C == {i \in 2..n : s[i] = x}
           f == [i \in A |-> i + 1]
<1>1. /\ n \in Nat \ {0} /\ DOMAIN s = 1..n /\ DOMAIN Tail(s) = 1..(n - 1)
      /\ \A i \in 1..(n - 1) : Tail(s)[i] = s[i + 1]
      /\ Head(s) = s[1]
  OBVIOUS
<1> HIDE DEF n
<1>2. IsFiniteSet(A) /\ Cardinality(A) \in Nat
  <2>1. A \in SUBSET (1..(n - 1)) /\ n - 1 \in Int
    BY <1>1
  <2>2. IsFiniteSet(1..(n - 1))
    BY <2>1, FS_Interval
  <2> HIDE DEF A
  <2>3. QED
    BY <2>1, <2>2, FS_Subset, FS_CardinalityType
<1>3. ExistsBijection(A, C)
  <2>1. f \in [A -> C]
    BY <1>1
  <2>2. \A i, j \in A : f[i] = f[j] => i = j
    BY <1>1
  <2>3. \A k \in C : k - 1 \in A /\ f[k - 1] = k
    BY <1>1
  <2> HIDE DEF f, A, C
  <2>4. f \in Injection(A, C) /\ f \in Surjection(A, C)
    BY <2>1, <2>2, <2>3 DEF Injection, IsInjective, Surjection
  <2>5. QED
    BY <2>4 DEF ExistsBijection, Bijection
<1>4. IsFiniteSet(C) /\ Cardinality(C) = Cardinality(A)
  <2> HIDE DEF A, C
  <2>1. QED
    BY <1>2, <1>3, FS_Bijection
<1>5. B = (IF Head(s) = x THEN C \cup {1} ELSE C) /\ 1 \notin C
  BY <1>1
<1> HIDE DEF A, B, C
<1>6. Cardinality(B) = Cardinality(A) + (IF Head(s) = x THEN 1 ELSE 0)
  <2>1. Cardinality(C \cup {1}) = Cardinality(C) + 1
    BY <1>4, <1>5, FS_AddElement
  <2>2. QED
    BY <1>2, <1>4, <1>5, <2>1
<1>7. QED
  BY <1>2, <1>6 DEF Times, A, B

\* Events of libp2p, and what a metric service holds.
Ev(kind, type, p) == [kind |-> kind, type |-> type, who |-> p]
RelayEvents ==
  [kind : {"circuit"}, type : {"accepted", "closed", "denied"}, who : Pairs]
  \cup [ kind : {"reservation"}, who : Peers,
         type : {"accepted", "closed", "denied", "timed_out"} ]
  \cup [kind : {"connection", "other"}, type : {"event"}, who : Peers]
IsService(m) ==
  /\ DOMAIN m = DOMAIN NewRelayMetrics /\ m = [f \in DOMAIN m |-> m[f]]
  /\ m.circuits_accepted_total \in Nat /\ m.circuits_closed_total \in Nat
  /\ m.reservations_accepted_total \in Nat
  /\ m.reservations_closed_total \in Nat
  /\ m.circuit_accepted_pairs \in Seq(Pairs)
  /\ m.circuit_closed_pairs \in Seq(Pairs)

\* The recorder changes the list, the set and the counter of the event's kind
\* and type, and nothing else that the properties speak of.
Is(e, kind, type) == e.kind = kind /\ e.type = type

\* What record_* does to each list and to each total, event by event.
LEMMA RecordedFields ==
  ASSUME NEW m, IsService(m), NEW e \in RelayEvents, NEW r, r = Recorded(m, e)
  PROVE  /\ IsService(r)
         /\ Is(e, "circuit", "accepted") =>
              /\ r.circuit_accepted_pairs = Append(m.circuit_accepted_pairs, e.who)
              /\ r.circuits_accepted_total = m.circuits_accepted_total + 1
         /\ ~Is(e, "circuit", "accepted") =>
              /\ r.circuit_accepted_pairs = m.circuit_accepted_pairs
              /\ r.circuits_accepted_total = m.circuits_accepted_total
         /\ Is(e, "circuit", "closed") =>
              /\ r.circuit_closed_pairs = Append(m.circuit_closed_pairs, e.who)
              /\ r.circuits_closed_total = m.circuits_closed_total + 1
         /\ ~Is(e, "circuit", "closed") =>
              /\ r.circuit_closed_pairs = m.circuit_closed_pairs
              /\ r.circuits_closed_total = m.circuits_closed_total
         /\ Is(e, "reservation", "accepted") =>
              /\ r.reservation_accepted_peers = m.reservation_accepted_peers \cup {e.who}
              /\ r.reservations_accepted_total = m.reservations_accepted_total + 1
         /\ ~Is(e, "reservation", "accepted") =>
              /\ r.reservation_accepted_peers = m.reservation_accepted_peers
              /\ r.reservations_accepted_total = m.reservations_accepted_total
         /\ Is(e, "reservation", "closed") =>
              /\ r.reservation_closed_peers = m.reservation_closed_peers \cup {e.who}
              /\ r.reservations_closed_total = m.reservations_closed_total + 1
         /\ ~Is(e, "reservation", "closed") =>
              /\ r.reservation_closed_peers = m.reservation_closed_peers
              /\ r.reservations_closed_total = m.reservations_closed_total
<1>0. {"circuits_accepted_total", "circuits_closed_total",
         "reservations_accepted_total", "reservations_closed_total",
         "connections_total", "circuit_accepted_pairs", "circuit_closed_pairs",
         "reservation_accepted_peers", "reservation_closed_peers"}
        \subseteq DOMAIN m
  BY DEF IsService, NewRelayMetrics
<1>t. /\ m.circuits_accepted_total \in Nat /\ m.circuits_closed_total \in Nat
      /\ m.reservations_accepted_total \in Nat
      /\ m.reservations_closed_total \in Nat
      /\ m.circuit_accepted_pairs \in Seq(Pairs)
      /\ m.circuit_closed_pairs \in Seq(Pairs)
  BY DEF IsService
<1>1. CASE Is(e, "circuit", "accepted")
  <2>1. r = [m EXCEPT !.circuits_accepted_total = @ + 1,
                      !.circuit_accepted_pairs = Append(@, e.who)]
    BY <1>1 DEF Is, Recorded, RecordCircuitEventPair
  <2>2. e.who \in Pairs
    BY <1>1 DEF Is, RelayEvents
  <2>3. DOMAIN r = DOMAIN m /\ r = [f \in DOMAIN r |-> r[f]]
    BY <2>1
  <2>4. /\ r.circuit_accepted_pairs = Append(m.circuit_accepted_pairs, e.who)
        /\ r.circuits_accepted_total = m.circuits_accepted_total + 1
        /\ r.circuit_closed_pairs = m.circuit_closed_pairs
        /\ r.circuits_closed_total = m.circuits_closed_total
        /\ r.reservation_accepted_peers = m.reservation_accepted_peers
        /\ r.reservations_accepted_total = m.reservations_accepted_total
        /\ r.reservation_closed_peers = m.reservation_closed_peers
        /\ r.reservations_closed_total = m.reservations_closed_total
    BY <1>0, <2>1
  <2>5. /\ ~Is(e, "circuit", "closed")
        /\ ~Is(e, "reservation", "accepted")
        /\ ~Is(e, "reservation", "closed")
    BY <1>1 DEF Is
  <2>6. IsService(r)
    BY <1>t, <2>2, <2>3, <2>4 DEF IsService
  <2>7. QED
    BY <1>1, <2>4, <2>5, <2>6
<1>2. CASE Is(e, "circuit", "closed")
  <2>1. r = [m EXCEPT !.circuits_closed_total = @ + 1,
                      !.circuit_closed_pairs = Append(@, e.who)]
    BY <1>2 DEF Is, Recorded, RecordCircuitEventPair
  <2>2. e.who \in Pairs
    BY <1>2 DEF Is, RelayEvents
  <2>3. DOMAIN r = DOMAIN m /\ r = [f \in DOMAIN r |-> r[f]]
    BY <2>1
  <2>4. /\ r.circuit_closed_pairs = Append(m.circuit_closed_pairs, e.who)
        /\ r.circuits_closed_total = m.circuits_closed_total + 1
        /\ r.circuit_accepted_pairs = m.circuit_accepted_pairs
        /\ r.circuits_accepted_total = m.circuits_accepted_total
        /\ r.reservation_accepted_peers = m.reservation_accepted_peers
        /\ r.reservations_accepted_total = m.reservations_accepted_total
        /\ r.reservation_closed_peers = m.reservation_closed_peers
        /\ r.reservations_closed_total = m.reservations_closed_total
    BY <1>0, <2>1
  <2>5. /\ ~Is(e, "circuit", "accepted")
        /\ ~Is(e, "reservation", "accepted")
        /\ ~Is(e, "reservation", "closed")
    BY <1>2 DEF Is
  <2>6. IsService(r)
    BY <1>t, <2>2, <2>3, <2>4 DEF IsService
  <2>7. QED
    BY <1>2, <2>4, <2>5, <2>6
<1>3. CASE Is(e, "reservation", "accepted")
  <2>1. r = [m EXCEPT !.reservations_accepted_total = @ + 1,
                      !.reservation_accepted_peers = @ \cup {e.who}]
    BY <1>3 DEF Is, Recorded, RecordReservationEventPeer
  <2>2. e.who \in Peers
    BY <1>3 DEF Is, RelayEvents
  <2>3. DOMAIN r = DOMAIN m /\ r = [f \in DOMAIN r |-> r[f]]
    BY <2>1
  <2>4. /\ r.reservation_accepted_peers = m.reservation_accepted_peers \cup {e.who}
        /\ r.reservations_accepted_total = m.reservations_accepted_total + 1
        /\ r.circuit_accepted_pairs = m.circuit_accepted_pairs
        /\ r.circuits_accepted_total = m.circuits_accepted_total
        /\ r.circuit_closed_pairs = m.circuit_closed_pairs
        /\ r.circuits_closed_total = m.circuits_closed_total
        /\ r.reservation_closed_peers = m.reservation_closed_peers
        /\ r.reservations_closed_total = m.reservations_closed_total
    BY <1>0, <2>1
  <2>5. /\ ~Is(e, "circuit", "accepted")
        /\ ~Is(e, "circuit", "closed")
        /\ ~Is(e, "reservation", "closed")
    BY <1>3 DEF Is
  <2>6. IsService(r)
    BY <1>t, <2>2, <2>3, <2>4 DEF IsService
  <2>7. QED
    BY <1>3, <2>4, <2>5, <2>6
<1>4. CASE Is(e, "reservation", "closed")
  <2>1. r = [m EXCEPT !.reservations_closed_total = @ + 1,
                      !.reservation_closed_peers = @ \cup {e.who}]
    BY <1>4 DEF Is, Recorded, RecordReservationEventPeer
  <2>2. e.who \in Peers
    BY <1>4 DEF Is, RelayEvents
  <2>3. DOMAIN r = DOMAIN m /\ r = [f \in DOMAIN r |-> r[f]]
    BY <2>1
  <2>4. /\ r.reservation_closed_peers = m.reservation_closed_peers \cup {e.who}
        /\ r.reservations_closed_total = m.reservations_closed_total + 1
        /\ r.circuit_accepted_pairs = m.circuit_accepted_pairs
        /\ r.circuits_accepted_total = m.circuits_accepted_total
        /\ r.circuit_closed_pairs = m.circuit_closed_pairs
        /\ r.circuits_closed_total = m.circuits_closed_total
        /\ r.reservation_accepted_peers = m.reservation_accepted_peers
        /\ r.reservations_accepted_total = m.reservations_accepted_total
    BY <1>0, <2>1
  <2>5. /\ ~Is(e, "circuit", "accepted")
        /\ ~Is(e, "circuit", "closed")
        /\ ~Is(e, "reservation", "accepted")
    BY <1>4 DEF Is
  <2>6. IsService(r)
    BY <1>t, <2>2, <2>3, <2>4 DEF IsService
  <2>7. QED
    BY <1>4, <2>4, <2>5, <2>6
<1>5. CASE ~ \E kind \in {"circuit", "reservation"},
                type \in {"accepted", "closed"} : Is(e, kind, type)
  <2>1. r = m \/ r = [m EXCEPT !.connections_total = @ + 1]
    BY <1>5 DEF Is, Recorded, RecordCircuitEvent, RecordReservationEvent,
                RecordConnectionEvent, RelayEvents
  <2>2. DOMAIN r = DOMAIN m /\ r = [f \in DOMAIN r |-> r[f]]
    BY <2>1 DEF IsService
  <2>3. /\ r.circuit_accepted_pairs = m.circuit_accepted_pairs
        /\ r.circuits_accepted_total = m.circuits_accepted_total
        /\ r.circuit_closed_pairs = m.circuit_closed_pairs
        /\ r.circuits_closed_total = m.circuits_closed_total
        /\ r.reservation_accepted_peers = m.reservation_accepted_peers
        /\ r.reservations_accepted_total = m.reservations_accepted_total
        /\ r.reservation_closed_peers = m.reservation_closed_peers
        /\ r.reservations_closed_total = m.reservations_closed_total
    BY <1>0, <2>1
  <2>4. IsService(r)
    BY <1>t, <2>2, <2>3 DEF IsService
  <2>5. QED
    BY <1>5, <2>3, <2>4
<1>6. QED
  BY <1>1, <1>2, <1>3, <1>4, <1>5

\* The events that wait, with an event more and without the first.
LEMMA QueuedAppend ==
  ASSUME queue \in Seq(RelayEvents), NEW kind, NEW type, NEW who,
         Ev(kind, type, who) \in RelayEvents,
         queue' = Append(queue, Ev(kind, type, who)), NEW k, NEW t, NEW p
  PROVE  /\ Queued(k, t, p) \in Nat
         /\ Queued(k, t, p)' = Queued(k, t, p)
              + (IF kind = k /\ type = t /\ who = p THEN 1 ELSE 0)
<1> DEFINE e == Ev(kind, type, who)
           x == Ev(k, t, p)
<1>1. e = x <=> kind = k /\ type = t /\ who = p
  BY DEF Ev
<1>2. /\ Queued(k, t, p) = Times(queue, x)
      /\ Queued(k, t, p)' = Times(Append(queue, e), x)
  BY DEF Queued, Ev
<1>3. e \in RelayEvents
  OBVIOUS
<1> HIDE DEF e, x
<1>4. /\ Times(queue, x) \in Nat
      /\ Times(Append(queue, e), x) = Times(queue, x) + (IF e = x THEN 1 ELSE 0)
  BY <1>3, TimesAppend
<1>5. QED
  BY <1>1, <1>2, <1>4

\* Taking the head off the queue takes one off the count of its kind.
LEMMA QueuedTail ==
  ASSUME queue \in Seq(RelayEvents), queue # <<>>, queue' = Tail(queue),
         NEW k, NEW t, NEW p
  PROVE  /\ Queued(k, t, p)' \in Nat
         /\ Queued(k, t, p) = Queued(k, t, p)'
              + (IF Is(Head(queue), k, t) /\ Head(queue).who = p THEN 1 ELSE 0)
<1> DEFINE e == Head(queue)
           x == Ev(k, t, p)
<1>1. e \in RelayEvents
  OBVIOUS
<1>2. e = [kind |-> e.kind, type |-> e.type, who |-> e.who]
  BY <1>1 DEF RelayEvents
<1>3. e = x <=> Is(e, k, t) /\ e.who = p
  BY <1>2 DEF Ev, Is
<1>4. /\ Queued(k, t, p) = Times(queue, x)
      /\ Queued(k, t, p)' = Times(Tail(queue), x)
  BY DEF Queued, Ev
<1>5. /\ Times(Tail(queue), x) \in Nat
      /\ Times(queue, x) = Times(Tail(queue), x) + (IF e = x THEN 1 ELSE 0)
  <2> HIDE DEF x
  <2>1. QED
    BY TimesTail
<1>6. QED
  BY <1>3, <1>4, <1>5

\* Types, and the service the worker records with.
RelayShape ==
  /\ worker.pc = "running" => worker.service = "shared"
  /\ DOMAIN metrics = {"own", "shared"} /\ IsService(Served)
  /\ queue \in Seq(RelayEvents)
  /\ circuits \in [Pairs -> Nat] /\ reservations \in [Peers -> Nat]

\* What a step does to what the properties speak of: nothing, or it records the
\* first event, or something happens in libp2p.
Recording ==
  /\ queue # <<>> /\ queue' = Tail(queue)
  /\ DOMAIN metrics' = DOMAIN metrics
  /\ Served' = Recorded(Served, Head(queue))
  /\ UNCHANGED <<circuits, reservations>>

\* A step of the relay either touches nothing that is counted, or records the
\* oldest event, or is a step of libp2p.
LEMMA RelayStepKinds ==
  ASSUME RelayShape, [RelayNext]_allVars
  PROVE  /\ worker'.pc = "running" => worker'.service = "shared"
         /\ \/ UNCHANGED <<circuits, reservations, queue, metrics>>
            \/ Recording
            \/ Libp2pStep /\ metrics' = metrics
<1>1. CASE UNCHANGED allVars
  BY <1>1 DEF allVars, relayVars, libp2p, RelayShape
<1>2. CASE StartSwarm \/ StartSwarmFails
  BY <1>2 DEF StartSwarm, StartSwarmFails, SharedWorker, libp2p
<1>3. CASE MetricsServerStarts \/ MetricsServerFails
  BY <1>3 DEF MetricsServerStarts, MetricsServerFails, libp2p, RelayShape
<1>4. CASE HandleSwarmEvent
  BY <1>4 DEF HandleSwarmEvent, RelayShape, Recording, Served
<1>5. CASE \E x \in Export : RelayHandleClientMetrics(x)
  BY <1>5 DEF RelayHandleClientMetrics, relayVars, libp2p, RelayShape
<1>6. CASE Libp2pStep
  BY <1>6 DEF Libp2pStep, AcceptCircuit, CloseCircuit, DenyCircuit,
      AcceptReservation, RenewReservation, EndReservation, DenyReservation,
      Connection, Happens, RelayShape
<1>7. QED
  BY <1>1, <1>2, <1>3, <1>4, <1>5, <1>6 DEF RelayNext

\* Something happens in libp2p: an event is queued, and the number of circuits
\* or reservations changes with it.
Happening(kind, type, who) ==
  /\ Ev(kind, type, who) \in RelayEvents
  /\ queue' = Append(queue, Ev(kind, type, who))
  /\ \/ /\ kind = "circuit" /\ type = "accepted" /\ who \in Pairs
        /\ circuits' = [circuits EXCEPT ![who] = @ + 1]
     \/ /\ kind = "circuit" /\ type = "closed" /\ who \in Pairs
        /\ circuits[who] > 0 /\ circuits' = [circuits EXCEPT ![who] = @ - 1]
     \/ /\ ~(kind = "circuit" /\ type \in {"accepted", "closed"})
        /\ circuits' = circuits
  /\ \/ /\ kind = "reservation" /\ type = "accepted" /\ who \in Peers
        /\ \/ reservations' = [reservations EXCEPT ![who] = @ + 1]
           \/ reservations' = reservations
     \/ /\ kind = "reservation" /\ type \in {"closed", "timed_out"}
        /\ who \in Peers /\ reservations[who] > 0
        /\ reservations' = [reservations EXCEPT ![who] = @ - 1]
     \/ /\ ~(kind = "reservation" /\ type \in {"accepted", "closed"})
        /\ reservations' = reservations

\* Every step of libp2p is one happening to one peer or pair.
LEMMA HappeningKinds ==
  ASSUME Libp2pStep
  PROVE  \E kind, type, who : Happening(kind, type, who)
<1>1. ASSUME NEW p \in Pairs, AcceptCircuit(p) \/ CloseCircuit(p) \/ DenyCircuit(p)
      PROVE  \E type : Happening("circuit", type, p)
  <2>1. \A type \in {"accepted", "closed", "denied"} :
          Ev("circuit", type, p) \in RelayEvents
    BY DEF Ev, RelayEvents
  <2>2. CASE AcceptCircuit(p)
    <3>1. Happening("circuit", "accepted", p)
      BY <2>1, <2>2 DEF AcceptCircuit, Happens, Happening, Ev
    <3>2. QED
      BY <3>1
  <2>3. CASE CloseCircuit(p)
    <3>1. Happening("circuit", "closed", p)
      BY <2>1, <2>3 DEF CloseCircuit, Happens, Happening, Ev
    <3>2. QED
      BY <3>1
  <2>4. CASE DenyCircuit(p)
    <3>1. Happening("circuit", "denied", p)
      BY <2>1, <2>4 DEF DenyCircuit, Happens, Happening, Ev
    <3>2. QED
      BY <3>1
  <2>5. QED
    BY <1>1, <2>2, <2>3, <2>4
<1>2. ASSUME NEW p \in Peers,
             \/ AcceptReservation(p) \/ RenewReservation(p) \/ DenyReservation(p)
             \/ EndReservation(p, "closed") \/ EndReservation(p, "timed_out")
      PROVE  \E type : Happening("reservation", type, p)
  <2>1. \A type \in {"accepted", "closed", "denied", "timed_out"} :
          Ev("reservation", type, p) \in RelayEvents
    BY DEF Ev, RelayEvents
  <2>2. CASE AcceptReservation(p) \/ RenewReservation(p)
    <3>1. Happening("reservation", "accepted", p)
      BY <2>1, <2>2 DEF AcceptReservation, RenewReservation, Happens, Happening,
                        Ev
    <3>2. QED
      BY <3>1
  <2>3. ASSUME NEW type \in {"closed", "timed_out"}, EndReservation(p, type)
        PROVE  Happening("reservation", type, p)
    BY <2>1, <2>3 DEF EndReservation, Happens, Happening, Ev
  <2>4. CASE DenyReservation(p)
    <3>1. Happening("reservation", "denied", p)
      BY <2>1, <2>4 DEF DenyReservation, Happens, Happening, Ev
    <3>2. QED
      BY <3>1
  <2>5. QED
    BY <1>2, <2>2, <2>3, <2>4
<1>3. ASSUME NEW p \in Peers, Connection(p)
      PROVE  \E kind : Happening(kind, "event", p)
  <2>1. PICK kind \in {"connection", "other"} : Happens(kind, "event", p)
    BY <1>3 DEF Connection
  <2>2. Ev(kind, "event", p) \in RelayEvents
    BY DEF Ev, RelayEvents
  <2>3. Happening(kind, "event", p)
    BY <1>3, <2>1, <2>2 DEF Connection, Happens, Happening, Ev
  <2>4. QED
    BY <2>3
<1>4. QED
  BY <1>1, <1>2, <1>3 DEF Libp2pStep

\* The shape is kept.
LEMMA RelayShapeStep == RelayShape /\ [RelayNext]_allVars => RelayShape'
<1> SUFFICES ASSUME RelayShape, [RelayNext]_allVars PROVE RelayShape'
  OBVIOUS
<1>1. CASE UNCHANGED <<circuits, reservations, queue, metrics>>
  BY <1>1, RelayStepKinds DEF RelayShape, Served
<1>2. CASE Recording
  <2>1. queue' \in Seq(RelayEvents) /\ Head(queue) \in RelayEvents
    BY <1>2 DEF Recording, RelayShape
  <2>2. IsService(Served')
    BY <1>2, <2>1, RecordedFields DEF Recording, RelayShape
  <2>3. QED
    BY <1>2, <2>1, <2>2, RelayStepKinds DEF Recording, RelayShape
<1>3. CASE Libp2pStep /\ metrics' = metrics
  <2>1. PICK kind, type, who : Happening(kind, type, who)
    BY <1>3, HappeningKinds
  <2>2. queue' \in Seq(RelayEvents)
    BY <2>1 DEF Happening, RelayShape
  <2>3. circuits' \in [Pairs -> Nat]
    BY <2>1 DEF Happening, RelayShape
  <2>4. reservations' \in [Peers -> Nat]
    BY <2>1 DEF Happening, RelayShape
  <2>5. QED
    BY <1>3, <2>2, <2>3, <2>4, RelayStepKinds DEF RelayShape, Served
<1>4. QED
  BY <1>1, <1>2, <1>3, RelayStepKinds

\* It is there at the start, with nothing listed, queued or open.
LEMMA RelayShapeInit ==
  RelayInit => /\ RelayShape /\ queue = <<>> /\ Served = NewRelayMetrics
               /\ circuits = [p \in Pairs |-> 0]
               /\ reservations = [p \in Peers |-> 0]
<1> SUFFICES ASSUME RelayInit
             PROVE  /\ RelayShape /\ Served = NewRelayMetrics
    BY DEF RelayInit
<1>1. DOMAIN metrics = {"own", "shared"} /\ Served = NewRelayMetrics
  BY DEF RelayInit, Served
<1>2. IsService(NewRelayMetrics)
  BY DEF IsService, NewRelayMetrics
<1>3. QED
  BY <1>1, <1>2 DEF RelayShape, RelayInit

-----------------------------------------------------------------------------
(* Circuits *)

\* An event that is recorded moves from the queue to its list, or concerns
\* neither (the lists of pairs).
LEMMA PairMoves ==
  ASSUME RelayShape, Recording, NEW p \in Pairs
  PROVE  /\ Times(Served'.circuit_accepted_pairs, p)
              + Queued("circuit", "accepted", p)'
              = Times(Served.circuit_accepted_pairs, p)
                + Queued("circuit", "accepted", p)
         /\ Times(Served'.circuit_closed_pairs, p)
              + Queued("circuit", "closed", p)'
              = Times(Served.circuit_closed_pairs, p)
                + Queued("circuit", "closed", p)
<1> DEFINE e == Head(queue)
           m == Served
           r == Served'
<1>0. queue \in Seq(RelayEvents) /\ queue # <<>> /\ queue' = Tail(queue)
  BY DEF RelayShape, Recording
<1>1. IsService(m) /\ e \in RelayEvents /\ r = Recorded(m, e)
  BY DEF RelayShape, Recording
<1>2. /\ m.circuit_accepted_pairs \in Seq(Pairs)
      /\ m.circuit_closed_pairs \in Seq(Pairs)
  BY <1>1 DEF IsService
<1>3. e.kind = "circuit" => e.who \in Pairs
  BY <1>1 DEF RelayEvents
<1> HIDE DEF e, m, r
<1>4. /\ Is(e, "circuit", "accepted") =>
           /\ r.circuit_accepted_pairs = Append(m.circuit_accepted_pairs, e.who)
           /\ r.circuits_accepted_total = m.circuits_accepted_total + 1
      /\ ~Is(e, "circuit", "accepted") =>
           /\ r.circuit_accepted_pairs = m.circuit_accepted_pairs
           /\ r.circuits_accepted_total = m.circuits_accepted_total
      /\ Is(e, "circuit", "closed") =>
           /\ r.circuit_closed_pairs = Append(m.circuit_closed_pairs, e.who)
           /\ r.circuits_closed_total = m.circuits_closed_total + 1
      /\ ~Is(e, "circuit", "closed") =>
           /\ r.circuit_closed_pairs = m.circuit_closed_pairs
           /\ r.circuits_closed_total = m.circuits_closed_total
  BY <1>1, RecordedFields
<1>5. ASSUME NEW t, NEW l \in Seq(Pairs), NEW k,
             Is(e, "circuit", t) => k = Append(l, e.who),
             ~Is(e, "circuit", t) => k = l
      PROVE  Times(k, p) + Queued("circuit", t, p)'
               = Times(l, p) + Queued("circuit", t, p)
  <2>1. /\ Queued("circuit", t, p)' \in Nat
        /\ Queued("circuit", t, p) = Queued("circuit", t, p)'
             + (IF Is(e, "circuit", t) /\ e.who = p THEN 1 ELSE 0)
    BY <1>0, QueuedTail DEF e
  <2>2. Times(l, p) \in Nat
    BY TimesAppend
  <2>3. CASE Is(e, "circuit", t)
    <3>1. e.who \in Pairs
      BY <1>3, <2>3 DEF Is
    <3>2. Times(k, p) = Times(l, p) + (IF e.who = p THEN 1 ELSE 0)
      <4>1. k = Append(l, e.who)
        BY <1>5, <2>3
      <4>2. Times(Append(l, e.who), p)
              = Times(l, p) + (IF e.who = p THEN 1 ELSE 0)
        BY <3>1, TimesAppend
      <4>3. QED
        BY <4>1, <4>2
    <3>3. QED
      BY <2>1, <2>2, <2>3, <3>2
  <2>4. CASE ~Is(e, "circuit", t)
    BY <1>5, <2>1, <2>2, <2>4
  <2>5. QED
    BY <2>3, <2>4
<1>6. Times(r.circuit_accepted_pairs, p) + Queued("circuit", "accepted", p)'
        = Times(m.circuit_accepted_pairs, p) + Queued("circuit", "accepted", p)
  BY <1>2, <1>4, <1>5
<1>7. Times(r.circuit_closed_pairs, p) + Queued("circuit", "closed", p)'
        = Times(m.circuit_closed_pairs, p) + Queued("circuit", "closed", p)
  BY <1>2, <1>4, <1>5
<1>8. QED
  BY <1>6, <1>7 DEF m, r

\* The counters are the lengths of the lists.
LengthsAreCounted ==
  /\ Served.circuits_accepted_total = Len(Served.circuit_accepted_pairs)
  /\ Served.circuits_closed_total = Len(Served.circuit_closed_pairs)

\* Recording an event keeps the totals equal to the lengths of the lists.
LEMMA LengthsStay ==
  ASSUME RelayShape, Recording, LengthsAreCounted
  PROVE  LengthsAreCounted'
<1> DEFINE e == Head(queue)
           m == Served
           r == Served'
<1>1. IsService(m) /\ e \in RelayEvents /\ r = Recorded(m, e)
  BY DEF RelayShape, Recording
<1>2. /\ m.circuit_accepted_pairs \in Seq(Pairs)
      /\ m.circuit_closed_pairs \in Seq(Pairs)
  BY <1>1 DEF IsService
<1>3. /\ m.circuits_accepted_total = Len(m.circuit_accepted_pairs)
      /\ m.circuits_closed_total = Len(m.circuit_closed_pairs)
  BY DEF LengthsAreCounted
<1>4. e.kind = "circuit" => e.who \in Pairs
  BY <1>1 DEF RelayEvents
<1> HIDE DEF e, m, r
<1>5. /\ Is(e, "circuit", "accepted") =>
           /\ r.circuit_accepted_pairs = Append(m.circuit_accepted_pairs, e.who)
           /\ r.circuits_accepted_total = m.circuits_accepted_total + 1
      /\ ~Is(e, "circuit", "accepted") =>
           /\ r.circuit_accepted_pairs = m.circuit_accepted_pairs
           /\ r.circuits_accepted_total = m.circuits_accepted_total
      /\ Is(e, "circuit", "closed") =>
           /\ r.circuit_closed_pairs = Append(m.circuit_closed_pairs, e.who)
           /\ r.circuits_closed_total = m.circuits_closed_total + 1
      /\ ~Is(e, "circuit", "closed") =>
           /\ r.circuit_closed_pairs = m.circuit_closed_pairs
           /\ r.circuits_closed_total = m.circuits_closed_total
  BY <1>1, RecordedFields
<1>6. r.circuits_accepted_total = Len(r.circuit_accepted_pairs)
  BY <1>2, <1>3, <1>4, <1>5 DEF Is
<1>7. r.circuits_closed_total = Len(r.circuit_closed_pairs)
  BY <1>2, <1>3, <1>4, <1>5 DEF Is
<1>8. QED
  BY <1>6, <1>7 DEF r, LengthsAreCounted

\* Every step keeps the count of the circuits.
LEMMA CircuitsStep ==
  RelayShape /\ CircuitsAddUp /\ [RelayNext]_allVars => CircuitsAddUp'
<1> SUFFICES ASSUME RelayShape, CircuitsAddUp, [RelayNext]_allVars
             PROVE  CircuitsAddUp'
  OBVIOUS
<1>0. LengthsAreCounted
  BY DEF LengthsAreCounted, CircuitsAddUp
<1>a. \A p \in Pairs :
        /\ circuits[p] \in Nat
        /\ Times(Served.circuit_accepted_pairs, p) \in Nat
        /\ Times(Served.circuit_closed_pairs, p) \in Nat
  <2>1. /\ Served.circuit_accepted_pairs \in Seq(Pairs)
        /\ Served.circuit_closed_pairs \in Seq(Pairs)
        /\ circuits \in [Pairs -> Nat]
    BY DEF RelayShape, IsService
  <2>2. QED
    BY <2>1, TimesAppend
<1>b. \A p \in Pairs :
        Times(Served.circuit_accepted_pairs, p) + Queued("circuit", "accepted", p)
        = Times(Served.circuit_closed_pairs, p)
          + Queued("circuit", "closed", p) + circuits[p]
  BY DEF CircuitsAddUp
<1>1. CASE UNCHANGED <<circuits, reservations, queue, metrics>>
  BY <1>1 DEF CircuitsAddUp, Served, Queued, Times
<1>2. CASE Recording
  <2>1. LengthsAreCounted'
    BY <1>0, <1>2, LengthsStay
  <2>2. circuits' = circuits /\ queue \in Seq(RelayEvents) /\ queue # <<>>
        /\ queue' = Tail(queue)
    BY <1>2 DEF Recording, RelayShape
  <2>3. ASSUME NEW p \in Pairs
        PROVE  Times(Served'.circuit_accepted_pairs, p)
                 + Queued("circuit", "accepted", p)'
               = Times(Served'.circuit_closed_pairs, p)
                 + Queued("circuit", "closed", p)' + circuits'[p]
    <3> DEFINE x == Times(Served'.circuit_accepted_pairs, p)
                      + Queued("circuit", "accepted", p)'
               y == Times(Served'.circuit_closed_pairs, p)
                      + Queued("circuit", "closed", p)'
               v == Times(Served.circuit_accepted_pairs, p)
                      + Queued("circuit", "accepted", p)
               w == Times(Served.circuit_closed_pairs, p)
                      + Queued("circuit", "closed", p)
    <3>1. x = v /\ y = w
      BY <1>2, PairMoves
    <3>2. v = w + circuits[p]
      BY <1>b
    <3>3. x = y + circuits'[p]
      <4> HIDE DEF x, y, v, w
      <4>1. QED
        BY <2>2, <3>1, <3>2
    <3>4. QED
      BY <3>3
  <2>4. QED
    BY <2>1, <2>3 DEF CircuitsAddUp, LengthsAreCounted
<1>3. CASE Libp2pStep /\ metrics' = metrics
  <2>1. PICK kind, type, who : Happening(kind, type, who)
    BY <1>3, HappeningKinds
  <2>2. Served' = Served /\ queue \in Seq(RelayEvents)
    BY <1>3 DEF Served, RelayShape
  <2>3. ASSUME NEW t, NEW p
        PROVE  /\ Queued("circuit", t, p) \in Nat
               /\ Queued("circuit", t, p)' = Queued("circuit", t, p)
                    + (IF kind = "circuit" /\ type = t /\ who = p THEN 1 ELSE 0)
    BY <2>1, <2>2, QueuedAppend DEF Happening
  <2>4. ASSUME NEW p \in Pairs
        PROVE  Times(Served'.circuit_accepted_pairs, p)
                 + Queued("circuit", "accepted", p)'
               = Times(Served'.circuit_closed_pairs, p)
                 + Queued("circuit", "closed", p)' + circuits'[p]
    <3> DEFINE v == Queued("circuit", "accepted", p)
               w == Queued("circuit", "closed", p)
    <3>1. /\ v \in Nat /\ w \in Nat
          /\ v' = v + (IF /\ kind = "circuit" /\ type = "accepted" /\ who = p
                       THEN 1 ELSE 0)
          /\ w' = w + (IF /\ kind = "circuit" /\ type = "closed" /\ who = p
                       THEN 1 ELSE 0)
      BY <2>3
    <3>2. circuits'[p] = IF kind = "circuit" /\ type = "accepted" /\ who = p
                         THEN circuits[p] + 1
                         ELSE IF kind = "circuit" /\ type = "closed" /\ who = p
                              THEN circuits[p] - 1 ELSE circuits[p]
      BY <2>1 DEF Happening, RelayShape
    <3>3. Times(Served.circuit_accepted_pairs, p) + v
            = Times(Served.circuit_closed_pairs, p) + w + circuits[p]
      BY <1>b
    <3> HIDE DEF v, w
    <3>4. Times(Served.circuit_accepted_pairs, p) + v'
            = Times(Served.circuit_closed_pairs, p) + w' + circuits'[p]
      BY <1>a, <3>1, <3>2, <3>3
    <3>5. QED
      BY <2>2, <3>4 DEF v, w
  <2>5. QED
    BY <1>0, <2>2, <2>4 DEF CircuitsAddUp, LengthsAreCounted
<1>4. QED
  BY <1>1, <1>2, <1>3, RelayStepKinds

\* For any pairs of peers, the circuits that the relay shows as accepted and not
\* as closed are the open ones, but for the events the worker has not taken, and
\* its counters are the lengths of its lists (handle_relay_event).
THEOREM CircuitsAreCounted == RelaySpec => []CircuitsAddUp
<1>1. RelayInit => RelayShape /\ CircuitsAddUp
  <2> SUFFICES ASSUME RelayInit PROVE RelayShape /\ CircuitsAddUp
    OBVIOUS
  <2>1. /\ RelayShape /\ queue = <<>> /\ Served = NewRelayMetrics
        /\ circuits = [p \in Pairs |-> 0]
    BY RelayShapeInit
  <2>2. \A x : Times(<<>>, x) = 0
    BY FS_EmptySet DEF Times
  <2>3. /\ Served.circuit_accepted_pairs = <<>>
        /\ Served.circuit_closed_pairs = <<>>
        /\ Served.circuits_accepted_total = 0
        /\ Served.circuits_closed_total = 0
    BY <2>1 DEF NewRelayMetrics
  <2>4. QED
    BY <2>1, <2>2, <2>3 DEF CircuitsAddUp, Queued
<1>2. QED
  BY <1>1, RelayShapeStep, CircuitsStep, PTL DEF RelaySpec

-----------------------------------------------------------------------------
(* Reservations *)

\* The events of reservations that wait, of all the peers.
QueuedSum(t) == SumFunction([p \in Peers |-> Queued("reservation", t, p)])

\* A sum of which one term grows by one.
LEMMA SumGrows ==
  ASSUME NEW f \in [Peers -> Nat], NEW g \in [Peers -> Nat], NEW x \in Peers,
         g[x] = f[x] + 1, \A y \in Peers \ {x} : f[y] = g[y]
  PROVE  SumFunction(f) \in Nat /\ SumFunction(g) = SumFunction(f) + 1
<1>1. IsFiniteSet(Peers)
  BY RelayAssumption
<1>2. SumFunction(f) \in Nat /\ SumFunction(g) \in Nat
  BY <1>1, SumIsNumber
<1>3. SumFunction(f) + g[x] = SumFunction(g) + f[x]
  BY <1>1, SumChange
<1>4. f[x] \in Nat
  OBVIOUS
<1>5. QED
  BY <1>2, <1>3, <1>4

\* Their number with an event more.
LEMMA QueuedSumAppend ==
  ASSUME queue \in Seq(RelayEvents), NEW kind, NEW type, NEW who,
         Ev(kind, type, who) \in RelayEvents,
         queue' = Append(queue, Ev(kind, type, who)), NEW t
  PROVE  /\ QueuedSum(t) \in Nat
         /\ QueuedSum(t)' = QueuedSum(t)
              + (IF kind = "reservation" /\ type = t THEN 1 ELSE 0)
<1> DEFINE f == [p \in Peers |-> Queued("reservation", t, p)]
           g == [p \in Peers |-> Queued("reservation", t, p)']
<1>1. \A p \in Peers :
        /\ Queued("reservation", t, p) \in Nat
        /\ Queued("reservation", t, p)' = Queued("reservation", t, p)
             + (IF kind = "reservation" /\ type = t /\ who = p THEN 1 ELSE 0)
  BY QueuedAppend
<1>2. f \in [Peers -> Nat] /\ g \in [Peers -> Nat]
  BY <1>1
<1>3. \A p \in Peers : g[p] = f[p]
          + (IF kind = "reservation" /\ type = t /\ who = p THEN 1 ELSE 0)
  BY <1>1
<1>4. QueuedSum(t) = SumFunction(f) /\ QueuedSum(t)' = SumFunction(g)
  BY DEF QueuedSum
<1>5. kind = "reservation" => who \in Peers
  BY DEF RelayEvents, Ev
<1> HIDE DEF f, g
<1>6. SumFunction(f) \in Nat
  BY <1>2, SumIsNumber, RelayAssumption
<1>7. CASE kind = "reservation" /\ type = t
  <2>1. who \in Peers /\ g[who] = f[who] + 1
    BY <1>3, <1>5, <1>7
  <2>2. \A y \in Peers \ {who} : f[y] = g[y]
    BY <1>2, <1>3
  <2>3. SumFunction(g) = SumFunction(f) + 1
    BY <1>2, <2>1, <2>2, SumGrows
  <2>4. QED
    BY <1>4, <1>6, <1>7, <2>3
<1>8. CASE ~(kind = "reservation" /\ type = t)
  <2>1. f = g
    BY <1>2, <1>3, <1>8
  <2>2. QED
    BY <1>4, <1>6, <1>8, <2>1
<1>9. QED
  BY <1>7, <1>8

\* Their number without the first event.
LEMMA QueuedSumTail ==
  ASSUME queue \in Seq(RelayEvents), queue # <<>>, queue' = Tail(queue), NEW t
  PROVE  /\ QueuedSum(t)' \in Nat
         /\ QueuedSum(t) = QueuedSum(t)'
              + (IF Is(Head(queue), "reservation", t) THEN 1 ELSE 0)
<1> DEFINE e == Head(queue)
           f == [p \in Peers |-> Queued("reservation", t, p)']
           g == [p \in Peers |-> Queued("reservation", t, p)]
<1>1. \A p \in Peers :
        /\ Queued("reservation", t, p)' \in Nat
        /\ Queued("reservation", t, p) = Queued("reservation", t, p)'
             + (IF Is(e, "reservation", t) /\ e.who = p THEN 1 ELSE 0)
  BY QueuedTail
<1>2. f \in [Peers -> Nat] /\ g \in [Peers -> Nat]
  BY <1>1
<1>3. \A p \in Peers : g[p] = f[p]
          + (IF Is(e, "reservation", t) /\ e.who = p THEN 1 ELSE 0)
  BY <1>1
<1>4. QueuedSum(t) = SumFunction(g) /\ QueuedSum(t)' = SumFunction(f)
  BY DEF QueuedSum
<1>5. Is(e, "reservation", t) => e.who \in Peers
  BY DEF RelayEvents, Is
<1> HIDE DEF e, f, g
<1>6. SumFunction(f) \in Nat
  BY <1>2, SumIsNumber, RelayAssumption
<1>7. CASE Is(e, "reservation", t)
  <2>1. e.who \in Peers /\ g[e.who] = f[e.who] + 1
    BY <1>3, <1>5, <1>7
  <2>2. \A y \in Peers \ {e.who} : f[y] = g[y]
    BY <1>2, <1>3
  <2>3. SumFunction(g) = SumFunction(f) + 1
    BY <1>2, <2>1, <2>2, SumGrows
  <2>4. QED
    BY <1>4, <1>6, <1>7, <2>3 DEF e
<1>8. CASE ~Is(e, "reservation", t)
  <2>1. f = g
    BY <1>2, <1>3, <1>8
  <2>2. QED
    BY <1>4, <1>6, <1>8, <2>1 DEF e
<1>9. QED
  BY <1>7, <1>8

\* What is queued is somewhere in the queue.
LEMMA QueuedIsThere ==
  ASSUME queue \in Seq(RelayEvents), NEW k, NEW t, NEW p, Queued(k, t, p) > 0
  PROVE  \E j \in 1..Len(queue) : queue[j] = Ev(k, t, p)
<1> DEFINE x == Ev(k, t, p)
           A == {i \in DOMAIN queue : queue[i] = x}
<1>1. Queued(k, t, p) = Cardinality(A)
  BY DEF Queued, Times, Ev
<1> HIDE DEF x
<1>2. A # {}
  BY <1>1, FS_EmptySet
<1>3. QED
  BY <1>2 DEF x

\* A reservation that is closed was accepted before: the peer is listed, or the
\* event that lists it comes first.  Inductive, with ReservationsAddUp.
ClosedAfterAccepted ==
  \A p \in Peers : \A i \in 1..Len(queue) :
    queue[i] = Ev("reservation", "closed", p) =>
      \/ p \in Served.reservation_accepted_peers
      \/ \E j \in 1..(i - 1) : queue[j] = Ev("reservation", "accepted", p)

\* What the relay has listed of a peer with a reservation, or will.
HoldersAreListed ==
  \A p \in Peers :
    reservations[p] > 0 =>
      \/ p \in Served.reservation_accepted_peers
      \/ Queued("reservation", "accepted", p) > 0

\* The counters are not behind.
CountersCover ==
  Served.reservations_accepted_total + QueuedSum("accepted")
    >= Served.reservations_closed_total + QueuedSum("closed")
       + SumFunction(reservations)

ReservationsInv ==
  /\ HoldersAreListed /\ CountersCover /\ ClosedAfterAccepted
  /\ Served.reservation_closed_peers \subseteq Served.reservation_accepted_peers

\* What a recorded event does to what the service keeps of reservations.
ReservationRecorded(m, e, r) ==
  /\ Is(e, "reservation", "accepted") =>
       /\ r.reservation_accepted_peers
            = m.reservation_accepted_peers \cup {e.who}
       /\ r.reservations_accepted_total = m.reservations_accepted_total + 1
  /\ ~Is(e, "reservation", "accepted") =>
       /\ r.reservation_accepted_peers = m.reservation_accepted_peers
       /\ r.reservations_accepted_total = m.reservations_accepted_total
  /\ Is(e, "reservation", "closed") =>
       /\ r.reservation_closed_peers = m.reservation_closed_peers \cup {e.who}
       /\ r.reservations_closed_total = m.reservations_closed_total + 1
  /\ ~Is(e, "reservation", "closed") =>
       /\ r.reservation_closed_peers = m.reservation_closed_peers
       /\ r.reservations_closed_total = m.reservations_closed_total

\* The worker records the first event: the invariant is kept.
LEMMA ReservationsRecord ==
  ASSUME RelayShape, ReservationsInv, Recording
  PROVE  ReservationsInv'
<1> DEFINE e == Head(queue)
           m == Served
           r == Served'
<1>0. /\ queue \in Seq(RelayEvents) /\ queue # <<>> /\ queue' = Tail(queue)
      /\ reservations' = reservations /\ reservations \in [Peers -> Nat]
  BY DEF RelayShape, Recording
<1>1. IsService(m) /\ e \in RelayEvents /\ r = Recorded(m, e)
  BY DEF RelayShape, Recording
<1>2. /\ m.reservations_accepted_total \in Nat
      /\ m.reservations_closed_total \in Nat
  BY <1>1 DEF IsService
<1>3. e = Ev(e.kind, e.type, e.who)
  BY <1>1 DEF RelayEvents, Ev
<1>4. e = queue[1] /\ Len(queue) \in Nat /\ Len(queue) >= 1
  BY <1>0
<1>5. /\ Len(queue') = Len(queue) - 1
      /\ \A i \in 1..Len(queue') : queue'[i] = queue[i + 1] /\ i + 1 \in 1..Len(queue)
  BY <1>0
<1>6. Is(e, "reservation", "closed") => e.who \in Peers
  BY <1>1 DEF RelayEvents, Is
<1>7. ReservationRecorded(m, e, r)
  <2> HIDE DEF e, m, r
  <2>1. QED
    BY <1>1, RecordedFields DEF ReservationRecorded
<1>8. m.reservation_accepted_peers \subseteq r.reservation_accepted_peers
  <2> HIDE DEF e, m, r
  <2>1. QED
    BY <1>7 DEF ReservationRecorded
<1>9. HoldersAreListed'
  <2> SUFFICES ASSUME NEW p \in Peers, reservations[p] > 0
               PROVE  \/ p \in r.reservation_accepted_peers
                      \/ Queued("reservation", "accepted", p)' > 0
    BY <1>0 DEF HoldersAreListed
  <2>1. CASE p \in m.reservation_accepted_peers
    BY <1>8, <2>1
  <2>2. CASE p \notin m.reservation_accepted_peers
    <3>1. Queued("reservation", "accepted", p) > 0
      BY <2>2 DEF ReservationsInv, HoldersAreListed
    <3>2. /\ Queued("reservation", "accepted", p)' \in Nat
          /\ Queued("reservation", "accepted", p)
               = Queued("reservation", "accepted", p)'
                 + (IF Is(e, "reservation", "accepted") /\ e.who = p
                    THEN 1 ELSE 0)
      BY <1>0, QueuedTail
    <3> HIDE DEF e, m, r
    <3>3. CASE Is(e, "reservation", "accepted") /\ e.who = p
      BY <1>7, <3>3 DEF ReservationRecorded
    <3>4. CASE ~(Is(e, "reservation", "accepted") /\ e.who = p)
      BY <3>1, <3>2, <3>4
    <3>5. QED
      BY <3>3, <3>4
  <2>3. QED
    BY <2>1, <2>2
<1>10. r.reservation_closed_peers \subseteq r.reservation_accepted_peers
  <2>1. m.reservation_closed_peers \subseteq m.reservation_accepted_peers
    BY DEF ReservationsInv
  <2>2. CASE Is(e, "reservation", "closed")
    <3>1. e = Ev("reservation", "closed", e.who)
      BY <1>3, <2>2 DEF Is
    <3>2. e.who \in m.reservation_accepted_peers
      BY <1>4, <1>6, <2>2, <3>1 DEF ReservationsInv, ClosedAfterAccepted
    <3> HIDE DEF e, m, r
    <3>3. QED
      BY <1>7, <1>8, <2>1, <2>2, <3>2 DEF ReservationRecorded
  <2>3. CASE ~Is(e, "reservation", "closed")
    <3> HIDE DEF e, m, r
    <3>1. QED
      BY <1>7, <1>8, <2>1, <2>3 DEF ReservationRecorded
  <2>4. QED
    BY <2>2, <2>3
<1>11. ClosedAfterAccepted'
  <2> SUFFICES ASSUME NEW p \in Peers, NEW i \in 1..Len(queue'),
                      queue'[i] = Ev("reservation", "closed", p)
               PROVE  \/ p \in r.reservation_accepted_peers
                      \/ \E j \in 1..(i - 1) :
                           queue'[j] = Ev("reservation", "accepted", p)
    BY DEF ClosedAfterAccepted, Ev
  <2>1. /\ i + 1 \in 1..Len(queue) /\ i \in Nat /\ i >= 1 /\ i + 1 - 1 = i
        /\ queue[i + 1] = Ev("reservation", "closed", p)
    BY <1>5, <1>4
  <2>2. CASE p \in m.reservation_accepted_peers
    BY <1>8, <2>2
  <2>3. CASE p \notin m.reservation_accepted_peers
    <3> DEFINE k == i + 1
    <3>a. k \in 1..Len(queue) /\ queue[k] = Ev("reservation", "closed", p)
      BY <2>1
    <3>b. \E j \in 1..(k - 1) : queue[j] = Ev("reservation", "accepted", p)
      <4> HIDE DEF k
      <4>1. QED
        BY <2>3, <3>a DEF ReservationsInv, ClosedAfterAccepted
    <3>c. k - 1 = i
      BY <2>1
    <3> HIDE DEF k
    <3>1. PICK j \in 1..i : queue[j] = Ev("reservation", "accepted", p)
      BY <3>b, <3>c
    <3>2. CASE j = 1
      <4>1. Is(e, "reservation", "accepted") /\ e.who = p
        BY <1>4, <3>1, <3>2 DEF Ev, Is
      <4> HIDE DEF e, m, r
      <4>2. QED
        BY <1>7, <4>1 DEF ReservationRecorded
    <3>3. CASE j # 1
      <4>1. j - 1 \in 1..(i - 1) /\ j - 1 \in 1..Len(queue') /\ j - 1 + 1 = j
        BY <2>1, <3>1, <3>3
      <4>2. queue'[j - 1] = Ev("reservation", "accepted", p)
        BY <1>5, <3>1, <4>1
      <4>3. QED
        BY <4>1, <4>2
    <3>4. QED
      BY <3>2, <3>3
  <2>4. QED
    BY <2>2, <2>3
<1>12. CountersCover'
  <2> DEFINE s == SumFunction(reservations)
  <2>1. s \in Nat /\ s' = s
    BY <1>0, SumIsNumber, RelayAssumption
  <2>2. /\ QueuedSum("accepted")' \in Nat
        /\ QueuedSum("accepted") = QueuedSum("accepted")'
             + (IF Is(e, "reservation", "accepted") THEN 1 ELSE 0)
    BY <1>0, QueuedSumTail
  <2>3. /\ QueuedSum("closed")' \in Nat
        /\ QueuedSum("closed") = QueuedSum("closed")'
             + (IF Is(e, "reservation", "closed") THEN 1 ELSE 0)
    BY <1>0, QueuedSumTail
  <2>4. m.reservations_accepted_total + QueuedSum("accepted")
          >= m.reservations_closed_total + QueuedSum("closed") + s
    BY DEF ReservationsInv, CountersCover
  <2>5. r.reservations_accepted_total + QueuedSum("accepted")'
          >= r.reservations_closed_total + QueuedSum("closed")' + s
    <3> HIDE DEF e, m, r, s
    <3>1. r.reservations_accepted_total + QueuedSum("accepted")'
            = m.reservations_accepted_total + QueuedSum("accepted")
      BY <1>2, <1>7, <2>2 DEF ReservationRecorded
    <3>2. r.reservations_closed_total + QueuedSum("closed")'
            = m.reservations_closed_total + QueuedSum("closed")
      BY <1>2, <1>7, <2>3 DEF ReservationRecorded
    <3>3. QED
      BY <2>4, <3>1, <3>2
  <2>6. QED
    BY <2>1, <2>5 DEF CountersCover
<1>13. QED
  BY <1>9, <1>10, <1>11, <1>12 DEF ReservationsInv

\* The step of libp2p keeps it too: a reservation that ends was one.
LEMMA ReservationsHappen ==
  ASSUME RelayShape, ReservationsInv, metrics' = metrics,
         NEW kind, NEW type, NEW who, Happening(kind, type, who)
  PROVE  ReservationsInv'
<1>0. /\ queue \in Seq(RelayEvents) /\ reservations \in [Peers -> Nat]
      /\ Ev(kind, type, who) \in RelayEvents
      /\ queue' = Append(queue, Ev(kind, type, who)) /\ Served' = Served
  BY DEF RelayShape, Happening, Served
<1>1. \A t, p : /\ Queued("reservation", t, p) \in Nat
                /\ Queued("reservation", t, p)' = Queued("reservation", t, p)
                     + (IF kind = "reservation" /\ type = t /\ who = p
                        THEN 1 ELSE 0)
  BY <1>0, QueuedAppend
<1>2. \/ /\ kind = "reservation" /\ type = "accepted" /\ who \in Peers
         /\ reservations' = [reservations EXCEPT ![who] = @ + 1]
      \/ /\ kind = "reservation" /\ type \in {"closed", "timed_out"}
         /\ who \in Peers /\ reservations[who] > 0
         /\ reservations' = [reservations EXCEPT ![who] = @ - 1]
      \/ /\ ~(kind = "reservation" /\ type = "closed")
         /\ reservations' = reservations
  BY DEF Happening
<1>3. HoldersAreListed'
  <2> SUFFICES ASSUME NEW p \in Peers, reservations'[p] > 0
               PROVE  \/ p \in Served.reservation_accepted_peers
                      \/ Queued("reservation", "accepted", p)' > 0
    BY <1>0 DEF HoldersAreListed
  <2>1. CASE reservations[p] > 0
    BY <1>1, <2>1 DEF ReservationsInv, HoldersAreListed
  <2>2. CASE ~(reservations[p] > 0)
    <3>1. kind = "reservation" /\ type = "accepted" /\ who = p
      BY <1>0, <1>2, <2>2
    <3>2. QED
      BY <1>1, <3>1
  <2>3. QED
    BY <2>1, <2>2
<1>4. ClosedAfterAccepted'
  <2> SUFFICES ASSUME NEW p \in Peers, NEW i \in 1..Len(queue'),
                      queue'[i] = Ev("reservation", "closed", p)
               PROVE  \/ p \in Served.reservation_accepted_peers
                      \/ \E j \in 1..(i - 1) :
                           queue'[j] = Ev("reservation", "accepted", p)
    BY <1>0 DEF ClosedAfterAccepted, Ev
  <2> DEFINE n == Len(queue)
             a == Ev("reservation", "accepted", p)
  <2>1. /\ n \in Nat /\ Len(queue') = n + 1
        /\ queue'[n + 1] = Ev(kind, type, who)
        /\ \A j \in 1..n : queue'[j] = queue[j]
    BY <1>0
  <2>2. i \in Nat /\ i >= 1 /\ i <= n + 1
    BY <2>1
  <2>3. CASE i \in 1..n
    <3>1. \/ p \in Served.reservation_accepted_peers
          \/ \E j \in 1..(i - 1) : queue[j] = a
      BY <2>1, <2>3 DEF ReservationsInv, ClosedAfterAccepted
    <3> HIDE DEF a
    <3>2. \A j \in 1..(i - 1) : j \in 1..n
      BY <2>1, <2>3
    <3>3. QED
      BY <2>1, <3>1, <3>2 DEF a
  <2>4. CASE i = n + 1
    <3>1. kind = "reservation" /\ type = "closed" /\ who = p
      BY <2>1, <2>4 DEF Ev
    <3>2. reservations[p] > 0
      BY <1>2, <3>1
    <3>3. CASE Queued("reservation", "accepted", p) > 0
      <4>1. PICK j \in 1..n : queue[j] = a
        BY <1>0, <3>3, QueuedIsThere
      <4> HIDE DEF a
      <4>2. j \in 1..(i - 1) /\ queue'[j] = a
        BY <2>1, <2>4, <4>1
      <4>3. QED
        BY <4>2 DEF a
    <3>4. QED
      BY <3>2, <3>3 DEF ReservationsInv, HoldersAreListed
  <2>5. QED
    BY <2>1, <2>2, <2>3, <2>4
<1>5. CountersCover'
  <2> DEFINE s == SumFunction(reservations)
             c == Served.reservations_accepted_total
             d == Served.reservations_closed_total
  <2>1. s \in Nat
    BY <1>0, SumIsNumber, RelayAssumption
  <2>2. /\ QueuedSum("accepted") \in Nat
        /\ QueuedSum("accepted")' = QueuedSum("accepted")
             + (IF kind = "reservation" /\ type = "accepted" THEN 1 ELSE 0)
    BY <1>0, QueuedSumAppend
  <2>3. /\ QueuedSum("closed") \in Nat
        /\ QueuedSum("closed")' = QueuedSum("closed")
             + (IF kind = "reservation" /\ type = "closed" THEN 1 ELSE 0)
    BY <1>0, QueuedSumAppend
  <2>4. c + QueuedSum("accepted") >= d + QueuedSum("closed") + s
    BY DEF ReservationsInv, CountersCover
  <2>5. c \in Nat /\ d \in Nat
    BY DEF RelayShape, IsService
  <2>6. \/ kind = "reservation" /\ type = "accepted" /\ s' = s + 1
        \/ kind = "reservation" /\ type \in {"closed", "timed_out"} /\ s = s' + 1
        \/ ~(kind = "reservation" /\ type = "closed") /\ s' = s
    <3>1. CASE /\ kind = "reservation" /\ type = "accepted" /\ who \in Peers
               /\ reservations' = [reservations EXCEPT ![who] = @ + 1]
      <4>1. /\ reservations' \in [Peers -> Nat]
            /\ reservations'[who] = reservations[who] + 1
            /\ \A y \in Peers \ {who} : reservations[y] = reservations'[y]
        BY <1>0, <3>1
      <4>2. SumFunction(reservations') = SumFunction(reservations) + 1
        BY <1>0, <3>1, <4>1, SumGrows
      <4>3. QED
        BY <3>1, <4>2
    <3>2. CASE /\ kind = "reservation" /\ type \in {"closed", "timed_out"}
               /\ who \in Peers /\ reservations[who] > 0
               /\ reservations' = [reservations EXCEPT ![who] = @ - 1]
      <4>1. /\ reservations' \in [Peers -> Nat]
            /\ reservations[who] = reservations'[who] + 1
            /\ \A y \in Peers \ {who} : reservations[y] = reservations'[y]
        BY <1>0, <3>2
      <4>2. SumFunction(reservations) = SumFunction(reservations') + 1
        BY <1>0, <3>2, <4>1, SumGrows
      <4>3. QED
        BY <3>2, <4>2
    <3>3. CASE /\ ~(kind = "reservation" /\ type = "closed")
               /\ reservations' = reservations
      BY <3>3
    <3>4. QED
      BY <1>2, <3>1, <3>2, <3>3
  <2>7. s' \in Nat
    <3>1. reservations' \in [Peers -> Nat]
      BY <1>0, <1>2
    <3>2. QED
      BY <3>1, RelayAssumption, SumIsNumber
  <2>8. c + QueuedSum("accepted")' >= d + QueuedSum("closed")' + s'
    <3> HIDE DEF s, c, d
    <3>1. CASE kind = "reservation" /\ type = "accepted" /\ s' = s + 1
      <4>1. /\ QueuedSum("accepted")' = QueuedSum("accepted") + 1
            /\ QueuedSum("closed")' = QueuedSum("closed")
        BY <2>2, <2>3, <3>1
      <4>2. QED
        BY <2>1, <2>2, <2>3, <2>4, <2>5, <3>1, <4>1
    <3>2. CASE /\ kind = "reservation" /\ type \in {"closed", "timed_out"}
               /\ s = s' + 1
      <4>1. /\ QueuedSum("accepted")' = QueuedSum("accepted")
            /\ QueuedSum("closed")' <= QueuedSum("closed") + 1
            /\ QueuedSum("closed")' \in Nat
        BY <2>2, <2>3, <3>2
      <4>2. QED
        BY <2>1, <2>2, <2>3, <2>4, <2>5, <2>7, <3>2, <4>1
    <3>3. CASE ~(kind = "reservation" /\ type = "closed") /\ s' = s
      <4>1. /\ QueuedSum("accepted")' >= QueuedSum("accepted")
            /\ QueuedSum("closed")' = QueuedSum("closed")
            /\ QueuedSum("accepted")' \in Nat
        BY <2>2, <2>3, <3>3
      <4>2. QED
        BY <2>1, <2>2, <2>3, <2>4, <2>5, <3>3, <4>1
    <3>4. QED
      BY <2>6, <3>1, <3>2, <3>3
  <2>9. QED
    BY <1>0, <2>8 DEF CountersCover
<1>6. QED
  BY <1>0, <1>3, <1>4, <1>5 DEF ReservationsInv

\* Every step keeps it.
LEMMA ReservationsStep ==
  RelayShape /\ ReservationsInv /\ [RelayNext]_allVars => ReservationsInv'
<1> SUFFICES ASSUME RelayShape, ReservationsInv, [RelayNext]_allVars
             PROVE  ReservationsInv'
  OBVIOUS
<1>1. CASE UNCHANGED <<circuits, reservations, queue, metrics>>
  BY <1>1 DEF ReservationsInv, HoldersAreListed, CountersCover,
              ClosedAfterAccepted, QueuedSum, Served, Queued, Times, Ev
<1>2. CASE Recording
  BY <1>2, ReservationsRecord
<1>3. CASE Libp2pStep /\ metrics' = metrics
  BY <1>3, HappeningKinds, ReservationsHappen
<1>4. QED
  BY <1>1, <1>2, <1>3, RelayStepKinds

\* For any peers, a peer with a reservation is listed or is about to be, no peer
\* is listed as closed that is not listed as accepted, and the counter of
\* accepted reservations covers those closed and those there
\* (handle_relay_event).
THEOREM ReservationsAreCounted == RelaySpec => []ReservationsAddUp
<1>1. RelayInit => RelayShape /\ ReservationsInv
  <2> SUFFICES ASSUME RelayInit PROVE RelayShape /\ ReservationsInv
    OBVIOUS
  <2>1. /\ RelayShape /\ queue = <<>> /\ Served = NewRelayMetrics
        /\ reservations = [p \in Peers |-> 0]
    BY RelayShapeInit
  <2>2. \A x : Times(<<>>, x) = 0
    BY FS_EmptySet DEF Times
  <2>3. /\ Served.reservation_accepted_peers = {}
        /\ Served.reservation_closed_peers = {}
        /\ Served.reservations_accepted_total = 0
        /\ Served.reservations_closed_total = 0
    BY <2>1 DEF NewRelayMetrics
  <2>4. \A t : [p \in Peers |-> Queued("reservation", t, p)] = reservations
    BY <2>1, <2>2 DEF Queued
  <2>5. SumFunction(reservations) = 0
    <3>1. /\ reservations \in [Peers -> Nat]
          /\ \A p \in Peers : reservations[p] = 0
      BY <2>1
    <3>2. QED
      BY <3>1, SumOfZeros, RelayAssumption
  <2>6. \A t : QueuedSum(t) = 0
    BY <2>4, <2>5 DEF QueuedSum
  <2>7. QED
    BY <2>1, <2>3, <2>5, <2>6 DEF ReservationsInv, HoldersAreListed,
         CountersCover, ClosedAfterAccepted
<1>2. ReservationsInv => ReservationsAddUp
  BY DEF ReservationsInv, ReservationsAddUp, HoldersAreListed, CountersCover,
         QueuedSum
<1>3. QED
  BY <1>1, <1>2, RelayShapeStep, ReservationsStep, PTL DEF RelaySpec
=============================================================================
