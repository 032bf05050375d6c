----------------------------- MODULE FoldProofs -----------------------------
(***************************************************************************)
(* Lemmas about lists, the folds over them and sums, used by the proofs of *)
(* the components.  Induction is stated over sets in place of predicates:  *)
(* a set that holds 0 and is closed under adding one holds every number,   *)
(* because a well-founded relation has minimal elements.                   *)
(***************************************************************************)
EXTENDS Lists, FiniteSets, FiniteSetTheorems, SequenceTheorems,
        WellFoundedInduction, TLAPS

-----------------------------------------------------------------------------
(* Induction *)

\* A set of natural numbers has a least element.
LEMMA LeastNumber ==
  ASSUME NEW T, T \subseteq Nat, T # {}
  PROVE  \E n \in T : \A m \in T : n <= m
<1> DEFINE R == {p \in Nat \X Nat : p[1] < p[2]}
<1>1. IsWellFoundedOn(R, Nat)
  BY NatLessThanWellFounded DEF OpToRel
<1> HIDE DEF R
<1>2. PICK x \in T : \A y \in T : ~(<<y, x>> \in R)
  BY <1>1, WFMin
<1>3. \A y \in T : <<y, x>> \in R \/ x <= y
  BY <1>2 DEF R
<1>4. QED
  BY <1>2, <1>3

\* Induction, over a set in place of a predicate.
LEMMA Induction ==
  ASSUME NEW T, 0 \in T, \A n \in Nat : n \in T => n + 1 \in T
  PROVE  Nat \subseteq T
<1> SUFFICES ASSUME Nat \ T # {} PROVE FALSE
  OBVIOUS
<1>1. PICK n \in Nat \ T : \A m \in Nat \ T : n <= m
  BY LeastNumber
<1>2. n # 0 /\ n - 1 \in Nat
  BY <1>1
<1>3. n - 1 \in T
  BY <1>1, <1>2
<1> QED BY <1>1, <1>2, <1>3

\* The largest element of a set of numbers up to n.
LEMMA MaxOfSet ==
  ASSUME NEW n \in Nat, NEW s \in SUBSET (1..n), s # {}
  PROVE  Max(s) \in s /\ \A y \in s : Max(s) >= y
<1> DEFINE D == {d \in 0..n : n - d \in s}
<1>1. PICK d \in D : \A e \in D : d <= e
  <2>1. PICK x \in s : x \in 1..n
    OBVIOUS
  <2>2. n - x \in D
    BY <2>1
  <2>3. D \subseteq Nat
    OBVIOUS
  <2> HIDE DEF D
  <2>4. QED
    BY <2>2, <2>3, LeastNumber
<1>2. \A y \in s : y \in 1..n /\ n - y \in D
  OBVIOUS
<1>3. n - d \in s /\ \A y \in s : n - d >= y
  BY <1>1, <1>2
<1>4. QED
  BY <1>3 DEF Max

\* The greatest number of an interval that starts at 1.
LEMMA MaxOfInterval ==
  ASSUME NEW n \in Nat \ {0}
  PROVE  Max(1..n) = n
<1>1. 1..n # {} /\ 1..n \in SUBSET (1..n)
  OBVIOUS
<1>2. Max(1..n) \in 1..n /\ \A y \in 1..n : Max(1..n) >= y
  BY <1>1, MaxOfSet
<1>3. QED
  BY <1>2

-----------------------------------------------------------------------------
(* Recursion over the subsets of a finite set *)

\* A function on the subsets of a set that starts with  base  and takes the
\* element  pick[s]  off  s  by  g.
FoldsBy(it, S, base, pick, g) ==
  \A s \in SUBSET S :
    it[s] = IF s = {} THEN base ELSE g[<<pick[s], it[s \ {pick[s]}]>>]

\* There is one.
LEMMA FoldExists ==
  ASSUME NEW S, IsFiniteSet(S), NEW V, NEW base \in V,
         NEW pick \in [(SUBSET S) \ {{}} -> S],
         \A s \in (SUBSET S) \ {{}} : pick[s] \in s,
         NEW g \in [S \X V -> V]
  PROVE  \E it \in [SUBSET S -> V] : FoldsBy(it, S, base, pick, g)
<1> DEFINE Upto(n) == {s \in SUBSET S : Cardinality(s) <= n}
           Folds(n, it) ==
             \A s \in Upto(n) :
               it[s] = IF s = {} THEN base
                                 ELSE g[<<pick[s], it[s \ {pick[s]}]>>]
           T == {n \in Nat : \E it \in [Upto(n) -> V] : Folds(n, it)}
<1>1. \A s \in SUBSET S : IsFiniteSet(s) /\ Cardinality(s) \in Nat
  BY FS_Subset, FS_CardinalityType
<1>2. 0 \in T
  <2>1. \A s \in Upto(0) : s = {}
    BY <1>1, FS_EmptySet
  <2>2. [s \in Upto(0) |-> base] \in [Upto(0) -> V]
        /\ Folds(0, [s \in Upto(0) |-> base])
    BY <2>1
  <2>3. QED
    BY <2>2
<1>3. ASSUME NEW n \in Nat, n \in T PROVE n + 1 \in T
  <2>1. PICK it \in [Upto(n) -> V] : Folds(n, it)
    BY <1>3
  <2> DEFINE next ==
        [s \in Upto(n + 1) |-> IF s = {} THEN base
                                 ELSE g[<<pick[s], it[s \ {pick[s]}]>>]]
  <2>2. \A s \in Upto(n + 1) \ {{}} : s \ {pick[s]} \in Upto(n)
    <3> TAKE s \in Upto(n + 1) \ {{}}
    <3>1. Cardinality(s \ {pick[s]}) = Cardinality(s) - 1
      BY <1>1, FS_RemoveElement
    <3>2. QED
      BY <1>1, <3>1
  <2>3. next \in [Upto(n + 1) -> V]
    BY <2>2
  <2>4. \A s \in Upto(n) : s \in Upto(n + 1) /\ next[s] = it[s]
    BY <1>1, <2>1
  <2>5. Folds(n + 1, next)
    BY <2>2, <2>4
  <2>6. \E new \in [Upto(n + 1) -> V] : Folds(n + 1, new)
    <3> HIDE DEF next, Folds, Upto
    <3>1. QED
      BY <2>3, <2>5
  <2>7. QED
    <3> HIDE DEF Folds, Upto
    <3>1. QED
      BY <2>6
<1>4. Nat \subseteq T
  <2> HIDE DEF T
  <2>1. QED
    BY <1>2, <1>3, Induction
<1>5. Cardinality(S) \in Nat /\ Upto(Cardinality(S)) = SUBSET S
  BY <1>1, FS_Subset, FS_CardinalityType
<1>6. PICK it \in [Upto(Cardinality(S)) -> V] : Folds(Cardinality(S), it)
  BY <1>4, <1>5
<1>7. it \in [SUBSET S -> V]
  <2> HIDE DEF Upto
  <2>1. QED
    BY <1>5, <1>6
<1>8. QED
  BY <1>5, <1>6, <1>7 DEF FoldsBy

-----------------------------------------------------------------------------
(* Folds over sequences *)

\* The last position of every set of positions of a sequence.
LastOf(n) == [s \in (SUBSET (1..n)) \ {{}} |-> Max(s)]

\* The fold of a sequence from its first element on, as a function on numbers.
LEMMA FoldLeftExists ==
  ASSUME NEW n \in Nat, NEW V, NEW base \in V, NEW g \in [(1..n) \X V -> V]
  PROVE  \E it \in [SUBSET (1..n) -> V] : FoldsBy(it, 1..n, base, LastOf(n), g)
<1>1. IsFiniteSet(1..n)
  BY FS_Interval
<1>2. \A s \in (SUBSET (1..n)) \ {{}} : Max(s) \in s
  BY MaxOfSet
<1>3. /\ LastOf(n) \in [(SUBSET (1..n)) \ {{}} -> 1..n]
      /\ \A s \in (SUBSET (1..n)) \ {{}} : LastOf(n)[s] \in s
  BY <1>2 DEF LastOf
<1>4. QED
  BY <1>1, <1>3, FoldExists

\* The sets of first positions, which such a fold goes through.
LEMMA FirstPositions ==
  ASSUME NEW n \in Nat, NEW k \in 1..n
  PROVE  /\ 1..k \in SUBSET (1..n) /\ 1..k # {}
         /\ Max(1..k) = k
         /\ (1..k) \ {k} = 1..(k - 1)
<1>1. Max(1..k) = k
  BY MaxOfInterval
<1>2. QED
  BY <1>1

\* A sequence of values that starts in a set and never leaves it.
LEMMA StaysIn ==
  ASSUME NEW n \in Nat, NEW V, NEW h, h[0] \in V,
         \A k \in 1..n : h[k - 1] \in V => h[k] \in V
  PROVE  \A k \in 0..n : h[k] \in V
<1> DEFINE T == {k \in Nat : k <= n => h[k] \in V}
<1>1. 0 \in T
  OBVIOUS
<1>2. ASSUME NEW k \in Nat, k \in T PROVE k + 1 \in T
  <2>1. CASE k + 1 <= n
    <3>1. k + 1 \in 1..n /\ (k + 1) - 1 = k /\ h[k] \in V
      BY <1>2, <2>1
    <3>2. h[k + 1] \in V
      BY <3>1
    <3>3. QED
      BY <3>2
  <2>2. QED
    BY <2>1
<1>3. Nat \subseteq T
  <2> HIDE DEF T
  <2>1. QED
    BY <1>1, <1>2, Induction
<1>4. QED
  BY <1>3

\* r  is what  f  leads to from  base  through the elements of  s  in order.
RunsTo(s, V, base, f, r) ==
  \E h : /\ h \in [0..Len(s) -> V] /\ h[0] = base
         /\ \A k \in 1..Len(s) : h[k] = f[<<h[k - 1], s[k]>>]
         /\ r = h[Len(s)]

\* A function on sets of positions that folds the elements at them by  f.
FoldsSeq(it, s, V, base, f) ==
  /\ it[{}] = base
  /\ \A t \in (SUBSET (1..Len(s))) \ {{}} :
       it[t \ {Max(t)}] \in V => it[t] = f[<<it[t \ {Max(t)}], s[Max(t)]>>]

\* There is one with values in the fold's set.
LEMMA FoldsSeqExists ==
  ASSUME NEW E, NEW s \in Seq(E), NEW V, NEW base \in V,
         NEW f \in [V \X E -> V]
  PROVE  \E it \in [SUBSET (1..Len(s)) -> V] : FoldsSeq(it, s, V, base, f)
<1> DEFINE n == Len(s)
           g == [p \in (1..n) \X V |-> f[<<p[2], s[p[1]]>>]]
<1>1. n \in Nat /\ \A k \in 1..n : s[k] \in E
  OBVIOUS
<1>2. /\ g \in [(1..n) \X V -> V]
      /\ \A k \in 1..n, v \in V : g[<<k, v>>] = f[<<v, s[k]>>]
  BY <1>1
<1>3. PICK it \in [SUBSET (1..n) -> V] : FoldsBy(it, 1..n, base, LastOf(n), g)
  <2> HIDE DEF g, n
  <2> QED BY <1>1, <1>2, FoldLeftExists
<1>4. \A t \in (SUBSET (1..n)) \ {{}} :
        Max(t) \in 1..n /\ t \ {Max(t)} \in SUBSET (1..n)
  BY <1>1, MaxOfSet
<1>5. it[{}] = base
  BY <1>3 DEF FoldsBy
<1>6. ASSUME NEW t \in (SUBSET (1..n)) \ {{}}
      PROVE  it[t] = f[<<it[t \ {Max(t)}], s[Max(t)]>>]
  <2> HIDE DEF g, n
  <2>1. it[t] = g[<<Max(t), it[t \ {Max(t)}]>>]
    BY <1>3 DEF FoldsBy, LastOf
  <2>2. it[t \ {Max(t)}] \in V
    BY <1>3, <1>4
  <2>3. QED
    BY <1>2, <1>4, <2>1, <2>2
<1>7. QED
  BY <1>3, <1>5, <1>6 DEF FoldsSeq

\* Such a function gives the run through the whole sequence.
LEMMA FoldsSeqRuns ==
  ASSUME NEW E, NEW s \in Seq(E), NEW V, NEW base \in V,
         NEW f \in [V \X E -> V], NEW it, FoldsSeq(it, s, V, base, f)
  PROVE  RunsTo(s, V, base, f, it[1..Len(s)])
<1> DEFINE n == Len(s)
           h == [k \in 0..n |-> it[1..k]]
<1>1. n \in Nat /\ 1..0 = {} /\ \A k \in 1..n : s[k] \in E /\ k - 1 \in 0..n
  OBVIOUS
<1>2. h[0] = base /\ h[n] = it[1..n]
  <2>1. h[0] = it[1..0] /\ h[n] = it[1..n]
    BY <1>1
  <2>2. QED
    BY <1>1, <2>1 DEF FoldsSeq
<1>3. ASSUME NEW k \in 1..n
      PROVE  h[k - 1] \in V => h[k] = f[<<h[k - 1], s[k]>>]
  <2>1. /\ 1..k \in (SUBSET (1..n)) \ {{}} /\ Max(1..k) = k
        /\ (1..k) \ {k} = 1..(k - 1)
    BY <1>1, FirstPositions
  <2>2. it[1..(k - 1)] \in V => it[1..k] = f[<<it[1..(k - 1)], s[k]>>]
    BY <2>1 DEF FoldsSeq
  <2>3. h[k] = it[1..k] /\ h[k - 1] = it[1..(k - 1)]
    BY <1>1
  <2>4. QED
    BY <2>2, <2>3
<1>4. \A k \in 0..n : h[k] \in V
  <2> HIDE DEF h
  <2>1. \A k \in 1..n : h[k - 1] \in V => h[k] \in V
    BY <1>1, <1>3
  <2>2. h[0] \in V
    BY <1>2
  <2> HIDE DEF n
  <2>3. QED
    BY <1>1, <2>1, <2>2, StaysIn
<1>5. h \in [0..n -> V]
  BY <1>4
<1>6. \A k \in 1..n : h[k] = f[<<h[k - 1], s[k]>>]
  <2> HIDE DEF h
  <2>1. QED
    BY <1>1, <1>3, <1>4
<1>7. QED
  <2> HIDE DEF h
  <2>1. QED
    BY <1>2, <1>5, <1>6 DEF RunsTo

\* One more element is one more step of the run, and the empty sequence none.
LEMMA RunsToAppend ==
  ASSUME NEW E, NEW s \in Seq(E), NEW e \in E, NEW V, NEW base,
         NEW f, NEW r, NEW q,
         RunsTo(s, V, base, f, r), RunsTo(Append(s, e), V, base, f, q)
  PROVE  r \in V /\ q = f[<<r, e>>]
<1> DEFINE n == Len(s)
           t == Append(s, e)
<1>1. PICK u : /\ u \in [0..n -> V] /\ u[0] = base
               /\ \A k \in 1..n : u[k] = f[<<u[k - 1], s[k]>>]
               /\ r = u[n]
  BY DEF RunsTo
<1>2. /\ n \in Nat /\ Len(t) = n + 1 /\ t[n + 1] = e
      /\ \A k \in 1..n : t[k] = s[k] /\ k \in 1..(n + 1)
  OBVIOUS
<1>3. PICK v : /\ v \in [0..(n + 1) -> V] /\ v[0] = base
               /\ \A k \in 1..(n + 1) : v[k] = f[<<v[k - 1], t[k]>>]
               /\ q = v[n + 1]
  <2> HIDE DEF t
  <2> QED BY <1>2 DEF RunsTo, t
<1> HIDE DEF t, n
<1> DEFINE N == {k \in Nat : k <= n => u[k] = v[k]}
<1>4. 0 \in N
  BY <1>1, <1>3
<1>5. ASSUME NEW k \in Nat, k \in N PROVE k + 1 \in N
  <2> SUFFICES ASSUME k + 1 <= n PROVE u[k + 1] = v[k + 1]
    OBVIOUS
  <2>1. k + 1 \in 1..n /\ k + 1 \in 1..(n + 1) /\ (k + 1) - 1 = k
        /\ u[k] = v[k] /\ t[k + 1] = s[k + 1]
    BY <1>2, <1>5
  <2>2. u[k + 1] = f[<<u[k], s[k + 1]>>] /\ v[k + 1] = f[<<v[k], t[k + 1]>>]
    BY <1>1, <1>3, <2>1
  <2>3. QED
    BY <2>1, <2>2
<1>6. Nat \subseteq N
  <2> HIDE DEF N
  <2>1. QED
    BY <1>4, <1>5, Induction
<1>7. u[n] = v[n] /\ u[n] \in V
  BY <1>1, <1>2, <1>6
<1>8. v[n + 1] = f[<<v[n], t[n + 1]>>]
  <2>1. n + 1 \in 1..(n + 1) /\ (n + 1) - 1 = n
    BY <1>2
  <2>2. QED
    BY <1>3, <2>1
<1>9. QED
  BY <1>1, <1>2, <1>3, <1>7, <1>8

\* A fold over nothing returns the start value.
LEMMA RunsToEmpty ==
  ASSUME NEW V, NEW base, NEW f, NEW r, RunsTo(<<>>, V, base, f, r)
  PROVE  r = base
<1>1. Len(<<>>) = 0
  OBVIOUS
<1>2. QED
  BY <1>1 DEF RunsTo

\* Induction over sequences.
LEMMA SeqInduction ==
  ASSUME NEW E, NEW T, <<>> \in T,
         \A s \in Seq(E), e \in E : s \in T => Append(s, e) \in T
  PROVE  Seq(E) \subseteq T
<1> DEFINE N == {n \in Nat : \A s \in Seq(E) : Len(s) = n => s \in T}
<1>1. 0 \in N
  OBVIOUS
<1>2. ASSUME NEW n \in Nat, n \in N PROVE n + 1 \in N
  <2>1. ASSUME NEW s \in Seq(E), Len(s) = n + 1 PROVE s \in T
    <3> DEFINE r == SubSeq(s, 1, n)
    <3>1. r \in Seq(E) /\ Len(r) = n /\ s[n + 1] \in E
      BY <2>1
    <3>2. s = Append(r, s[n + 1])
      BY <2>1
    <3> HIDE DEF r
    <3>3. r \in T
      BY <1>2, <3>1
    <3>4. QED
      BY <3>1, <3>2, <3>3
  <2>2. QED
    BY <2>1
<1>3. Nat \subseteq N
  <2> HIDE DEF N
  <2>1. QED
    BY <1>1, <1>2, Induction
<1>4. QED
  BY <1>3

\* The values of a list's elements, one more with every new element.
LEMMA RangeOfAppend ==
  ASSUME NEW E, NEW s \in Seq(E), NEW e \in E
  PROVE  Range(s) \subseteq E /\ Range(Append(s, e)) = Range(s) \cup {e}
<1>1. Range(s) \subseteq E
  BY DEF Range
<1>2. /\ Append(s, e) \in Seq(E) /\ Len(Append(s, e)) = Len(s) + 1
      /\ Append(s, e)[Len(s) + 1] = e
      /\ \A i \in 1..Len(s) : Append(s, e)[i] = s[i]
      /\ Len(s) \in Nat /\ DOMAIN s = 1..Len(s)
      /\ DOMAIN Append(s, e) = 1..(Len(s) + 1)
  OBVIOUS
<1>3. QED
  BY <1>1, <1>2 DEF Range

\* There are finitely many of them.
LEMMA RangeIsFinite ==
  ASSUME NEW E, NEW s \in Seq(E)
  PROVE  IsFiniteSet(Range(s))
<1>1. IsFiniteSet(1..Len(s))
  BY FS_Interval
<1>2. s \in Surjection(1..Len(s), Range(s))
  BY DEF Range, Surjection
<1>3. QED
  BY <1>1, <1>2, FS_Surjection

\* A part of a list that ends one element later.
LEMMA SubSeqGrows ==
  ASSUME NEW E, NEW s \in Seq(E), NEW i \in Nat \ {0}, NEW k \in Nat,
         i <= k, k <= Len(s)
  PROVE  /\ SubSeq(s, i, k - 1) \in Seq(E) /\ s[k] \in E
         /\ SubSeq(s, i, k) = Append(SubSeq(s, i, k - 1), s[k])
<1>1. /\ SubSeq(s, i, k - 1) \in Seq(E) /\ s[k] \in E
      /\ Len(SubSeq(s, i, k - 1)) = k - i
      /\ \A j \in 1..(k - i) : SubSeq(s, i, k - 1)[j] = s[i + j - 1]
  OBVIOUS
<1>2. /\ SubSeq(s, i, k) \in Seq(E) /\ Len(SubSeq(s, i, k)) = k - i + 1
      /\ \A j \in 1..(k - i + 1) : SubSeq(s, i, k)[j] = s[i + j - 1]
  OBVIOUS
<1> DEFINE a == SubSeq(s, i, k - 1)
           b == SubSeq(s, i, k)
           q == Append(a, s[k])
           n == k - i
<1>3. n \in Nat /\ i + (n + 1) - 1 = k
  OBVIOUS
<1>4. /\ a \in Seq(E) /\ Len(a) = n /\ s[k] \in E
      /\ \A j \in 1..n : a[j] = s[i + j - 1]
      /\ b \in Seq(E) /\ Len(b) = n + 1
      /\ \A j \in 1..(n + 1) : b[j] = s[i + j - 1]
  BY <1>1, <1>2
<1> HIDE DEF a, b, n
<1>5. /\ q \in Seq(E) /\ Len(q) = n + 1 /\ q[n + 1] = s[k]
      /\ \A j \in 1..n : q[j] = a[j]
  BY <1>4
<1> HIDE DEF q
<1>6. ASSUME NEW j \in 1..(n + 1) PROVE b[j] = q[j]
  <2>1. CASE j = n + 1
    <3>1. b[n + 1] = s[i + (n + 1) - 1]
      BY <1>3, <1>4
    <3>2. QED
      BY <1>3, <1>5, <2>1, <3>1
  <2>2. CASE j \in 1..n
    BY <1>4, <1>5, <2>2
  <2>3. QED
    BY <1>3, <2>1, <2>2
<1>7. b = q
  BY <1>4, <1>5, <1>6, SeqEqual
<1>8. QED
  BY <1>1, <1>7 DEF a, b, q

\* A part of a list is a part of the longer list.
LEMMA SubSeqOfAppend ==
  ASSUME NEW E, NEW s \in Seq(E), NEW e \in E,
         NEW i \in Nat \ {0}, NEW k \in Nat, k <= Len(s)
  PROVE  SubSeq(Append(s, e), i, k) = SubSeq(s, i, k)
  OBVIOUS

-----------------------------------------------------------------------------
(* Filters *)

\* One step of a filter.
KeepStep(E, T) == [p \in Seq(E) \X E |-> AddIf(p[1], p[2], T)]

\* A filter goes through the list element by element, whatever set the lists it
\* builds are in.
LEMMA KeepRuns ==
  ASSUME NEW E, NEW s \in Seq(E), NEW T
  PROVE  RunsTo(s, Seq(E), <<>>, KeepStep(E, T), Keep(s, T))
<1> DEFINE n == Len(s)
           V == Seq(E)
           f == KeepStep(E, T)
           P(it) == it = [t \in SUBSET (1..n) |->
                            IF t = {} THEN <<>>
                            ELSE AddIf(it[t \ {Max(t)}], s[Max(t)], T)]
           it == CHOOSE it : P(it)
<1>1. f \in [V \X E -> V] /\ <<>> \in V
  BY DEF AddIf, KeepStep
<1>2. \A v \in V, e \in E : f[<<v, e>>] = AddIf(v, e, T)
  BY DEF KeepStep
<1>3. n \in Nat /\ DOMAIN s = 1..n /\ \A k \in 1..n : s[k] \in E
  OBVIOUS
<1> HIDE DEF n, f, V
<1>4. \A t \in (SUBSET (1..n)) \ {{}} :
        Max(t) \in 1..n /\ t \ {Max(t)} \in SUBSET (1..n)
  BY <1>3, MaxOfSet
<1>5. PICK w \in [SUBSET (1..n) -> V] : FoldsSeq(w, s, V, <<>>, f)
  BY <1>1, FoldsSeqExists DEF n, V
<1>6. P(w)
  <2>1. \A t \in (SUBSET (1..n)) \ {{}} :
          w[t] = AddIf(w[t \ {Max(t)}], s[Max(t)], T)
    BY <1>2, <1>3, <1>4, <1>5 DEF FoldsSeq, n
  <2>2. w[{}] = <<>>
    BY <1>5 DEF FoldsSeq
  <2>3. QED
    BY <2>1, <2>2
<1>7. P(it)
  <2> HIDE DEF P
  <2> QED BY <1>6
<1>8. Keep(s, T) = it[1..n]
  BY <1>3 DEF Keep, FoldLeft, MapThenFoldSet
<1>9. FoldsSeq(it, s, V, <<>>, f)
  <2> HIDE DEF it
  <2>1. \A t \in (SUBSET (1..n)) \ {{}} :
          it[t] = AddIf(it[t \ {Max(t)}], s[Max(t)], T)
    BY <1>7
  <2>2. it[{}] = <<>>
    BY <1>7
  <2>3. QED
    BY <1>2, <1>3, <1>4, <2>1, <2>2 DEF FoldsSeq, n
<1> HIDE DEF it
<1>10. RunsTo(s, V, <<>>, f, it[1..Len(s)])
  BY <1>1, <1>9, FoldsSeqRuns
<1>11. QED
  BY <1>8, <1>10 DEF n, V, f

\* A filter of a list with one element more, and of the empty list.
LEMMA KeepAppend ==
  ASSUME NEW E, NEW T
  PROVE  /\ Keep(<<>>, T) = <<>>
         /\ \A s \in Seq(E), e \in E :
              /\ Keep(s, T) \in Seq(E)
              /\ Keep(Append(s, e), T) = AddIf(Keep(s, T), e, T)
<1> DEFINE f == KeepStep(E, T)
           V == Seq(E)
<1>1. f \in [V \X E -> V] /\ <<>> \in V
  BY DEF AddIf, KeepStep
<1>2. \A v \in V, e \in E : f[<<v, e>>] = AddIf(v, e, T)
  BY DEF KeepStep
<1> HIDE DEF f
<1>3. Keep(<<>>, T) = <<>>
  <2>1. RunsTo(<<>>, V, <<>>, f, Keep(<<>>, T))
    BY <1>1, KeepRuns DEF f
  <2>2. QED
    BY <2>1, RunsToEmpty
<1>4. ASSUME NEW s \in Seq(E), NEW e \in E
      PROVE  /\ Keep(s, T) \in Seq(E)
             /\ Keep(Append(s, e), T) = AddIf(Keep(s, T), e, T)
  <2>1. RunsTo(s, V, <<>>, f, Keep(s, T))
    BY KeepRuns DEF f
  <2>2. Append(s, e) \in Seq(E)
    OBVIOUS
  <2>3. RunsTo(Append(s, e), V, <<>>, f, Keep(Append(s, e), T))
    BY <2>2, KeepRuns DEF f
  <2> HIDE DEF V
  <2>4. Keep(s, T) \in V /\ Keep(Append(s, e), T) = f[<<Keep(s, T), e>>]
    BY <2>1, <2>3, RunsToAppend
  <2>5. QED
    BY <1>2, <2>4 DEF V
<1>5. QED
  BY <1>3, <1>4

\* A step of a filter as a concatenation.
LEMMA AddIfIsConcat ==
  ASSUME NEW E, NEW l \in Seq(E), NEW e \in E, NEW T
  PROVE  AddIf(l, e, T) = l \o (IF e \in T THEN <<e>> ELSE <<>>)
<1>1. l \o <<e>> = Append(l, e) /\ l \o <<>> = l
  OBVIOUS
<1>2. QED
  BY <1>1 DEF AddIf

\* The places of the kept elements in the list they are kept from.
PlacedBy(k, s, T, m) ==
  /\ m \in [1..Len(k) -> 1..Len(s)]
  /\ \A i, j \in 1..Len(k) : i < j => m[i] < m[j]
  /\ \A i \in 1..Len(k) : k[i] = s[m[i]] /\ k[i] \in T

\* A filter keeps elements of the set, in their order.
LEMMA KeepPlaces ==
  ASSUME NEW E, NEW s \in Seq(E), NEW T
  PROVE  \E m : PlacedBy(Keep(s, T), s, T, m)
<1> DEFINE N == {r \in Seq(E) : \E m : PlacedBy(Keep(r, T), r, T, m)}
<1>1. <<>> \in N
  <2>1. Keep(<<>>, T) = <<>>
    BY KeepAppend
  <2>2. PlacedBy(<<>>, <<>>, T, <<>>)
    BY DEF PlacedBy
  <2>3. <<>> \in Seq(E)
    OBVIOUS
  <2>4. QED
    BY <2>1, <2>2, <2>3
<1>2. ASSUME NEW r \in Seq(E), NEW e \in E, r \in N PROVE Append(r, e) \in N
  <2>1. PICK m : PlacedBy(Keep(r, T), r, T, m)
    BY <1>2
  <2> DEFINE k == Keep(r, T)
             q == Append(r, e)
             l == Append(k, e)
  <2>2. k \in Seq(E) /\ Keep(q, T) = AddIf(k, e, T)
    BY KeepAppend
  <2>3. q \in Seq(E)
    OBVIOUS
  <2> HIDE DEF k
  <2>4. /\ Len(l) = Len(k) + 1 /\ Len(q) = Len(r) + 1
        /\ Len(k) \in Nat /\ Len(r) \in Nat
        /\ l[Len(l)] = e /\ q[Len(q)] = e
        /\ \A i \in 1..Len(k) : l[i] = k[i]
        /\ \A i \in 1..Len(r) : q[i] = r[i] /\ i \in 1..Len(q)
    BY <2>2
  <2>5. /\ m \in [1..Len(k) -> 1..Len(r)]
        /\ \A i, j \in 1..Len(k) : i < j => m[i] < m[j]
        /\ \A i \in 1..Len(k) : k[i] = r[m[i]] /\ k[i] \in T
    BY <2>1 DEF PlacedBy, k
  <2> HIDE DEF l, q
  <2>6. CASE e \notin T
    <3>1. m \in [1..Len(k) -> 1..Len(q)]
      BY <2>4, <2>5
    <3>2. \A i \in 1..Len(k) : k[i] = q[m[i]]
      BY <2>4, <2>5
    <3>3. PlacedBy(k, q, T, m)
      BY <2>5, <3>1, <3>2 DEF PlacedBy
    <3>4. QED
      BY <2>2, <2>3, <2>6, <3>3 DEF AddIf, q
  <2>7. CASE e \in T
    <3> DEFINE u == [i \in 1..Len(l) |-> IF i = Len(l) THEN Len(q) ELSE m[i]]
    <3>1. /\ Len(l) \in 1..Len(l) /\ u[Len(l)] = Len(q)
          /\ \A i \in 1..Len(k) : i \in 1..Len(l) /\ u[i] = m[i]
          /\ \A i \in 1..Len(l) : i = Len(l) \/ i \in 1..Len(k)
      BY <2>4
    <3>2. \A i \in 1..Len(k) : m[i] \in 1..Len(r) /\ m[i] < Len(q)
      BY <2>4, <2>5
    <3>3. u \in [1..Len(l) -> 1..Len(q)]
      BY <2>4, <2>5
    <3> HIDE DEF u
    <3>4. ASSUME NEW i \in 1..Len(l), NEW j \in 1..Len(l), i < j
          PROVE  u[i] < u[j]
      <4>1. i \in 1..Len(k)
        BY <2>4, <3>1, <3>4
      <4>2. QED
        BY <2>5, <3>1, <3>2, <3>4, <4>1
    <3>5. ASSUME NEW i \in 1..Len(l) PROVE l[i] = q[u[i]] /\ l[i] \in T
      <4>1. CASE i = Len(l)
        BY <2>4, <2>7, <3>1, <4>1
      <4>2. CASE i \in 1..Len(k)
        <5>1. l[i] = k[i]
          BY <2>4, <4>2
        <5>2. k[i] = r[m[i]] /\ k[i] \in T
          BY <2>5, <4>2
        <5>3. u[i] = m[i] /\ m[i] \in 1..Len(r)
          BY <3>1, <3>2, <4>2
        <5>4. q[m[i]] = r[m[i]]
          BY <2>4, <5>3
        <5>5. QED
          BY <5>1, <5>2, <5>3, <5>4
      <4>3. QED
        BY <3>1, <4>1, <4>2
    <3>6. PlacedBy(l, q, T, u)
      BY <3>3, <3>4, <3>5 DEF PlacedBy
    <3>7. Keep(q, T) = l
      BY <2>2, <2>7 DEF AddIf, l
    <3>8. QED
      BY <2>3, <3>6, <3>7 DEF q
  <2>8. QED
    BY <2>6, <2>7
<1>3. Seq(E) \subseteq N
  <2> HIDE DEF N
  <2>1. QED
    BY <1>1, <1>2, SeqInduction
<1>4. QED
  BY <1>3

\* An element more: it is kept, or not.
LEMMA KeepOneMore ==
  ASSUME NEW E, NEW T, NEW s \in Seq(E), NEW e \in E
  PROVE  /\ e \in T => Keep(Append(s, e), T) = Append(Keep(s, T), e)
         /\ e \notin T => Keep(Append(s, e), T) = Keep(s, T)
<1>1. Keep(Append(s, e), T) = AddIf(Keep(s, T), e, T)
  BY KeepAppend
<1>2. QED
  BY <1>1 DEF AddIf

\* It has elements of the list only.
LEMMA KeepKind ==
  ASSUME NEW E, NEW s \in Seq(E), NEW T
  PROVE  Keep(s, T) \in Seq(E)
<1> DEFINE V == Seq(E)
<1>1. RunsTo(s, V, <<>>, KeepStep(E, T), Keep(s, T))
  BY KeepRuns
<1> HIDE DEF V
<1>2. Keep(s, T) \in V
  BY <1>1 DEF RunsTo
<1>3. QED
  BY <1>2 DEF V

\* What is kept of a list is what it has of the set.
LEMMA KeepRange ==
  ASSUME NEW E, NEW s \in Seq(E), NEW T
  PROVE  Range(Keep(s, T)) = Range(s) \cap T
<1> DEFINE N == {r \in Seq(E) : Range(Keep(r, T)) = Range(r) \cap T}
<1>1. <<>> \in N
  <2>1. Keep(<<>>, T) = <<>> /\ <<>> \in Seq(E)
    BY KeepAppend
  <2>2. Range(<<>>) = {}
    BY DEF Range
  <2>3. QED
    BY <2>1, <2>2
<1>2. ASSUME NEW r \in Seq(E), NEW e \in E, r \in N PROVE Append(r, e) \in N
  <2> DEFINE k == Keep(r, T)
             q == Append(r, e)
  <2>1. k \in Seq(E) /\ q \in Seq(E)
    BY KeepKind
  <2>2. /\ e \in T => Keep(q, T) = Append(k, e)
        /\ e \notin T => Keep(q, T) = k
    BY KeepOneMore
  <2>3. Range(q) = Range(r) \cup {e}
    BY RangeOfAppend
  <2>4. Range(k) = Range(r) \cap T
    BY <1>2
  <2> HIDE DEF k, q
  <2>5. Range(Append(k, e)) = Range(k) \cup {e}
    BY <2>1, RangeOfAppend
  <2>6. Range(Keep(q, T)) = Range(q) \cap T
    BY <2>2, <2>3, <2>4, <2>5
  <2>7. QED
    BY <2>1, <2>6 DEF q
<1>3. Seq(E) \subseteq N
  <2> HIDE DEF N
  <2>1. QED
    BY <1>1, <1>2, SeqInduction
<1>4. QED
  BY <1>3

\* An element at the end of a concatenation.
LEMMA AddIfToConcat ==
  ASSUME NEW E, NEW s \in Seq(E), NEW t \in Seq(E), NEW e \in E, NEW T
  PROVE  AddIf(s \o t, e, T) = s \o AddIf(t, e, T)
<1>1. Append(s \o t, e) = s \o Append(t, e)
  OBVIOUS
<1>2. QED
  BY <1>1 DEF AddIf

\* A list in two parts.
LEMMA TwoParts ==
  ASSUME NEW E, NEW s \in Seq(E), NEW n \in 0..Len(s)
  PROVE  /\ SubSeq(s, 1, n) \in Seq(E) /\ SubSeq(s, n + 1, Len(s)) \in Seq(E)
         /\ s = SubSeq(s, 1, n) \o SubSeq(s, n + 1, Len(s))
<1> DEFINE a == SubSeq(s, 1, n)
           b == SubSeq(s, n + 1, Len(s))
<1>1. /\ a \in Seq(E) /\ Len(a) = n /\ \A i \in 1..n : a[i] = s[i]
      /\ Len(s) \in Nat
  OBVIOUS
<1>2. /\ b \in Seq(E) /\ Len(b) = Len(s) - n
      /\ \A i \in 1..(Len(s) - n) : b[i] = s[n + i]
  OBVIOUS
<1> HIDE DEF a, b
<1>3. /\ a \o b \in Seq(E) /\ Len(a \o b) = Len(s)
      /\ \A i \in 1..n : (a \o b)[i] = a[i]
      /\ \A i \in (n + 1)..Len(s) : (a \o b)[i] = b[i - n]
  BY <1>1, <1>2
<1>4. \A i \in 1..Len(s) : (a \o b)[i] = s[i]
  <2> TAKE i \in 1..Len(s)
  <2>1. CASE i <= n
    BY <1>1, <1>3, <2>1
  <2>2. CASE i > n
    <3>1. i \in (n + 1)..Len(s) /\ i - n \in 1..(Len(s) - n) /\ n + (i - n) = i
      BY <1>1, <2>2
    <3>2. (a \o b)[i] = b[i - n] /\ b[i - n] = s[n + (i - n)]
      BY <1>2, <1>3, <3>1
    <3>3. QED
      BY <3>1, <3>2
  <2>3. i <= n \/ i > n
    BY <1>1
  <2>4. QED
    BY <2>1, <2>2, <2>3
<1>5. s = a \o b
  <2> DEFINE c == a \o b
  <2> HIDE DEF c
  <2>1. c \in Seq(E) /\ Len(c) = Len(s) /\ \A i \in 1..Len(s) : c[i] = s[i]
    BY <1>3, <1>4 DEF c
  <2>2. c = s
    BY <2>1, SeqEqual
  <2>3. QED
    BY <2>2 DEF c
<1>6. QED
  BY <1>1, <1>2, <1>5 DEF a, b

\* A filter of a concatenation, and of the first part of a list.
LEMMA KeepConcat ==
  ASSUME NEW E, NEW T, NEW s \in Seq(E), NEW t \in Seq(E)
  PROVE  Keep(s \o t, T) = Keep(s, T) \o Keep(t, T)
<1> DEFINE N == {r \in Seq(E) : Keep(s \o r, T) = Keep(s, T) \o Keep(r, T)}
<1>1. <<>> \in N
  <2>1. s \o <<>> = s /\ <<>> \in Seq(E)
    OBVIOUS
  <2>2. Keep(<<>>, T) = <<>> /\ Keep(s, T) \in Seq(E)
    BY KeepAppend, KeepKind
  <2>3. Keep(s, T) \o <<>> = Keep(s, T)
    BY <2>2
  <2>4. QED
    BY <2>1, <2>2, <2>3
<1>2. ASSUME NEW r \in Seq(E), NEW e \in E, r \in N PROVE Append(r, e) \in N
  <2> DEFINE k == Keep(s, T)
             l == Keep(r, T)
             m == Keep(s \o r, T)
  <2>1. /\ s \o Append(r, e) = Append(s \o r, e)
        /\ s \o r \in Seq(E) /\ Append(r, e) \in Seq(E)
    OBVIOUS
  <2>2. k \in Seq(E) /\ l \in Seq(E) /\ m = k \o l
    BY <1>2, KeepKind
  <2>3. /\ Keep(Append(r, e), T) = AddIf(l, e, T)
        /\ Keep(Append(s \o r, e), T) = AddIf(m, e, T)
    BY <2>1, KeepAppend
  <2> HIDE DEF k, l, m
  <2>4. AddIf(k \o l, e, T) = k \o AddIf(l, e, T)
    <3>1. k \in Seq(E) /\ l \in Seq(E)
      BY <2>2
    <3>2. QED
      BY <3>1, AddIfToConcat
  <2>5. Keep(s \o Append(r, e), T) = k \o Keep(Append(r, e), T)
    BY <2>1, <2>2, <2>3, <2>4
  <2>6. QED
    BY <2>1, <2>5 DEF k
<1>3. Seq(E) \subseteq N
  <2> HIDE DEF N
  <2>1. QED
    BY <1>1, <1>2, SeqInduction
<1>4. QED
  BY <1>3

\* The first part of a list is a prefix of it.
LEMMA ConcatPrefix ==
  ASSUME NEW E, NEW s \in Seq(E), NEW t \in Seq(E)
  PROVE  IsPrefix(s, s \o t)
  BY DEF IsPrefix

\* Moving an element from the front of one list to the end of another leaves
\* the two in a row as they were.
LEMMA HeadMoves ==
  ASSUME NEW E, NEW s \in Seq(E), NEW t \in Seq(E), t # <<>>
  PROVE  Append(s, Head(t)) \o Tail(t) = s \o t
  OBVIOUS

\* What a filter keeps and what it drops make up the list.
LEMMA KeepSplit ==
  ASSUME NEW E, NEW T, NEW s \in Seq(E)
  PROVE  Len(Keep(s, T)) + Len(Keep(s, E \ T)) = Len(s)
<1> DEFINE U == E \ T
           N == {r \in Seq(E) : Len(Keep(r, T)) + Len(Keep(r, U)) = Len(r)}
<1>1. <<>> \in N
  <2>1. Keep(<<>>, T) = <<>> /\ Keep(<<>>, U) = <<>>
    BY KeepAppend
  <2>2. <<>> \in Seq(E) /\ Len(<<>>) = 0
    OBVIOUS
  <2>3. Len(Keep(<<>>, T)) + Len(Keep(<<>>, U)) = Len(<<>>)
    BY <2>1, <2>2
  <2>4. QED
    BY <2>2, <2>3
<1>2. ASSUME NEW r \in Seq(E), NEW e \in E, r \in N PROVE Append(r, e) \in N
  <2>1. Keep(r, T) \in Seq(E) /\ Keep(r, U) \in Seq(E)
    BY KeepKind
  <2>2. /\ Append(r, e) \in Seq(E)
        /\ Len(Append(r, e)) = Len(r) + 1 /\ Len(r) \in Nat
        /\ Len(Keep(r, T)) \in Nat /\ Len(Keep(r, U)) \in Nat
        /\ Len(Append(Keep(r, T), e)) = Len(Keep(r, T)) + 1
        /\ Len(Append(Keep(r, U), e)) = Len(Keep(r, U)) + 1
    <3> HIDE DEF U
    <3>1. QED
      BY <2>1
  <2>3. Len(Keep(r, T)) + Len(Keep(r, U)) = Len(r)
    BY <1>2
  <2>4. CASE e \in T
    <3>1. Keep(Append(r, e), T) = Append(Keep(r, T), e)
      BY <2>4, KeepOneMore
    <3>2. Keep(Append(r, e), U) = Keep(r, U)
      <4>1. e \notin U
        BY <2>4
      <4> HIDE DEF U
      <4>2. QED
        BY <4>1, KeepOneMore
    <3> HIDE DEF U
    <3>3. Len(Keep(Append(r, e), T)) + Len(Keep(Append(r, e), U))
            = Len(Append(r, e))
      BY <2>2, <2>3, <3>1, <3>2
    <3>4. QED
      BY <2>2, <3>3 DEF N
  <2>5. CASE e \notin T
    <3>1. Keep(Append(r, e), T) = Keep(r, T)
      BY <2>5, KeepOneMore
    <3>2. Keep(Append(r, e), U) = Append(Keep(r, U), e)
      <4>1. e \in U
        BY <2>5
      <4> HIDE DEF U
      <4>2. QED
        BY <4>1, KeepOneMore
    <3> HIDE DEF U
    <3>3. Len(Keep(Append(r, e), T)) + Len(Keep(Append(r, e), U))
            = Len(Append(r, e))
      BY <2>2, <2>3, <3>1, <3>2
    <3>4. QED
      BY <2>2, <3>3 DEF N
  <2>6. QED
    BY <2>4, <2>5
<1>3. Seq(E) \subseteq N
  <2> HIDE DEF N
  <2>1. QED
    BY <1>1, <1>2, SeqInduction
<1>4. QED
  BY <1>3

\* What is kept of a beginning is a beginning of what is kept.
LEMMA KeepPrefix ==
  ASSUME NEW E, NEW T, NEW s \in Seq(E), NEW n \in 0..Len(s)
  PROVE  IsPrefix(Keep(SubSeq(s, 1, n), T), Keep(s, T))
<1> DEFINE a == SubSeq(s, 1, n)
           b == SubSeq(s, n + 1, Len(s))
<1>1. a \in Seq(E) /\ b \in Seq(E) /\ s = a \o b
  BY TwoParts
<1> HIDE DEF a, b
<1>2. Keep(s, T) = Keep(a, T) \o Keep(b, T)
  BY <1>1, KeepConcat
<1>3. Keep(a, T) \in Seq(E) /\ Keep(b, T) \in Seq(E)
  BY <1>1, KeepKind
<1>4. QED
  BY <1>2, <1>3, ConcatPrefix DEF a

-----------------------------------------------------------------------------
(* The last of a kind *)

\* The last element of  s  that is in  A,  if there is one, is in  D.
LastIsIn(s, A, D) ==
  \A i \in DOMAIN s :
    /\ s[i] \in A
    /\ \A j \in DOMAIN s : i < j => s[j] \notin A
    => s[i] \in D

\* One more element is the last one if it is in  A,  and does not matter
\* otherwise.
LEMMA LastOfAppend ==
  ASSUME NEW E, NEW s \in Seq(E), NEW e \in E, NEW A, NEW D
  PROVE  /\ e \in A => (LastIsIn(Append(s, e), A, D) <=> e \in D)
         /\ e \notin A => (LastIsIn(Append(s, e), A, D) <=> LastIsIn(s, A, D))
<1> DEFINE q == Append(s, e)
           n == Len(s)
<1>1. /\ n \in Nat /\ DOMAIN s = 1..n /\ DOMAIN q = 1..(n + 1)
      /\ q[n + 1] = e /\ \A i \in 1..n : q[i] = s[i]
  OBVIOUS
<1> HIDE DEF q, n
<1>2. ASSUME e \in A PROVE LastIsIn(q, A, D) <=> e \in D
  <2>1. n + 1 \in DOMAIN q /\ \A j \in DOMAIN q : ~(n + 1 < j)
    BY <1>1
  <2>2. ASSUME NEW i \in DOMAIN q, \A j \in DOMAIN q : i < j => q[j] \notin A
        PROVE  i = n + 1
    BY <1>1, <1>2, <2>1, <2>2
  <2>3. ASSUME LastIsIn(q, A, D) PROVE e \in D
    BY <1>1, <1>2, <2>1, <2>3 DEF LastIsIn
  <2>4. ASSUME e \in D PROVE LastIsIn(q, A, D)
    BY <1>1, <2>2, <2>4 DEF LastIsIn
  <2>5. QED
    BY <2>3, <2>4
<1>3. ASSUME e \notin A PROVE LastIsIn(q, A, D) <=> LastIsIn(s, A, D)
  <2>1. ASSUME NEW i \in DOMAIN q, q[i] \in A
        PROVE  i \in DOMAIN s /\ s[i] = q[i]
    BY <1>1, <1>3, <2>1
  <2>2. ASSUME NEW i \in DOMAIN s
        PROVE  /\ i \in DOMAIN q /\ s[i] = q[i]
               /\ (\A j \in DOMAIN q : i < j => q[j] \notin A)
                    <=> (\A j \in DOMAIN s : i < j => s[j] \notin A)
    BY <1>1, <1>3, <2>1
  <2>3. QED
    BY <2>1, <2>2 DEF LastIsIn
<1>4. QED
  BY <1>2, <1>3 DEF q

\* The last one of two lists in a row is in the second list, or there is none
\* there.
LEMMA LastOfConcat ==
  ASSUME NEW E, NEW s \in Seq(E), NEW t \in Seq(E), NEW A, NEW D,
         \A i \in DOMAIN t : t[i] \in A => t[i] \in D,
         (\A i \in DOMAIN t : t[i] \notin A) => LastIsIn(s, A, D)
  PROVE  LastIsIn(s \o t, A, D)
<1> DEFINE q == s \o t
           n == Len(s)
           k == Len(t)
<1>1. /\ n \in Nat /\ k \in Nat /\ DOMAIN s = 1..n /\ DOMAIN t = 1..k
      /\ DOMAIN q = 1..(n + k)
      /\ \A i \in 1..n : q[i] = s[i]
      /\ \A i \in 1..k : q[n + i] = t[i]
  OBVIOUS
<1> HIDE DEF q, n, k
<1>2. SUFFICES ASSUME NEW i \in DOMAIN q, q[i] \in A,
                      \A j \in DOMAIN q : i < j => q[j] \notin A
               PROVE  q[i] \in D
  BY DEF LastIsIn, q
<1>3. CASE i <= n
  <2>1. i \in DOMAIN s /\ s[i] = q[i]
    BY <1>1, <1>2, <1>3
  <2>2. ASSUME NEW j \in DOMAIN t PROVE t[j] \notin A
    <3>1. n + j \in DOMAIN q /\ i < n + j /\ q[n + j] = t[j]
      BY <1>1, <1>2, <1>3
    <3>2. QED
      BY <1>2, <3>1
  <2>3. \A j \in DOMAIN s : i < j => s[j] \notin A
    BY <1>1, <1>2
  <2>4. QED
    BY <1>2, <2>1, <2>2, <2>3 DEF LastIsIn
<1>4. CASE n < i
  <2>1. i - n \in DOMAIN t /\ q[i] = q[n + (i - n)]
    BY <1>1, <1>2, <1>4
  <2>2. QED
    BY <1>1, <1>2, <2>1
<1>5. QED
  BY <1>1, <1>3, <1>4

\* The last one of the end of a list is the last one of the list.
LEMMA LastOfSubSeq ==
  ASSUME NEW E, NEW s \in Seq(E), NEW b \in Nat \ {0}, b <= Len(s) + 1,
         NEW A, NEW D, LastIsIn(s, A, D)
  PROVE  LastIsIn(SubSeq(s, b, Len(s)), A, D)
<1> DEFINE q == SubSeq(s, b, Len(s))
           n == Len(s)
           k == n + 1 - b
<1>1. /\ n \in Nat /\ k \in Nat /\ DOMAIN s = 1..n /\ DOMAIN q = 1..k
      /\ \A i \in 1..k : q[i] = s[b + i - 1]
  OBVIOUS
<1>2. ASSUME NEW i \in 1..k PROVE b + i - 1 \in 1..n
  BY <1>2
<1>3. ASSUME NEW j \in 1..n, b <= j
      PROVE  j - b + 1 \in 1..k /\ b + (j - b + 1) - 1 = j
  BY <1>3
<1> HIDE DEF q
<1>4. SUFFICES ASSUME NEW i \in DOMAIN q, q[i] \in A,
                      \A j \in DOMAIN q : i < j => q[j] \notin A
               PROVE  q[i] \in D
  BY DEF LastIsIn, q
<1>5. b + i - 1 \in DOMAIN s /\ q[i] = s[b + i - 1]
  BY <1>1, <1>2, <1>4
<1>6. ASSUME NEW j \in DOMAIN s, b + i - 1 < j PROVE s[j] \notin A
  <2> DEFINE p == j - b + 1
  <2>1. i \in Int /\ j \in 1..n /\ b <= j
    BY <1>1, <1>4, <1>6
  <2>2. p \in 1..k /\ b + p - 1 = j /\ i < p
    BY <1>3, <1>6, <2>1
  <2> HIDE DEF p
  <2>3. p \in DOMAIN q /\ q[p] = s[j]
    BY <1>1, <2>2
  <2>4. QED
    BY <1>4, <2>2, <2>3
<1>7. QED
  BY <1>4, <1>5, <1>6 DEF LastIsIn

\* A filter that keeps all of  A  keeps the last one.
LEMMA LastOfKeep ==
  ASSUME NEW E, NEW s \in Seq(E), NEW T, NEW A, NEW D,
         \A e \in E : e \in A => e \in T
  PROVE  LastIsIn(Keep(s, T), A, D) <=> LastIsIn(s, A, D)
<1> DEFINE N == {r \in Seq(E) : LastIsIn(Keep(r, T), A, D) <=> LastIsIn(r, A, D)}
<1>1. <<>> \in N
  <2>1. Keep(<<>>, T) = <<>> /\ <<>> \in Seq(E)
    BY KeepAppend
  <2>2. QED
    BY <2>1
<1>2. ASSUME NEW r \in Seq(E), NEW e \in E, r \in N PROVE Append(r, e) \in N
  <2> DEFINE k == Keep(r, T)
             q == Append(r, e)
  <2>1. k \in Seq(E) /\ q \in Seq(E)
    BY KeepKind
  <2>2. LastIsIn(k, A, D) <=> LastIsIn(r, A, D)
    BY <1>2
  <2>3. /\ e \in T => Keep(q, T) = Append(k, e)
        /\ e \notin T => Keep(q, T) = k
    BY KeepOneMore
  <2> HIDE DEF k
  <2>4. /\ e \in A => (LastIsIn(q, A, D) <=> e \in D)
        /\ e \notin A => (LastIsIn(q, A, D) <=> LastIsIn(r, A, D))
    BY LastOfAppend
  <2>5. /\ e \in A => (LastIsIn(Append(k, e), A, D) <=> e \in D)
        /\ e \notin A => (LastIsIn(Append(k, e), A, D) <=> LastIsIn(k, A, D))
    BY <2>1, LastOfAppend
  <2>6. LastIsIn(Keep(q, T), A, D) <=> LastIsIn(q, A, D)
    <3>1. CASE e \in A
      BY <2>3, <2>4, <2>5, <3>1
    <3>2. CASE e \notin A /\ e \in T
      BY <2>2, <2>3, <2>4, <2>5, <3>2
    <3>3. CASE e \notin A /\ e \notin T
      BY <2>2, <2>3, <2>4, <3>3
    <3>4. QED
      BY <3>1, <3>2, <3>3
  <2>7. QED
    BY <2>1, <2>6
<1>3. Seq(E) \subseteq N
  <2> HIDE DEF N
  <2>1. QED
    BY <1>1, <1>2, SeqInduction
<1>4. QED
  BY <1>3

-----------------------------------------------------------------------------
(* Sums over a finite set *)

\* Induction over the subsets of a finite set: a set of subsets that has the
\* empty one, and each of which it has all with an element less.
LEMMA SubsetInduction ==
  ASSUME NEW S, IsFiniteSet(S), NEW P, {} \in P,
         \A s \in (SUBSET S) \ {{}} : (\A x \in s : s \ {x} \in P) => s \in P
  PROVE  SUBSET S \subseteq P
<1> DEFINE N == {n \in Nat : \A s \in SUBSET S : Cardinality(s) <= n => s \in P}
<1>1. \A s \in SUBSET S : IsFiniteSet(s) /\ Cardinality(s) \in Nat
  BY FS_Subset, FS_CardinalityType
<1>2. 0 \in N
  <2>1. \A s \in SUBSET S : Cardinality(s) <= 0 => s = {}
    BY <1>1, FS_EmptySet
  <2>2. QED
    BY <2>1
<1>3. ASSUME NEW n \in Nat, n \in N PROVE n + 1 \in N
  <2>0. SUFFICES ASSUME NEW s \in SUBSET S, Cardinality(s) <= n + 1, s # {}
                 PROVE  s \in P
    <3>1. n + 1 \in Nat
      OBVIOUS
    <3>2. QED
      BY <3>1
  <2>1. \A x \in s : Cardinality(s \ {x}) = Cardinality(s) - 1
    BY <1>1, FS_RemoveElement
  <2>2. \A x \in s : s \ {x} \in SUBSET S /\ Cardinality(s \ {x}) <= n
    BY <1>1, <2>0, <2>1
  <2>3. \A x \in s : s \ {x} \in P
    BY <1>3, <2>2
  <2>4. QED
    BY <2>0, <2>3
<1>4. Nat \subseteq N
  <2> HIDE DEF N
  <2>1. QED
    BY <1>2, <1>3, Induction
<1>5. QED
  BY <1>1, <1>4

\* The element that a sum takes next.
Some(s) == CHOOSE x \in s : TRUE

\* The sums of the values of  f  over the subsets of  S.
SumsUp(it, S, f) ==
  \A s \in SUBSET S :
    it[s] = IF s = {} THEN 0 ELSE f[Some(s)] + it[s \ {Some(s)}]

\* They are numbers.
LEMMA SumsAreNumbers ==
  ASSUME NEW S, IsFiniteSet(S), NEW f, \A x \in S : f[x] \in Nat,
         NEW it, SumsUp(it, S, f)
  PROVE  \A s \in SUBSET S : it[s] \in Nat
<1> DEFINE B == {s \in SUBSET S : it[s] \in Nat}
<1>1. {} \in B
  <2>1. {} \in SUBSET S
    OBVIOUS
  <2>2. it[{}] = 0
    BY <2>1 DEF SumsUp
  <2>3. QED
    BY <2>1, <2>2
<1>2. ASSUME NEW s \in (SUBSET S) \ {{}}, \A x \in s : s \ {x} \in B
      PROVE  s \in B
  <2>1. Some(s) \in s /\ Some(s) \in S
    BY DEF Some
  <2>2. it[s \ {Some(s)}] \in Nat /\ f[Some(s)] \in Nat
    BY <1>2, <2>1
  <2>3. it[s] = f[Some(s)] + it[s \ {Some(s)}]
    BY DEF SumsUp
  <2>4. QED
    BY <2>2, <2>3
<1>3. SUBSET S \subseteq B
  <2> HIDE DEF B
  <2>1. QED
    BY <1>1, <1>2, SubsetInduction
<1>4. QED
  BY <1>3

\* SumFunction computes the last of them.
LEMMA SumRuns ==
  ASSUME NEW S, IsFiniteSet(S), NEW f \in [S -> Nat]
  PROVE  \E it \in [SUBSET S -> Nat] : SumsUp(it, S, f) /\ SumFunction(f) = it[S]
<1> DEFINE pick == [s \in (SUBSET S) \ {{}} |-> Some(s)]
           g == [p \in S \X Nat |-> f[p[1]] + p[2]]
           P(it) == it = [s \in SUBSET S |->
                            IF s = {} THEN 0
                            ELSE f[Some(s)] + it[s \ {Some(s)}]]
           it == CHOOSE it : P(it)
<1>1. \A s \in (SUBSET S) \ {{}} : Some(s) \in s
  BY DEF Some
<1>2. /\ pick \in [(SUBSET S) \ {{}} -> S]
      /\ \A s \in (SUBSET S) \ {{}} : pick[s] \in s /\ pick[s] = Some(s)
  BY <1>1
<1>3. g \in [S \X Nat -> Nat] /\ \A x \in S, n \in Nat : g[<<x, n>>] = f[x] + n
  OBVIOUS
<1> HIDE DEF pick, g
<1>4. PICK w \in [SUBSET S -> Nat] : FoldsBy(w, S, 0, pick, g)
  BY <1>2, <1>3, FoldExists
<1>5. \A s \in (SUBSET S) \ {{}} : w[s] = f[Some(s)] + w[s \ {Some(s)}]
  <2> TAKE s \in (SUBSET S) \ {{}}
  <2>1. w[s] = g[<<pick[s], w[s \ {pick[s]}]>>]
    BY <1>4 DEF FoldsBy
  <2>2. pick[s] = Some(s) /\ Some(s) \in S /\ s \ {Some(s)} \in SUBSET S
    BY <1>1, <1>2
  <2>3. QED
    BY <1>3, <1>4, <2>1, <2>2
<1>6. P(w)
  <2>1. w[{}] = 0
    BY <1>4 DEF FoldsBy
  <2>2. QED
    BY <1>5, <2>1
<1>7. P(it)
  <2> HIDE DEF P
  <2> QED BY <1>6
<1>8. SumFunction(f) = it[S]
  BY DEF SumFunction, SumFunctionOnSet, FoldFunctionOnSet, MapThenFoldSet, Some
<1> HIDE DEF it
<1>9. /\ it[{}] = 0
      /\ \A s \in (SUBSET S) \ {{}} : it[s] = f[Some(s)] + it[s \ {Some(s)}]
      /\ it = [s \in SUBSET S |-> it[s]]
  BY <1>7
<1>10. SumsUp(it, S, f)
  BY <1>9 DEF SumsUp
<1>11. \A s \in SUBSET S : it[s] \in Nat
  <2>1. \A x \in S : f[x] \in Nat
    OBVIOUS
  <2>2. QED
    BY <1>10, <2>1, SumsAreNumbers
<1>12. it \in [SUBSET S -> Nat]
  BY <1>9, <1>11
<1>13. QED
  BY <1>8, <1>10, <1>12

\* The sums over the subsets of a subset are the same.
LEMMA SumsAgree ==
  ASSUME NEW S, IsFiniteSet(S), NEW T \in SUBSET S, NEW f, NEW g, NEW it, NEW jt,
         SumsUp(it, S, f), SumsUp(jt, T, g), \A x \in T : f[x] = g[x]
  PROVE  \A s \in SUBSET T : it[s] = jt[s]
<1> DEFINE B == {s \in SUBSET T : it[s] = jt[s]}
<1>1. {} \in B
  BY DEF SumsUp
<1>2. ASSUME NEW s \in (SUBSET T) \ {{}}, \A x \in s : s \ {x} \in B
      PROVE  s \in B
  <2>1. Some(s) \in s
    BY DEF Some
  <2>2. s \in SUBSET S
    OBVIOUS
  <2>3. /\ it[s] = f[Some(s)] + it[s \ {Some(s)}]
        /\ jt[s] = g[Some(s)] + jt[s \ {Some(s)}]
    BY <2>2 DEF SumsUp
  <2>4. it[s \ {Some(s)}] = jt[s \ {Some(s)}]
    BY <1>2, <2>1
  <2>5. QED
    BY <2>1, <2>3, <2>4
<1>3. IsFiniteSet(T)
  BY FS_Subset
<1>4. SUBSET T \subseteq B
  <2> HIDE DEF B
  <2>1. QED
    BY <1>1, <1>2, <1>3, SubsetInduction
<1>5. QED
  BY <1>4

\* A sum takes its elements in any order.
LEMMA SumInAnyOrder ==
  ASSUME NEW S, IsFiniteSet(S), NEW f, \A x \in S : f[x] \in Nat,
         NEW it, SumsUp(it, S, f)
  PROVE  \A x \in S : it[S] = f[x] + it[S \ {x}]
<1> DEFINE B == {s \in SUBSET S : \A x \in s : it[s] = f[x] + it[s \ {x}]}
<1>1. {} \in B
  OBVIOUS
<1>2. ASSUME NEW s \in (SUBSET S) \ {{}}, \A x \in s : s \ {x} \in B
      PROVE  s \in B
  <2> SUFFICES ASSUME NEW x \in s PROVE it[s] = f[x] + it[s \ {x}]
    OBVIOUS
  <2> DEFINE y == Some(s)
             r == s \ {x, y}
  <2>1. y \in s
    BY DEF Some
  <2>2. it[s] = f[y] + it[s \ {y}]
    BY DEF SumsUp
  <2> HIDE DEF y
  <2>3. CASE x = y
    BY <2>2, <2>3
  <2>4. CASE x # y
    <3>1. (s \ {y}) \ {x} = r /\ (s \ {x}) \ {y} = r
      OBVIOUS
    <3>2. it[s \ {y}] = f[x] + it[r]
      BY <1>2, <2>1, <2>4, <3>1
    <3>3. it[s \ {x}] = f[y] + it[r]
      BY <1>2, <2>1, <2>4, <3>1
    <3>4. f[x] \in Nat /\ f[y] \in Nat /\ it[r] \in Nat
      BY <2>1, SumsAreNumbers
    <3>5. QED
      BY <2>2, <3>2, <3>3, <3>4
  <2>5. QED
    BY <2>3, <2>4
<1>3. SUBSET S \subseteq B
  <2> HIDE DEF B
  <2>1. QED
    BY <1>1, <1>2, SubsetInduction
<1>4. QED
  BY <1>3

\* A sum is one of its terms and the sum of the others.
LEMMA SumWithout ==
  ASSUME NEW S, IsFiniteSet(S), NEW f \in [S -> Nat], NEW x \in S
  PROVE  /\ SumFunction(f) \in Nat
         /\ SumFunction([y \in S \ {x} |-> f[y]]) \in Nat
         /\ SumFunction(f) = f[x] + SumFunction([y \in S \ {x} |-> f[y]])
<1> DEFINE T == S \ {x}
           g == [y \in T |-> f[y]]
<1>1. IsFiniteSet(T) /\ T \in SUBSET S
  BY FS_RemoveElement
<1>2. g \in [T -> Nat] /\ \A y \in T : f[y] = g[y]
  OBVIOUS
<1>3. PICK it \in [SUBSET S -> Nat] : SumsUp(it, S, f) /\ SumFunction(f) = it[S]
  BY SumRuns
<1> HIDE DEF g
<1>4. PICK jt \in [SUBSET T -> Nat] : SumsUp(jt, T, g) /\ SumFunction(g) = jt[T]
  <2> HIDE DEF T
  <2>1. QED
    BY <1>1, <1>2, SumRuns
<1>5. it[T] = jt[T]
  <2> HIDE DEF T
  <2>1. QED
    BY <1>1, <1>2, <1>3, <1>4, SumsAgree
<1>6. it[S] = f[x] + it[T]
  <2>1. \A y \in S : f[y] \in Nat
    OBVIOUS
  <2>2. QED
    BY <1>3, <2>1, SumInAnyOrder
<1>7. it[S] \in Nat /\ jt[T] \in Nat
  BY <1>3, <1>4
<1>8. QED
  BY <1>3, <1>4, <1>5, <1>6, <1>7 DEF g

\* A sum with no term.
LEMMA SumOfNone ==
  ASSUME NEW f \in [{} -> Nat]
  PROVE  SumFunction(f) = 0
<1>1. PICK it \in [SUBSET {} -> Nat] : SumsUp(it, {}, f) /\ SumFunction(f) = it[{}]
  BY SumRuns, FS_EmptySet
<1>2. QED
  BY <1>1 DEF SumsUp

\* A sum of numbers is one.
LEMMA SumIsNumber ==
  ASSUME NEW S, IsFiniteSet(S), NEW f \in [S -> Nat]
  PROVE  SumFunction(f) \in Nat
<1>1. PICK it \in [SUBSET S -> Nat] : SumsUp(it, S, f) /\ SumFunction(f) = it[S]
  BY SumRuns
<1>2. QED
  BY <1>1

\* A sum of zeros.
LEMMA SumsOfZeros ==
  ASSUME NEW S, IsFiniteSet(S), NEW f, \A x \in S : f[x] = 0,
         NEW it, SumsUp(it, S, f)
  PROVE  it[S] = 0
<1> DEFINE B == {s \in SUBSET S : it[s] = 0}
<1>1. {} \in B
  BY DEF SumsUp
<1>2. ASSUME NEW s \in (SUBSET S) \ {{}}, \A x \in s : s \ {x} \in B
      PROVE  s \in B
  <2>1. Some(s) \in s
    BY DEF Some
  <2>2. it[s] = f[Some(s)] + it[s \ {Some(s)}]
    BY DEF SumsUp
  <2>3. it[s \ {Some(s)}] = 0 /\ f[Some(s)] = 0
    BY <1>2, <2>1
  <2>4. QED
    BY <2>2, <2>3
<1>3. SUBSET S \subseteq B
  <2> HIDE DEF B
  <2>1. QED
    BY <1>1, <1>2, SubsetInduction
<1>4. QED
  BY <1>3

\* The same, of a function.
LEMMA SumOfZeros ==
  ASSUME NEW S, IsFiniteSet(S), NEW f \in [S -> Nat], \A x \in S : f[x] = 0
  PROVE  SumFunction(f) = 0
<1>1. PICK it \in [SUBSET S -> Nat] : SumsUp(it, S, f) /\ SumFunction(f) = it[S]
  BY SumRuns
<1>2. QED
  BY <1>1, SumsOfZeros

\* A sum of which one term changes.
LEMMA SumChange ==
  ASSUME NEW S, IsFiniteSet(S), NEW f \in [S -> Nat], NEW g \in [S -> Nat],
         NEW x \in S, \A y \in S \ {x} : f[y] = g[y]
  PROVE  SumFunction(f) + g[x] = SumFunction(g) + f[x]
<1> DEFINE a == SumFunction([y \in S \ {x} |-> f[y]])
           b == SumFunction([y \in S \ {x} |-> g[y]])
<1>1. a \in Nat /\ SumFunction(f) = f[x] + a
  BY SumWithout
<1>2. b \in Nat /\ SumFunction(g) = g[x] + b
  BY SumWithout
<1>3. a = b
  <2>1. [y \in S \ {x} |-> f[y]] = [y \in S \ {x} |-> g[y]]
    OBVIOUS
  <2>2. QED
    BY <2>1
<1>4. f[x] \in Nat /\ g[x] \in Nat
  OBVIOUS
<1> HIDE DEF a, b
<1>5. QED
  BY <1>1, <1>2, <1>3, <1>4

\* A sum with a term more.
LEMMA SumOneMore ==
  ASSUME NEW S, IsFiniteSet(S), NEW x, x \notin S, NEW f \in [S -> Nat],
         NEW g \in [S \cup {x} -> Nat], \A y \in S : f[y] = g[y]
  PROVE  SumFunction(g) = g[x] + SumFunction(f)
<1> DEFINE T == S \cup {x}
<1>1. IsFiniteSet(T) /\ x \in T
  BY FS_AddElement
<1>2. [y \in T \ {x} |-> g[y]] = f
  OBVIOUS
<1>3. g \in [T -> Nat]
  OBVIOUS
<1> HIDE DEF T
<1>4. SumFunction(g) = g[x] + SumFunction([y \in T \ {x} |-> g[y]])
  BY <1>1, <1>3, SumWithout
<1>5. QED
  BY <1>2, <1>4
=============================================================================
