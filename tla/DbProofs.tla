------------------------------ MODULE DbProofs ------------------------------
(***************************************************************************)
(* Proofs about the browser database, for any number of accounts, peers,   *)
(* amounts, exports and starts and any widths of the numbers: the nonces   *)
(* of known transactions are not given again, totals are those of the      *)
(* records, a restart brings back what was exported, and a peer has one    *)
(* entry.                                                                  *)
(***************************************************************************)
EXTENDS BrowserDb, FoldProofs

\* What the operators on the tables leave as the nonce: that of the new
\* database, of the exported one, and of the export that is applied.
LEMMA NonceOfTables ==
  /\ \A a : "nonce" \in DOMAIN NewDb(a) /\ NewDb(a).nonce = 0
  /\ \A d : ExportOf(d).nonce = d.nonce
  /\ \A a, e : LET d == ApplyStorageExport(NewDb(a), e)
               IN  "nonce" \in DOMAIN d /\ d.nonce = e.nonce
  BY DEF NewDb, ExportOf, ApplyStorageExport

\* What a step leaves of the nonce and its history when it is about neither.
NonceUnchanged ==
  /\ "nonce" \in DOMAIN db' /\ db'.nonce = db.nonce
  /\ UNCHANGED <<backup, issued, known>>

\* The operations on accounts, records and peers leave the nonce alone.
LEMMA OtherOperationsKeepNonce ==
  ASSUME NonceInv, NEW x, NEW y
  PROVE  /\ UpdateUserAccount(x) => NonceUnchanged
         /\ RecordSavedUserPeers(x, y) => NonceUnchanged
         /\ UpdateSuccessTx(x) => NonceUnchanged
         /\ UpdateFailedTx(x) => NonceUnchanged
         /\ DeleteSavedPeer(x) => NonceUnchanged
<1>1. UpdateUserAccount(x) => NonceUnchanged
  BY DEF NonceInv, NonceUnchanged, UpdateUserAccount
<1>2. RecordSavedUserPeers(x, y) => NonceUnchanged
  BY DEF NonceInv, NonceUnchanged, RecordSavedUserPeers
<1>3. UpdateSuccessTx(x) => NonceUnchanged
  BY DEF NonceInv, NonceUnchanged, UpdateSuccessTx
<1>4. UpdateFailedTx(x) => NonceUnchanged
  BY DEF NonceInv, NonceUnchanged, UpdateFailedTx
<1>5. DeleteSavedPeer(x) => NonceUnchanged
  BY DEF NonceInv, NonceUnchanged, DeleteSavedPeer
<1>6. QED
  BY <1>1, <1>2, <1>3, <1>4, <1>5

\* Initiating a transaction appends to the history and leaves the rest of it,
\* so what was below a nonce stays below it.
LEMMA AppendIssued ==
  ASSUME NonceInv, IncrementNonce
  PROVE  /\ issued' \in Seq(Issue)
         /\ DOMAIN issued' = 1..(Len(issued) + 1)
         /\ DOMAIN issued = 1..Len(issued) /\ Len(issued) \in Nat
         /\ \A i \in DOMAIN issued : issued'[i] = issued[i]
         /\ issued'[Len(issued) + 1] = [nonce |-> db.nonce + 1, known |-> known]
<1>1. [nonce |-> db.nonce + 1, known |-> known] \in Issue
  BY DEF NonceInv, NoneAbove, Issue
<1>2. QED
  BY <1>1 DEF NonceInv, IncrementNonce

\* Initiating a transaction keeps the invariant: its nonce is above those of
\* all that the database knows of.
LEMMA NonceInvIncrement ==
  ASSUME NonceInv, IncrementNonce
  PROVE  NonceInv'
<1> DEFINE n == Len(issued) + 1
<1>1. /\ issued' \in Seq(Issue)
      /\ DOMAIN issued' = 1..n /\ n \in Nat /\ n \notin DOMAIN issued
      /\ DOMAIN issued = 1..(n - 1)
      /\ DOMAIN issued \subseteq DOMAIN issued' /\ n \in DOMAIN issued'
      /\ \A i \in DOMAIN issued' : i = n \/ i \in DOMAIN issued
      /\ \A i \in DOMAIN issued : issued'[i] = issued[i]
      /\ issued'[n].nonce = db.nonce + 1 /\ issued'[n].known = known
  BY AppendIssued
<1>2. /\ "nonce" \in DOMAIN db' /\ db'.nonce = db.nonce + 1
      /\ known' = known \cup {n} /\ backup' = backup /\ db.nonce \in Nat
  BY DEF NonceInv, NoneAbove, IncrementNonce
<1>3. \A i \in DOMAIN issued : issued[i].nonce \in Nat
  <2>1. \A i \in DOMAIN issued : issued[i] \in Issue
    BY DEF NonceInv
  <2>2. QED
    BY <2>1 DEF Issue
<1> HIDE DEF n
<1>4. NoneAbove(known, db.nonce)'
  BY <1>1, <1>2, <1>3 DEF NonceInv, NoneAbove
<1>5. \A b \in backup' : NoneAbove(b.known, b.export.nonce)'
  BY <1>1, <1>2, <1>3 DEF NonceInv, NoneAbove
<1>6. \A j \in DOMAIN issued' : issued'[j].known \subseteq 1..(j - 1)
  BY <1>1, <1>2 DEF NonceInv, NoneAbove
<1>7. NoncesAreNew'
  <2> SUFFICES ASSUME NEW j \in DOMAIN issued', NEW i \in issued'[j].known
               PROVE  issued'[i].nonce # issued'[j].nonce
    BY DEF NoncesAreNew
  <2>1. CASE j = n
    <3>1. i \in known
      BY <1>1, <2>1
    <3>2. i \in DOMAIN issued /\ issued[i].nonce <= db.nonce
      BY <3>1 DEF NonceInv, NoneAbove
    <3>3. QED
      BY <1>1, <1>2, <1>3, <2>1, <3>2
  <2>2. CASE j \in DOMAIN issued
    <3>1. i \in issued[j].known /\ i \in 1..(j - 1)
      BY <1>1, <2>2 DEF NonceInv
    <3>2. i \in DOMAIN issued
      BY <1>1, <2>2, <3>1
    <3>3. QED
      BY <1>1, <2>2, <3>1, <3>2 DEF NonceInv, NoncesAreNew
  <2>3. QED
    BY <1>1, <2>1, <2>2
<1>8. QED
  BY <1>1, <1>2, <1>4, <1>5, <1>6, <1>7 DEF NonceInv

\* Every step keeps the inductive invariant.
LEMMA NonceInvStep == NonceInv /\ [DbNext]_dbVars => NonceInv'
<1> SUFFICES ASSUME NonceInv, [DbNext]_dbVars
             PROVE  NonceInv'
  OBVIOUS
<1>1. ASSUME NonceUnchanged PROVE NonceInv'
  BY <1>1 DEF NonceInv, NonceUnchanged, NoneAbove, NoncesAreNew
<1>2. CASE IncrementNonce
  BY <1>2, NonceInvIncrement
<1>3. CASE ExportStorage
  BY <1>3, NonceOfTables DEF NonceInv, NoneAbove, NoncesAreNew, ExportStorage
<1>4. ASSUME NEW a \in Accounts, StartAfresh(a) PROVE NonceInv'
  BY <1>4, NonceOfTables DEF NonceInv, NoneAbove, NoncesAreNew, StartAfresh
<1>5. ASSUME NEW a \in Accounts, StartFromExport(a) PROVE NonceInv'
  BY <1>5, NonceOfTables DEF NonceInv, NoneAbove, NoncesAreNew, StartFromExport
<1>6. CASE UNCHANGED dbVars
  BY <1>6 DEF NonceInv, NoneAbove, NoncesAreNew, dbVars
<1>7. QED
  BY <1>1, <1>2, <1>3, <1>4, <1>5, <1>6, OtherOperationsKeepNonce DEF DbNext

\* No transaction is given the nonce of one that its database knows of, over
\* any number of exports, of starts from them however old they are, and of
\* starts without one (initiate_transaction, apply_storage_export).
THEOREM KnownNoncesAreNotReused == DbSpec => []NoncesAreNew
<1>1. DbInit => NonceInv
  BY NonceOfTables DEF DbInit, NonceInv, NoneAbove, NoncesAreNew
<1>2. NonceInv => NoncesAreNew
  BY DEF NonceInv
<1>3. QED
  BY <1>1, <1>2, NonceInvStep, PTL DEF DbSpec

-----------------------------------------------------------------------------
(* Numbers of a given width *)

\* Division with remainder.
LEMMA DivMod ==
  ASSUME NEW x \in Int, NEW n \in Nat \ {0}
  PROVE /\ x \div n \in Int /\ x % n \in 0..(n - 1)
        /\ x = n * (x \div n) + (x % n)
  OBVIOUS

\* The only multiple of n strictly between -n and n is zero.
LEMMA SmallMultiple ==
  ASSUME NEW n \in Nat \ {0}, NEW k \in Int, NEW r \in Int,
         r = n * k, -n < r, r < n
  PROVE k = 0
<1>1. CASE k >= 1
  <2>1. n * k >= n
    BY <1>1
  <2> QED BY <2>1
<1>2. CASE k <= -1
  <2>1. n * k <= -n
    BY <1>2
  <2> QED BY <2>1
<1> QED BY <1>1, <1>2

\* The remainder is the one number below n that fits.
LEMMA Remainder ==
  ASSUME NEW n \in Nat \ {0}, NEW q \in Int, NEW r \in 0..(n - 1),
         NEW x \in Int, x = n * q + r
  PROVE  x % n = r
<1> DEFINE y == x \div n
           m == x % n
           k == y - q
           d == r - m
<1>1. y \in Int /\ m \in 0..(n - 1) /\ x = n * y + m
  BY DivMod
<1> HIDE DEF y, m
<1>2. n * k = n * y - n * q
  BY <1>1
<1>3. k \in Int /\ d \in Int /\ -n < d /\ d < n
  BY <1>1
<1>4. d = n * k
  BY <1>1, <1>2
<1>5. k = 0
  <2> HIDE DEF k, d
  <2>1. QED
    BY <1>3, <1>4, SmallMultiple
<1>6. QED
  BY <1>1, <1>4, <1>5 DEF m

\* Adding a multiple of n does not change the remainder: why two sums that
\* wrap around at 2^64 agree when their numbers do.
LEMMA ModShift ==
  ASSUME NEW n \in Nat \ {0}, NEW x \in Int, NEW k \in Int
  PROVE  (x + n * k) % n = x % n
<1> DEFINE q == x \div n
           r == x % n
<1>1. q \in Int /\ r \in 0..(n - 1) /\ x = n * q + r
  BY DivMod
<1> HIDE DEF q, r
<1>2. n * (q + k) = n * q + n * k
  BY <1>1
<1>3. x + n * k = n * (q + k) + r
  BY <1>1, <1>2
<1>4. x + n * k \in Int /\ q + k \in Int
  BY <1>1
<1>5. (x + n * k) % n = r
  <2> DEFINE s == x + n * k
             p == q + k
  <2>1. s \in Int /\ p \in Int /\ s = n * p + r
    BY <1>3, <1>4
  <2> HIDE DEF s, p
  <2>2. s % n = r
    BY <1>1, <2>1, Remainder
  <2>3. QED
    BY <2>2 DEF s
<1>6. QED
  BY <1>5 DEF r

\* Numbers with the same remainders have sums with the same remainder.
LEMMA SameRemainders ==
  ASSUME NEW n \in Nat \ {0}, NEW x \in Int, NEW y \in Int,
         NEW u \in Int, NEW v \in Int, x % n = u % n, y % n = v % n
  PROVE  (x + y) % n = (u + v) % n
<1> DEFINE p == (x \div n) - (u \div n)
           q == (y \div n) - (v \div n)
<1>1. p \in Int /\ q \in Int
  BY DivMod
<1>2. x = u + n * p
  <2> DEFINE i == x \div n
             j == u \div n
             m == x % n
  <2>1. i \in Int /\ j \in Int /\ m \in Int /\ x = n * i + m /\ u = n * j + m
    BY DivMod
  <2> HIDE DEF i, j, m
  <2>2. n * (i - j) = n * i - n * j
    BY <2>1
  <2>3. QED
    BY <2>1, <2>2 DEF i, j
<1>3. y = v + n * q
  <2> DEFINE i == y \div n
             j == v \div n
             m == y % n
  <2>1. i \in Int /\ j \in Int /\ m \in Int /\ y = n * i + m /\ v = n * j + m
    BY DivMod
  <2> HIDE DEF i, j, m
  <2>2. n * (i - j) = n * i - n * j
    BY <2>1
  <2>3. QED
    BY <2>1, <2>2 DEF i, j
<1> HIDE DEF p, q
<1>4. x + y = (u + v) + n * (p + q)
  BY <1>1, <1>2, <1>3
<1> DEFINE w == u + v
           k == p + q
<1>5. w \in Int /\ k \in Int
  BY <1>1
<1>6. (w + n * k) % n = w % n
  <2> HIDE DEF w, k
  <2>1. QED
    BY <1>5, ModShift
<1>7. QED
  BY <1>4, <1>6

-----------------------------------------------------------------------------
(* Totals *)

\* The values of an i64.
I64Values == (-(I64 \div 2))..(I64 \div 2 - 1)

\* A total as update_success_tx builds it.
Total(s) == AddAll(0, s)

\* Amounts are natural numbers.
LEMMA AmountsAreNat == Amounts \subseteq Nat
  BY DbAssumption

\* Half of an even number of values.
LEMMA HalfWidth == I64 \div 2 \in Nat \ {0} /\ I64 = 2 * (I64 \div 2)
  BY DbAssumption

\* A conversion to i64 gives an i64 that differs by a multiple of the width.
LEMMA AsI64Type ==
  ASSUME NEW x \in Int
  PROVE  AsI64(x) \in I64Values /\ AsI64(x) % I64 = x % I64
<1> DEFINE h == I64 \div 2
           q == (x + h) \div I64
           m == (x + h) % I64
<1>1. h \in Nat \ {0} /\ I64 = 2 * h /\ I64 \in Nat \ {0}
  BY HalfWidth, DbAssumption
<1>2. x + h \in Int
  BY <1>1
<1>3. q \in Int /\ m \in 0..(I64 - 1) /\ x + h = I64 * q + m
  BY <1>1, <1>2, DivMod
<1>4. AsI64(x) = m - h
  BY DEF AsI64
<1> HIDE DEF h, q, m
<1>5. AsI64(x) \in I64Values
  BY <1>1, <1>3, <1>4 DEF I64Values, h
<1>6. AsI64(x) = x + I64 * (-q) /\ -q \in Int
  <2>1. -q \in Int /\ I64 * q \in Int
    BY <1>1, <1>3
  <2>2. I64 * (-q) = -(I64 * q)
    BY <1>1, <1>3
  <2>3. m - h = x - I64 * q
    BY <1>1, <1>3, <2>1
  <2>4. QED
    BY <1>4, <2>1, <2>2, <2>3
<1> DEFINE p == -q
<1>7. AsI64(x) = x + I64 * p /\ p \in Int
  BY <1>6
<1> HIDE DEF p
<1>8. (x + I64 * p) % I64 = x % I64
  BY <1>1, <1>7, ModShift
<1>9. QED
  BY <1>5, <1>7, <1>8

\* So does the sum of an i64 and an amount.
LEMMA AddStays ==
  /\ 0 \in I64Values
  /\ \A t \in I64Values, a \in Amounts : AddAmount(t, a) \in I64Values
<1>1. 0 \in I64Values
  BY HalfWidth DEF I64Values
<1>2. I64Values \subseteq Int
  BY HalfWidth DEF I64Values
<1>3. ASSUME NEW t \in I64Values, NEW a \in Amounts
      PROVE  AddAmount(t, a) \in I64Values
  <2>1. AsI64(a) \in Int
    <3>1. a \in Int
      BY AmountsAreNat
    <3>2. QED
      BY <1>2, <3>1, AsI64Type
  <2>2. t + AsI64(a) \in Int
    BY <1>2, <2>1
  <2>3. QED
    BY <2>2, AsI64Type DEF AddAmount
<1>4. QED
  BY <1>1, <1>3

\* One step of a total.
AmountStep == [p \in I64Values \X Amounts |-> AddAmount(p[1], p[2])]

\* It goes through the list element by element.
LEMMA AmountRuns ==
  ASSUME NEW s \in Seq(Amounts)
  PROVE  RunsTo(s, I64Values, 0, AmountStep, Total(s))
<1> DEFINE n == Len(s)
           V == I64Values
           z == 0
           f == AmountStep
           P(it) == it = [t \in SUBSET (1..n) |->
                            IF t = {} THEN z
                            ELSE AddAmount(it[t \ {Max(t)}], s[Max(t)])]
           it == CHOOSE it : P(it)
<1>0. z \in V /\ \A v \in V, e \in Amounts : AddAmount(v, e) \in V
  BY AddStays
<1>1. f \in [V \X Amounts -> V] /\ z \in V
  BY <1>0 DEF AmountStep
<1>2. \A v \in V, e \in Amounts : f[<<v, e>>] = AddAmount(v, e)
  BY DEF AmountStep
<1>3. n \in Nat /\ DOMAIN s = 1..n /\ \A k \in 1..n : s[k] \in Amounts
  OBVIOUS
<1> HIDE DEF n, f, V
<1>4. \A t \in (SUBSET (1..n)) \ {{}} :
        Max(t) \in 1..n /\ t \ {Max(t)} \in SUBSET (1..n)
  BY <1>3, MaxOfSet
<1>5. PICK w \in [SUBSET (1..n) -> V] : FoldsSeq(w, s, V, z, f)
  <2> HIDE DEF z
  <2>1. QED
    BY <1>1, FoldsSeqExists DEF n
<1>6. P(w)
  <2>1. \A t \in (SUBSET (1..n)) \ {{}} :
          w[t] = AddAmount(w[t \ {Max(t)}], s[Max(t)])
    BY <1>2, <1>3, <1>4, <1>5 DEF FoldsSeq, n
  <2>2. w[{}] = z
    BY <1>5 DEF FoldsSeq
  <2>3. QED
    BY <2>1, <2>2
<1>7. P(it)
  <2> HIDE DEF P
  <2> QED BY <1>6
<1>8. Total(s) = it[1..n]
  BY <1>3 DEF Total, AddAll, FoldLeft, MapThenFoldSet
<1>9. FoldsSeq(it, s, V, z, f)
  <2> HIDE DEF it
  <2>1. \A t \in (SUBSET (1..n)) \ {{}} :
          it[t] = AddAmount(it[t \ {Max(t)}], s[Max(t)])
    BY <1>7
  <2>2. it[{}] = z
    BY <1>7
  <2>3. QED
    BY <1>2, <1>3, <1>4, <2>1, <2>2 DEF FoldsSeq, n
<1> HIDE DEF it, z
<1>10. RunsTo(s, V, z, f, it[1..Len(s)])
  BY <1>1, <1>9, FoldsSeqRuns
<1>11. QED
  BY <1>8, <1>10 DEF n, V, f, z

\* The total of one record more, and of none.
LEMMA AmountAppend ==
         /\ Total(<<>>) = 0
         /\ \A s \in Seq(Amounts), e \in Amounts :
              /\ Total(s) \in I64Values
              /\ Total(Append(s, e)) = AddAmount(Total(s), e)
<1> DEFINE f == AmountStep
           V == I64Values
           z == 0
<1>1. \A v \in V, e \in Amounts : f[<<v, e>>] = AddAmount(v, e)
  BY DEF AmountStep
<1> HIDE DEF f
<1>2. Total(<<>>) = z
  <2>1. <<>> \in Seq(Amounts)
    OBVIOUS
  <2>2. RunsTo(<<>>, V, z, f, Total(<<>>))
    BY <2>1, AmountRuns DEF f
  <2>3. QED
    BY <2>2, RunsToEmpty
<1>3. ASSUME NEW s \in Seq(Amounts), NEW e \in Amounts
      PROVE  /\ Total(s) \in V
             /\ Total(Append(s, e)) = AddAmount(Total(s), e)
  <2>1. RunsTo(s, V, z, f, Total(s))
    BY AmountRuns DEF f
  <2>2. Append(s, e) \in Seq(Amounts)
    OBVIOUS
  <2>3. RunsTo(Append(s, e), V, z, f, Total(Append(s, e)))
    BY <2>2, AmountRuns DEF f
  <2> HIDE DEF V, z
  <2>4. Total(s) \in V /\ Total(Append(s, e)) = f[<<Total(s), e>>]
    BY <2>1, <2>3, RunsToAppend
  <2>5. QED
    BY <1>1, <2>4
<1>4. QED
  BY <1>2, <1>3

\* One step of a sum.
SumStep == [p \in Nat \X Amounts |-> p[1] + p[2]]

\* It goes through the list element by element.
LEMMA AmountsSumRuns ==
  ASSUME NEW s \in Seq(Amounts)
  PROVE  RunsTo(s, Nat, 0, SumStep, SumOf(s))
<1> DEFINE n == Len(s)
           V == Nat
           z == 0
           f == SumStep
           P(it) == it = [t \in SUBSET (1..n) |->
                            IF t = {} THEN z
                            ELSE it[t \ {Max(t)}] + s[Max(t)]]
           it == CHOOSE it : P(it)
<1>0. z \in V /\ \A v \in V, e \in Amounts : v + e \in V
  BY AmountsAreNat
<1>1. f \in [V \X Amounts -> V] /\ z \in V
  BY <1>0 DEF SumStep
<1>2. \A v \in V, e \in Amounts : f[<<v, e>>] = v + e
  BY DEF SumStep
<1>3. n \in Nat /\ DOMAIN s = 1..n /\ \A k \in 1..n : s[k] \in Amounts
  OBVIOUS
<1> HIDE DEF n, f, V
<1>4. \A t \in (SUBSET (1..n)) \ {{}} :
        Max(t) \in 1..n /\ t \ {Max(t)} \in SUBSET (1..n)
  BY <1>3, MaxOfSet
<1>5. PICK w \in [SUBSET (1..n) -> V] : FoldsSeq(w, s, V, z, f)
  <2> HIDE DEF z
  <2>1. QED
    BY <1>1, FoldsSeqExists DEF n
<1>6. P(w)
  <2>1. \A t \in (SUBSET (1..n)) \ {{}} :
          w[t] = w[t \ {Max(t)}] + s[Max(t)]
    BY <1>2, <1>3, <1>4, <1>5 DEF FoldsSeq, n
  <2>2. w[{}] = z
    BY <1>5 DEF FoldsSeq
  <2>3. QED
    BY <2>1, <2>2
<1>7. P(it)
  <2> HIDE DEF P
  <2> QED BY <1>6
<1>8. SumOf(s) = it[1..n]
  BY <1>3 DEF SumOf, FoldLeft, MapThenFoldSet
<1>9. FoldsSeq(it, s, V, z, f)
  <2> HIDE DEF it
  <2>1. \A t \in (SUBSET (1..n)) \ {{}} :
          it[t] = it[t \ {Max(t)}] + s[Max(t)]
    BY <1>7
  <2>2. it[{}] = z
    BY <1>7
  <2>3. QED
    BY <1>2, <1>3, <1>4, <2>1, <2>2 DEF FoldsSeq, n
<1> HIDE DEF it, z
<1>10. RunsTo(s, V, z, f, it[1..Len(s)])
  BY <1>1, <1>9, FoldsSeqRuns
<1>11. QED
  BY <1>8, <1>10 DEF n, V, f, z

\* The sum of one record more, and of none.
LEMMA SumAppend ==
  /\ SumOf(<<>>) = 0
  /\ \A s \in Seq(Amounts), e \in Amounts :
       /\ SumOf(s) \in Nat
              /\ SumOf(Append(s, e)) = SumOf(s) + e
<1> DEFINE f == SumStep
           V == Nat
           z == 0
<1>1. \A v \in V, e \in Amounts : f[<<v, e>>] = v + e
  BY DEF SumStep
<1> HIDE DEF f
<1>2. SumOf(<<>>) = z
  <2>1. <<>> \in Seq(Amounts)
    OBVIOUS
  <2>2. RunsTo(<<>>, V, z, f, SumOf(<<>>))
    BY <2>1, AmountsSumRuns DEF f
  <2>3. QED
    BY <2>2, RunsToEmpty
<1>3. ASSUME NEW s \in Seq(Amounts), NEW e \in Amounts
      PROVE  /\ SumOf(s) \in V
             /\ SumOf(Append(s, e)) = SumOf(s) + e
  <2>1. RunsTo(s, V, z, f, SumOf(s))
    BY AmountsSumRuns DEF f
  <2>2. Append(s, e) \in Seq(Amounts)
    OBVIOUS
  <2>3. RunsTo(Append(s, e), V, z, f, SumOf(Append(s, e)))
    BY <2>2, AmountsSumRuns DEF f
  <2> HIDE DEF V, z
  <2>4. SumOf(s) \in V /\ SumOf(Append(s, e)) = f[<<SumOf(s), e>>]
    BY <2>1, <2>3, RunsToAppend
  <2>5. QED
    BY <1>1, <2>4
<1>4. QED
  BY <1>2, <1>3

\* In the bits of an i64, a total is the sum of the records, however often it
\* left the range on the way.
LEMMA TotalIsSum ==
  ASSUME NEW s \in Seq(Amounts)
  PROVE  /\ Total(s) \in I64Values
         /\ SumOf(s) \in Nat
         /\ AsU128(Total(s)) % I64 = SumOf(s) % I64
<1> DEFINE T == {r \in Seq(Amounts) :
                   Total(r) \in I64Values /\ SumOf(r) \in Nat
                   /\ Total(r) % I64 = SumOf(r) % I64}
<1>1. I64Values \subseteq Int /\ I64 \in Nat \ {0}
  BY HalfWidth, DbAssumption DEF I64Values
<1>2. <<>> \in T
  <2>1. Total(<<>>) = 0 /\ SumOf(<<>>) = 0
    BY AmountAppend, SumAppend
  <2>2. QED
    BY <2>1, AddStays
<1>3. ASSUME NEW r \in Seq(Amounts), NEW a \in Amounts, r \in T
      PROVE  Append(r, a) \in T
  <2>1. /\ Total(r) \in I64Values /\ SumOf(r) \in Nat
        /\ Total(r) % I64 = SumOf(r) % I64
    BY <1>3
  <2>2. /\ Total(Append(r, a)) = AddAmount(Total(r), a)
        /\ SumOf(Append(r, a)) = SumOf(r) + a
    BY AmountAppend, SumAppend
  <2>3. a \in Nat /\ a \in Int /\ Total(r) \in Int
    <3>1. a \in Nat
      BY AmountsAreNat
    <3>2. Total(r) \in Int
      BY <1>1, <2>1
    <3>3. QED
      BY <3>1, <3>2
  <2>4. AddAmount(Total(r), a) % I64 = (SumOf(r) + a) % I64
    <3>1. AsI64(a) \in Int /\ AsI64(a) % I64 = a % I64
      BY <1>1, <2>3, AsI64Type
    <3>2. (Total(r) + AsI64(a)) % I64 = (SumOf(r) + a) % I64
      BY <1>1, <2>1, <2>3, <3>1, SameRemainders
    <3>3. Total(r) + AsI64(a) \in Int
      BY <2>3, <3>1
    <3>4. QED
      BY <3>2, <3>3, AsI64Type DEF AddAmount
  <2>5. Append(r, a) \in Seq(Amounts) /\ SumOf(r) + a \in Nat
        /\ AddAmount(Total(r), a) \in I64Values
    BY <2>1, <2>3, AddStays
  <2>6. QED
    BY <2>2, <2>4, <2>5
<1>4. Seq(Amounts) \subseteq T
  <2> HIDE DEF T
  <2>1. QED
    BY <1>2, <1>3, SeqInduction
<1>5. /\ Total(s) \in I64Values /\ SumOf(s) \in Nat
      /\ Total(s) % I64 = SumOf(s) % I64
  BY <1>4
<1>6. ASSUME NEW t \in Int PROVE AsU128(t) % I64 = t % I64
  <2>1. U128 \div I64 \in Int /\ U128 = I64 * (U128 \div I64)
    <3>1. U128 \in Int /\ U128 % I64 = 0
      BY DbAssumption
    <3>2. QED
      BY <1>1, <3>1, DivMod
  <2>2. (t + I64 * (U128 \div I64)) % I64 = t % I64
    BY <1>1, <2>1, ModShift
  <2>3. QED
    BY <2>1, <2>2 DEF AsU128
<1>7. QED
  BY <1>1, <1>5, <1>6

-----------------------------------------------------------------------------
(* Tables *)

\* The tables of the database, and what an export has of them.
Tables ==
  [ user_account : Seq(Accounts), nonce : 0..MaxNonce,
    success : Seq(Amounts), failed : Seq(Amounts),
    success_value : I64Values, failed_value : I64Values,
    saved_peers : Seq(SavedPeerInfo) ]
ExportTables ==
  [ user_account : Seq(Accounts), nonce : 0..MaxNonce,
    success : Seq(Amounts), failed : Seq(Amounts) ]

\* The tables with totals that are those of the records.
Consistent(d) ==
  /\ d \in Tables
  /\ d.success_value = Total(d.success)
  /\ d.failed_value = Total(d.failed)

\* A table's fields, and how a record with them is told to be the tables.
Fields ==
  { "user_account", "nonce", "success", "failed", "success_value",
    "failed_value", "saved_peers" }

\* The tables are typed when each of them is.
LEMMA TablesByField ==
  ASSUME NEW d, d = [f \in Fields |-> d[f]],
         d.user_account \in Seq(Accounts), d.nonce \in 0..MaxNonce,
         d.success \in Seq(Amounts), d.failed \in Seq(Amounts),
         d.success_value \in I64Values, d.failed_value \in I64Values,
         d.saved_peers \in Seq(SavedPeerInfo)
  PROVE  d \in Tables
  BY DEF Tables, Fields

-----------------------------------------------------------------------------
(* Saved peers *)

\* SavedPeersAreDistinct of any list of peers.
DistinctPeers(ps) ==
  /\ \A i, j \in DOMAIN ps : ps[i].multi_addr = ps[j].multi_addr => i = j
  /\ \A i \in DOMAIN ps :
       Cardinality(Range(ps[i].account_ids)) = Len(ps[i].account_ids)

\* An account that is not in the list makes it longer by one.
LEMMA NewAccount ==
  ASSUME NEW s \in Seq(Accounts), Cardinality(Range(s)) = Len(s),
         NEW a \in Accounts, a \notin Range(s)
  PROVE  Cardinality(Range(Append(s, a))) = Len(Append(s, a))
<1>1. IsFiniteSet(Range(s))
  BY RangeIsFinite
<1>2. Cardinality(Range(s) \cup {a}) = Cardinality(Range(s)) + 1
  BY <1>1, FS_AddElement
<1>3. Range(Append(s, a)) = Range(s) \cup {a} /\ Len(Append(s, a)) = Len(s) + 1
  BY RangeOfAppend
<1>4. QED
  BY <1>2, <1>3

\* Deleting a peer.
LEMMA DeletedPeer ==
  ASSUME NEW ps \in Seq(SavedPeerInfo), DistinctPeers(ps), NEW p
  PROVE  /\ WithoutPeer(ps, p) \in Seq(SavedPeerInfo)
         /\ DistinctPeers(WithoutPeer(ps, p))
<1> DEFINE T == {e \in Range(ps) : e.multi_addr # p}
           k == Keep(ps, T)
<1>1. k \in Seq(SavedPeerInfo)
  BY KeepKind
<1>2. PICK m : PlacedBy(k, ps, T, m)
  <2> HIDE DEF T
  <2>1. QED
    BY KeepPlaces
<1> HIDE DEF k, T
<1>3. DOMAIN k = 1..Len(k) /\ DOMAIN ps = 1..Len(ps) /\ Len(k) \in Nat
      /\ Len(ps) \in Nat
  BY <1>1
<1>4. /\ m \in [1..Len(k) -> 1..Len(ps)]
      /\ \A i, j \in 1..Len(k) : i < j => m[i] < m[j]
      /\ \A i \in 1..Len(k) : k[i] = ps[m[i]]
  BY <1>2 DEF PlacedBy
<1>5. ASSUME NEW i \in 1..Len(k), NEW j \in 1..Len(k),
             k[i].multi_addr = k[j].multi_addr
      PROVE  i = j
  <2>1. m[i] = m[j]
    BY <1>3, <1>4, <1>5 DEF DistinctPeers
  <2>2. m[i] \in Nat /\ i \in Nat /\ j \in Nat
    BY <1>3, <1>4
  <2>3. ~(i < j) /\ ~(j < i)
    BY <1>4, <2>1, <2>2
  <2>4. QED
    BY <2>2, <2>3
<1>6. \A i \in 1..Len(k) :
        Cardinality(Range(k[i].account_ids)) = Len(k[i].account_ids)
  BY <1>3, <1>4 DEF DistinctPeers
<1>7. DistinctPeers(k)
  BY <1>3, <1>5, <1>6 DEF DistinctPeers
<1>8. QED
  BY <1>1, <1>7 DEF WithoutPeer, k, T

\* Recording a peer's first account, or another account of it.
LEMMA RecordedPeer ==
  ASSUME NEW ps \in Seq(SavedPeerInfo), DistinctPeers(ps),
         NEW p \in Peers, NEW a \in Accounts, IndicesOf(ps, p) = {}
  PROVE  LET qs == Append(ps, [multi_addr |-> p, account_ids |-> <<a>>])
         IN  qs \in Seq(SavedPeerInfo) /\ DistinctPeers(qs)
<1> DEFINE e == [multi_addr |-> p, account_ids |-> <<a>>]
           qs == Append(ps, e)
<1>1. /\ e \in SavedPeerInfo /\ e.multi_addr = p
      /\ e.account_ids = <<a>> /\ <<a>> \in Seq(Accounts)
  BY DEF SavedPeerInfo
<1>2. Cardinality(Range(<<a>>)) = Len(<<a>>)
  <2>1. Range(<<a>>) = {a}
    BY DEF Range
  <2>2. QED
    BY <2>1, FS_Singleton
<1> HIDE DEF e
<1>3. /\ qs \in Seq(SavedPeerInfo) /\ DOMAIN ps = 1..Len(ps)
      /\ DOMAIN qs = 1..(Len(ps) + 1) /\ Len(ps) \in Nat
      /\ qs[Len(ps) + 1] = e
      /\ \A i \in 1..Len(ps) : qs[i] = ps[i]
  BY <1>1
<1>4. \A i \in 1..Len(ps) : ps[i].multi_addr # p
  BY <1>3 DEF IndicesOf
<1> HIDE DEF qs
<1>5. \A i \in DOMAIN qs : i = Len(ps) + 1 \/ i \in DOMAIN ps
  BY <1>3
<1>6. ASSUME NEW i \in DOMAIN qs, NEW j \in DOMAIN qs,
             qs[i].multi_addr = qs[j].multi_addr
      PROVE  i = j
  BY <1>1, <1>3, <1>4, <1>5, <1>6 DEF DistinctPeers
<1>7. ASSUME NEW i \in DOMAIN qs
      PROVE  Cardinality(Range(qs[i].account_ids)) = Len(qs[i].account_ids)
  <2>1. CASE i = Len(ps) + 1
    BY <1>1, <1>2, <1>3, <2>1
  <2>2. CASE i \in DOMAIN ps
    BY <1>3, <2>2 DEF DistinctPeers
  <2>3. QED
    BY <1>5, <2>1, <2>2
<1>8. DistinctPeers(qs)
  BY <1>6, <1>7 DEF DistinctPeers
<1>9. QED
  BY <1>3, <1>8 DEF qs, e

\* record_saved_user_peers adds an account the peer does not list yet.
LEMMA RecordedAccount ==
  ASSUME NEW ps \in Seq(SavedPeerInfo), DistinctPeers(ps), NEW i \in DOMAIN ps,
         NEW a \in Accounts, a \notin Range(ps[i].account_ids)
  PROVE  LET qs == [ps EXCEPT ![i].account_ids = Append(@, a)]
         IN  qs \in Seq(SavedPeerInfo) /\ DistinctPeers(qs)
<1> DEFINE e == [ps[i] EXCEPT !.account_ids = Append(@, a)]
           qs == [ps EXCEPT ![i].account_ids = Append(@, a)]
<1> DEFINE r == ps[i]
<1>0. DOMAIN ps = 1..Len(ps) /\ Len(ps) \in Nat /\ r \in SavedPeerInfo
  OBVIOUS
<1>1. r.account_ids \in Seq(Accounts)
  <2> HIDE DEF r
  <2>1. QED
    BY <1>0 DEF SavedPeerInfo
<1>2. /\ e \in SavedPeerInfo /\ e.multi_addr = ps[i].multi_addr
      /\ e.account_ids = Append(ps[i].account_ids, a)
  <2>1. Append(r.account_ids, a) \in Seq(Accounts)
    BY <1>1
  <2> HIDE DEF r
  <2>2. /\ [r EXCEPT !.account_ids = Append(@, a)] \in SavedPeerInfo
        /\ [r EXCEPT !.account_ids = Append(@, a)].multi_addr = r.multi_addr
        /\ [r EXCEPT !.account_ids = Append(@, a)].account_ids =
             Append(r.account_ids, a)
    BY <1>0, <2>1 DEF SavedPeerInfo
  <2>3. QED
    BY <2>2 DEF r
<1>3. qs = [ps EXCEPT ![i] = e]
  OBVIOUS
<1> HIDE DEF e, qs
<1>4. /\ qs \in Seq(SavedPeerInfo) /\ DOMAIN qs = DOMAIN ps /\ qs[i] = e
      /\ \A j \in DOMAIN ps : j # i => qs[j] = ps[j]
  BY <1>0, <1>2, <1>3
<1>5. \A j \in DOMAIN ps : qs[j].multi_addr = ps[j].multi_addr
  BY <1>2, <1>4
<1>6. Cardinality(Range(e.account_ids)) = Len(e.account_ids)
  BY <1>1, <1>2, NewAccount DEF DistinctPeers
<1>7. \A j \in DOMAIN qs :
        Cardinality(Range(qs[j].account_ids)) = Len(qs[j].account_ids)
  BY <1>4, <1>6 DEF DistinctPeers
<1>8. DistinctPeers(qs)
  BY <1>4, <1>5, <1>7 DEF DistinctPeers
<1>9. QED
  BY <1>4, <1>8 DEF qs

-----------------------------------------------------------------------------
(* Steps *)

\* Inductive: the database is consistent, its peers are distinct, and exports
\* are exports of one.
TablesInv ==
  /\ Consistent(db)
  /\ DistinctPeers(db.saved_peers)
  /\ \A b \in backup : b.export \in ExportTables

\* A list without a peer, and a new database.
LEMMA NoPeers == DistinctPeers(<<>>)
  BY DEF DistinctPeers

\* What Db::initialize_db writes is consistent.
LEMMA NewTables ==
  ASSUME NEW a \in Accounts
  PROVE  Consistent(NewDb(a)) /\ DistinctPeers(NewDb(a).saved_peers)
<1> DEFINE d == NewDb(a)
<1>1. /\ d.user_account = <<a>> /\ d.nonce = 0 /\ d.success = <<>>
      /\ d.failed = <<>> /\ d.success_value = 0 /\ d.failed_value = 0
      /\ d.saved_peers = <<>> /\ d = [f \in Fields |-> d[f]]
  BY DEF NewDb, Fields
<1>2. /\ <<a>> \in Seq(Accounts) /\ 0 \in 0..MaxNonce
      /\ <<>> \in Seq(Amounts) /\ <<>> \in Seq(SavedPeerInfo)
  BY DbAssumption
<1>3. 0 \in I64Values /\ Total(<<>>) = 0
  BY AddStays, AmountAppend
<1> HIDE DEF d
<1>4. d \in Tables
  BY <1>1, <1>2, <1>3, TablesByField
<1>5. QED
  BY <1>1, <1>3, <1>4, NoPeers DEF Consistent, d

\* An export of a consistent database, applied to a new one, gives the database
\* back without its peers.
LEMMA RestoredTables ==
  ASSUME NEW a \in Accounts, NEW e \in ExportTables
  PROVE  LET d == ApplyStorageExport(NewDb(a), e)
         IN  /\ Consistent(d)
             /\ d.user_account = e.user_account /\ d.nonce = e.nonce
             /\ d.success = e.success /\ d.failed = e.failed
             /\ d.saved_peers = <<>>
<1> DEFINE d == ApplyStorageExport(NewDb(a), e)
<1>1. /\ e.user_account \in Seq(Accounts) /\ e.nonce \in 0..MaxNonce
      /\ e.success \in Seq(Amounts) /\ e.failed \in Seq(Amounts)
  BY DEF ExportTables
<1>2. /\ d.user_account = e.user_account /\ d.nonce = e.nonce
      /\ d.success = <<>> \o e.success /\ d.failed = <<>> \o e.failed
      /\ d.success_value = Total(e.success)
      /\ d.failed_value = Total(e.failed)
      /\ d.saved_peers = <<>>
  BY DEF ApplyStorageExport, NewDb, Total
<1>3. <<>> \o e.success = e.success /\ <<>> \o e.failed = e.failed
  BY <1>1
<1>4. d = [f \in Fields |-> d[f]]
  <2> DEFINE r == NewDb(a)
  <2>1. DOMAIN r = Fields
    BY DEF NewDb, Fields
  <2> HIDE DEF r
  <2>2. d = [f \in DOMAIN r |-> d[f]]
    BY DEF ApplyStorageExport, r
  <2>3. QED
    BY <2>1, <2>2
<1>0. /\ Total(e.success) \in I64Values /\ Total(e.failed) \in I64Values
      /\ <<>> \in Seq(SavedPeerInfo)
  BY <1>1, TotalIsSum
<1> HIDE DEF d
<1>5. Consistent(d)
  <2>1. d \in Tables
    BY <1>0, <1>1, <1>2, <1>3, <1>4, TablesByField
  <2>2. QED
    BY <1>2, <1>3, <2>1 DEF Consistent
<1>6. QED
  BY <1>2, <1>3, <1>5 DEF d

\* Records with all fields are their fields.
LEMMA FieldsOfTables ==
  ASSUME NEW d \in Tables
  PROVE  /\ d = [f \in Fields |-> d[f]]
         /\ d.user_account \in Seq(Accounts) /\ d.nonce \in 0..MaxNonce
         /\ d.success \in Seq(Amounts) /\ d.failed \in Seq(Amounts)
         /\ d.success_value \in I64Values /\ d.failed_value \in I64Values
         /\ d.saved_peers \in Seq(SavedPeerInfo)
  BY DEF Tables, Fields

\* Every operation on a consistent database leaves a consistent one.
LEMMA TablesInvStep == TablesInv /\ [DbNext]_dbVars => TablesInv'
<1> SUFFICES ASSUME TablesInv, [DbNext]_dbVars
             PROVE  TablesInv'
  OBVIOUS
<1>1. /\ db \in Tables /\ db = [f \in Fields |-> db[f]]
      /\ db.user_account \in Seq(Accounts) /\ db.nonce \in 0..MaxNonce
      /\ db.success \in Seq(Amounts) /\ db.failed \in Seq(Amounts)
      /\ db.success_value \in I64Values /\ db.failed_value \in I64Values
      /\ db.saved_peers \in Seq(SavedPeerInfo)
      /\ db.success_value = Total(db.success)
      /\ db.failed_value = Total(db.failed)
      /\ DistinctPeers(db.saved_peers)
  BY FieldsOfTables DEF TablesInv, Consistent
<1>2. ASSUME Consistent(db'), DistinctPeers(db'.saved_peers), UNCHANGED backup
      PROVE  TablesInv'
  BY <1>2 DEF TablesInv
<1>3. ASSUME UNCHANGED dbVars PROVE TablesInv'
  BY <1>3 DEF TablesInv, dbVars
<1>4. ASSUME NEW a \in Accounts, UpdateUserAccount(a) PROVE TablesInv'
  <2>1. CASE a \in Range(db.user_account)
    BY <1>2, <1>4, <2>1 DEF UpdateUserAccount, TablesInv
  <2>2. CASE a \notin Range(db.user_account)
    <3>1. db' = [db EXCEPT !.user_account = Append(@, a)] /\ UNCHANGED backup
      BY <1>4, <2>2 DEF UpdateUserAccount
    <3>2. Append(db.user_account, a) \in Seq(Accounts)
      BY <1>1
    <3>3. Consistent(db') /\ db'.saved_peers = db.saved_peers
      BY <1>1, <3>1, <3>2 DEF Consistent, Tables
    <3>4. QED
      BY <1>1, <1>2, <3>1, <3>3
  <2>3. QED
    BY <2>1, <2>2
<1>5. ASSUME NEW a \in Accounts, NEW p \in Peers, RecordSavedUserPeers(a, p)
      PROVE  TablesInv'
  <2> DEFINE ps == db.saved_peers
             e == [multi_addr |-> p, account_ids |-> <<a>>]
  <2>1. UNCHANGED backup
    BY <1>5 DEF RecordSavedUserPeers
  <2>2. ASSUME NEW qs, qs \in Seq(SavedPeerInfo), DistinctPeers(qs),
               db' = [db EXCEPT !.saved_peers = qs]
        PROVE  TablesInv'
    <3>1. Consistent(db') /\ db'.saved_peers = qs
      BY <1>1, <2>2 DEF Consistent, Tables
    <3>2. QED
      BY <1>2, <2>1, <2>2, <3>1
  <2>3. CASE IndicesOf(ps, p) = {}
    <3>1. db' = [db EXCEPT !.saved_peers = Append(ps, e)]
      BY <1>5, <2>3 DEF RecordSavedUserPeers
    <3>2. Append(ps, e) \in Seq(SavedPeerInfo) /\ DistinctPeers(Append(ps, e))
      BY <1>1, <2>3, RecordedPeer
    <3>3. QED
      BY <2>2, <3>1, <3>2
  <2>4. CASE IndicesOf(ps, p) # {}
    <3>1. PICK i \in IndicesOf(ps, p) :
            db' = IF a \in Range(ps[i].account_ids) THEN db
                  ELSE [db EXCEPT !.saved_peers[i].account_ids = Append(@, a)]
      BY <1>5, <2>4 DEF RecordSavedUserPeers
    <3>2. i \in DOMAIN ps
      BY DEF IndicesOf
    <3>3. CASE a \in Range(ps[i].account_ids)
      BY <2>1, <3>1, <3>3 DEF TablesInv
    <3>4. CASE a \notin Range(ps[i].account_ids)
      <4> DEFINE qs == [ps EXCEPT ![i].account_ids = Append(@, a)]
      <4>1. db' = [db EXCEPT !.saved_peers = qs]
        BY <3>1, <3>4
      <4>2. qs \in Seq(SavedPeerInfo) /\ DistinctPeers(qs)
        BY <1>1, <3>2, <3>4, RecordedAccount
      <4> HIDE DEF qs
      <4>3. QED
        BY <2>2, <4>1, <4>2
    <3>5. QED
      BY <3>3, <3>4
  <2>5. QED
    BY <2>3, <2>4
<1>6. ASSUME NEW a \in Accounts, StartAfresh(a) PROVE TablesInv'
  <2>1. db' = NewDb(a) /\ UNCHANGED backup
    BY <1>6 DEF StartAfresh
  <2>2. QED
    BY <1>2, <2>1, NewTables
<1>7. ASSUME NEW a \in Accounts, StartFromExport(a) PROVE TablesInv'
  <2>1. PICK b \in backup : db' = ApplyStorageExport(NewDb(a), b.export)
    BY <1>7 DEF StartFromExport
  <2>2. b.export \in ExportTables /\ UNCHANGED backup
    BY <1>7, <2>1 DEF TablesInv, StartFromExport
  <2>3. Consistent(db') /\ db'.saved_peers = <<>>
    BY <2>1, <2>2, RestoredTables
  <2>4. QED
    BY <1>2, <2>2, <2>3, NoPeers
<1>8. CASE IncrementNonce
  <2>0. /\ db' = [db EXCEPT !.nonce = @ + 1] /\ db.nonce < MaxNonce
        /\ UNCHANGED backup
    BY <1>8 DEF IncrementNonce
  <2>1. /\ db' = [db EXCEPT !.nonce = @ + 1] /\ db.nonce + 1 \in 0..MaxNonce
        /\ UNCHANGED backup
    BY <1>1, <2>0, DbAssumption
  <2>2. Consistent(db') /\ db'.saved_peers = db.saved_peers
    BY <1>1, <2>1 DEF Consistent, Tables
  <2>3. QED
    BY <1>1, <1>2, <2>1, <2>2
<1>9. ASSUME NEW x \in Amounts, UpdateSuccessTx(x) PROVE TablesInv'
  <2> DEFINE s == Append(db.success, x)
             v == AddAmount(db.success_value, x)
  <2>1. /\ db' = [db EXCEPT !.success = s, !.success_value = v]
        /\ UNCHANGED backup
    BY <1>9 DEF UpdateSuccessTx
  <2>2. s \in Seq(Amounts) /\ v = Total(s) /\ v \in I64Values
    BY <1>1, AmountAppend, AddStays
  <2> HIDE DEF s, v
  <2>3. Consistent(db') /\ db'.saved_peers = db.saved_peers
    BY <1>1, <2>1, <2>2 DEF Consistent, Tables
  <2>4. QED
    BY <1>1, <1>2, <2>1, <2>3
<1>10. ASSUME NEW x \in Amounts, UpdateFailedTx(x) PROVE TablesInv'
  <2> DEFINE s == Append(db.failed, x)
             v == AddAmount(db.failed_value, x)
  <2>1. /\ db' = [db EXCEPT !.failed = s, !.failed_value = v]
        /\ UNCHANGED backup
    BY <1>10 DEF UpdateFailedTx
  <2>2. s \in Seq(Amounts) /\ v = Total(s) /\ v \in I64Values
    BY <1>1, AmountAppend, AddStays
  <2> HIDE DEF s, v
  <2>3. Consistent(db') /\ db'.saved_peers = db.saved_peers
    BY <1>1, <2>1, <2>2 DEF Consistent, Tables
  <2>4. QED
    BY <1>1, <1>2, <2>1, <2>3
<1>11. ASSUME NEW p \in Peers, DeleteSavedPeer(p) PROVE TablesInv'
  <2> DEFINE qs == WithoutPeer(db.saved_peers, p)
  <2>1. db' = [db EXCEPT !.saved_peers = qs] /\ UNCHANGED backup
    BY <1>11 DEF DeleteSavedPeer
  <2>2. qs \in Seq(SavedPeerInfo) /\ DistinctPeers(qs)
    BY <1>1, DeletedPeer
  <2> HIDE DEF qs
  <2>3. Consistent(db') /\ db'.saved_peers = qs
    BY <1>1, <2>1, <2>2 DEF Consistent, Tables
  <2>4. QED
    BY <1>2, <2>1, <2>2, <2>3
<1>12. CASE ExportStorage
  <2>1. /\ UNCHANGED db
        /\ \A b \in backup' : b.export = ExportOf(db)
    BY <1>12 DEF ExportStorage
  <2>2. ExportOf(db) \in ExportTables
    BY <1>1 DEF ExportOf, ExportTables
  <2>3. QED
    BY <2>1, <2>2 DEF TablesInv
<1>13. QED
  BY <1>3, <1>4, <1>5, <1>6, <1>7, <1>8, <1>9, <1>10, <1>11, <1>12 DEF DbNext

\* The inductive invariant holds of every reachable state.
LEMMA TablesAlways == DbSpec => []TablesInv
<1>1. DbInit => TablesInv
  BY NewTables DEF DbInit, TablesInv
<1>2. QED
  BY <1>1, TablesInvStep, PTL DEF DbSpec

-----------------------------------------------------------------------------
(* What the database promises *)

\* Type correctness of the tables, with totals that stay in the range of an
\* i64 whatever is added to them.
THEOREM DbTypeCorrect == DbSpec => []DbTypeOK
<1>1. TablesInv => DbTypeOK
  <2> SUFFICES ASSUME TablesInv PROVE DbTypeOK
    OBVIOUS
  <2>1. /\ db.user_account \in Seq(Accounts) /\ db.nonce \in 0..MaxNonce
        /\ db.success \in Seq(Amounts) /\ db.failed \in Seq(Amounts)
        /\ db.success_value \in I64Values /\ db.failed_value \in I64Values
        /\ db.saved_peers \in Seq(SavedPeerInfo)
    BY FieldsOfTables DEF TablesInv, Consistent
  <2>2. \A E : \A s \in Seq(E) : Range(s) \subseteq E
    BY DEF Range
  <2>3. /\ Range(db.user_account) \subseteq Accounts
        /\ Range(db.success) \subseteq Amounts
        /\ Range(db.failed) \subseteq Amounts
        /\ Range(db.saved_peers) \subseteq SavedPeerInfo
    BY <2>1, <2>2
  <2>4. QED
    BY <2>1, <2>3 DEF DbTypeOK, I64Values
<1>2. QED
  BY <1>1, TablesAlways, PTL

\* The totals that are read are the sums of the records in the bits of an i64,
\* at any width, across any number of starts from exports (update_success_tx,
\* update_failed_tx, apply_storage_export).
THEOREM TotalsAreTrue == DbSpec => []TotalsMatchRecords
<1>1. TablesInv => TotalsMatchRecords
  <2> SUFFICES ASSUME TablesInv PROVE TotalsMatchRecords
    OBVIOUS
  <2>1. /\ db.success \in Seq(Amounts) /\ db.failed \in Seq(Amounts)
        /\ db.success_value = Total(db.success)
        /\ db.failed_value = Total(db.failed)
    BY FieldsOfTables DEF TablesInv, Consistent
  <2>2. QED
    BY <2>1, TotalIsSum DEF TotalsMatchRecords
<1>2. QED
  BY <1>1, TablesAlways, PTL

\* An export made in any reachable state, applied by the next start, brings back
\* every table but the saved peers (export_storage, apply_storage_export).
THEOREM RestartIsFaithful == DbSpec => []RestartKeepsDb
<1>1. TablesInv => RestartKeepsDb
  <2> SUFFICES ASSUME TablesInv, NEW a \in Accounts
               PROVE  ApplyStorageExport(NewDb(a), ExportOf(db))
                        = [db EXCEPT !.saved_peers = <<>>]
    BY DEF RestartKeepsDb
  <2> DEFINE e == ExportOf(db)
             d == ApplyStorageExport(NewDb(a), e)
             r == [db EXCEPT !.saved_peers = <<>>]
  <2>1. /\ db \in Tables /\ db = [f \in Fields |-> db[f]]
        /\ db.user_account \in Seq(Accounts) /\ db.nonce \in 0..MaxNonce
        /\ db.success \in Seq(Amounts) /\ db.failed \in Seq(Amounts)
        /\ db.success_value = Total(db.success)
        /\ db.failed_value = Total(db.failed)
    BY FieldsOfTables DEF TablesInv, Consistent
  <2>2. /\ e \in ExportTables
        /\ e.user_account = db.user_account /\ e.nonce = db.nonce
        /\ e.success = db.success /\ e.failed = db.failed
    BY <2>1 DEF ExportOf, ExportTables
  <2> HIDE DEF e
  <2>3. /\ d \in Tables
        /\ d.success_value = Total(d.success)
        /\ d.failed_value = Total(d.failed)
        /\ d.user_account = e.user_account /\ d.nonce = e.nonce
        /\ d.success = e.success /\ d.failed = e.failed
        /\ d.saved_peers = <<>>
    BY <2>2, RestoredTables DEF Consistent
  <2>4. /\ r = [f \in Fields |-> r[f]]
        /\ \A f \in Fields : r[f] = IF f = "saved_peers" THEN <<>> ELSE db[f]
    BY <2>1
  <2> HIDE DEF d, r
  <2>5. d = [f \in Fields |-> d[f]]
    BY <2>3, FieldsOfTables
  <2>6. \A f \in Fields : d[f] = r[f]
    BY <2>1, <2>2, <2>3, <2>4 DEF Fields
  <2>7. d = r
    BY <2>4, <2>5, <2>6
  <2>8. QED
    BY <2>7 DEF d, r, e
<1>2. QED
  BY <1>1, TablesAlways, PTL

\* A peer has one entry, and an account is in it once, whatever is recorded and
\* deleted (record_saved_user_peers, delete_saved_peer).
THEOREM PeersAreDistinct == DbSpec => []SavedPeersAreDistinct
<1>1. TablesInv => SavedPeersAreDistinct
  BY DEF TablesInv, SavedPeersAreDistinct, DistinctPeers
<1>2. QED
  BY <1>1, TablesAlways, PTL
=============================================================================
