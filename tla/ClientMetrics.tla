--------------------------- MODULE ClientMetrics ---------------------------
(***************************************************************************)
(* The store of client metrics that the backend keeps (server.rs,          *)
(* ClientMetricsStore) and of which the relay has a copy: clients post     *)
(* exports of their databases, and the store adds what is new in each to   *)
(* its counters and keeps a snapshot per account.                          *)
(*                                                                         *)
(* Nothing in the repository posts an export, so the clients are external: *)
(* their databases grow between two posts, may start again from an export  *)
(* that was made before (see BrowserDb), and what they post arrives late,  *)
(* in any order, several times or never: any export may be the next one.   *)
(* A successful transaction only counts; of a failed one the store         *)
(* compares the hash.                                                      *)
(***************************************************************************)
EXTENDS Integers, Sequences, FiniteSets, FiniteSetsExt, SequencesExt

CONSTANTS
  AccountLists, \* the accounts of a client's database, in order
  Hashes,       \* hashes of failed transactions (the nodes give all the empty one)
  Unknown,      \* the key "unknown"
  MaxTx,        \* bound: transactions in an export
  MaxUpdates    \* bound: exports handled

ASSUME MetricsAssumption == MaxTx \in Nat /\ MaxUpdates \in Nat

VARIABLES
  store,     \* ClientMetricsStore
  updates,   \* number of updates of the store
  handled,   \* history: the exports handled
  olderSeen  \* history: an account's export held less than the one before it

metricsVars == <<store, updates, handled, olderSeen>>

\* StorageExport, with what the store reads of it.
Export ==
  { x \in [ accounts : AccountLists, success : 0..MaxTx,
            failed : SeqOf(Hashes, MaxTx) ] : x.success + Len(x.failed) <= MaxTx }

\* The key of an export: the first account of user_account, or "unknown".
AccountOf(x) == IF x.accounts = <<>> THEN Unknown ELSE Head(x.accounts)

-----------------------------------------------------------------------------
(* The store *)

\* ClientMetricsStore::new.  The time of the last update per account is never
\* read and is left out.
NewStore ==
  [ last_totals |-> << >>, total_success_txs |-> 0, total_failed_txs |-> 0,
    tx_success_rate_percent |-> 0, per_client |-> << >> ]

Current(x) == [success |-> x.success, failed |-> Len(x.failed)]
NoTotals == [success |-> 0, failed |-> 0]
BugNoLastTotals(s, a) == NoTotals
LastTotals(s, a) ==
  IF a \in DOMAIN s.last_totals THEN s.last_totals[a] ELSE NoTotals

BugSignedSub(m, n) == m - n
SaturatingSub(m, n) == IF m > n THEN m - n ELSE 0

\* round(100 * success / total), halves up.
BugRateNotHalved(n) ==
  LET total == n.success + n.failed
  IN  (200 * n.success + total) \div total
SuccessRate(n) ==
  LET total == n.success + n.failed
  IN  (200 * n.success + total) \div (2 * total)

\* A failed transaction is appended unless one with its hash is there.
BugMergesAll(listed, failed) == listed \o failed
AddNew(l, h) == IF h \in Range(l) THEN l ELSE Append(l, h)
MergeFailed(listed, failed) == FoldLeft(AddNew, listed, failed)

Listed(s, a) ==
  IF a \in DOMAIN s.per_client THEN s.per_client[a].failed_transactions
                               ELSE <<>>

Put(f, a, v) == [k \in DOMAIN f \cup {a} |-> IF k = a THEN v ELSE f[k]]

\* update_from_exported_storage with update_aggregated_metrics.
Updated(s, x) ==
  LET a == AccountOf(x)
      current == Current(x)
      last == LastTotals(s, a)
  IN  [ last_totals |-> Put(s.last_totals, a, current),
        total_success_txs |->
          s.total_success_txs + SaturatingSub(current.success, last.success),
        total_failed_txs |->
          s.total_failed_txs + SaturatingSub(current.failed, last.failed),
        tx_success_rate_percent |->
          IF current = NoTotals THEN s.tx_success_rate_percent
                                ELSE SuccessRate(current),
        per_client |->
          Put(s.per_client, a,
              [ success_txs |-> current.success,
                failed_txs |-> current.failed,
                failed_transactions |->
                  MergeFailed(Listed(s, a), x.failed) ]) ]

\* handle_client_metrics; all of it happens under the store's lock.
HandleClientMetrics(x) ==
  /\ updates < MaxUpdates
  /\ store' = Updated(store, x)
  /\ updates' = updates + 1
  /\ handled' = handled \cup {x}
  /\ olderSeen' =
       LET last == LastTotals(store, AccountOf(x))
       IN  \/ olderSeen
           \/ x.success < last.success
           \/ Len(x.failed) < last.failed

MetricsInit ==
  /\ store = NewStore
  /\ updates = 0
  /\ handled = {}
  /\ olderSeen = FALSE

MetricsNext == \E x \in Export : HandleClientMetrics(x)

MetricsSpec == MetricsInit /\ [][MetricsNext]_metricsVars

-----------------------------------------------------------------------------
(* Properties *)

Totals == [success : 0..MaxTx, failed : 0..MaxTx]
Snapshot ==
  [ success_txs : 0..MaxTx, failed_txs : 0..MaxTx,
    failed_transactions : Seq(Hashes) ]

\* Types; the success rate that an export leads to is a percentage
\* (update_aggregated_metrics).
MetricsTypeOK ==
  /\ handled \subseteq Export
  /\ updates \in 0..MaxUpdates
  /\ olderSeen \in BOOLEAN
  /\ DOMAIN store = DOMAIN NewStore
  /\ DOMAIN store.last_totals = DOMAIN store.per_client
  /\ DOMAIN store.last_totals = {AccountOf(x) : x \in handled}
  /\ Range(store.last_totals) \subseteq Totals
  /\ Range(store.per_client) \subseteq Snapshot
  /\ {store.total_success_txs, store.total_failed_txs} \subseteq Nat
  /\ store.tx_success_rate_percent \in 0..100

ExportsOf(a) == {x \in handled : AccountOf(x) = a}
HandledKeys == DOMAIN store.last_totals
Newest(a) ==
  [ success |-> Max({x.success : x \in ExportsOf(a)}),
    failed |-> Max({Len(x.failed) : x \in ExportsOf(a)}) ]

\* In whatever order exports arrive, and however often, the counters hold at
\* least the most that each account has reported: a smaller report in between
\* takes nothing away (update_aggregated_metrics, saturating_sub).
AllReportedIsCounted ==
  /\ store.total_success_txs
       >= SumFunction([a \in HandledKeys |-> Newest(a).success])
  /\ store.total_failed_txs
       >= SumFunction([a \in HandledKeys |-> Newest(a).failed])

\* "Compute deltas per account to avoid double counting": as long as no
\* account's export held less than the one before it, the counters hold what
\* the accounts have reported, however often they reported it
\* (update_aggregated_metrics).
NothingIsCountedTwice ==
  ~olderSeen =>
    /\ store.total_success_txs
         <= SumFunction([a \in HandledKeys |-> Newest(a).success])
    /\ store.total_failed_txs
         <= SumFunction([a \in HandledKeys |-> Newest(a).failed])

\* "Merge failed transactions, avoiding duplicates": an account's snapshot
\* lists every hash of a failed transaction that an export of it held, once,
\* also when a later export no longer holds it (update_aggregated_metrics).
FailedAreListedOnce ==
  \A a \in HandledKeys :
    LET listed == store.per_client[a].failed_transactions
    IN  /\ IsInjective(listed)
        /\ Range(listed) = UNION {Range(x.failed) : x \in ExportsOf(a)}
=============================================================================
