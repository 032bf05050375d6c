----------------------------- MODULE BrowserDb ------------------------------
(***************************************************************************)
(* The database of the browser node (db-wasm/src/lib.rs) as the node uses  *)
(* it: InMemoryDbWorker, which lives as long as the node does.  What       *)
(* outlives it is the export that the application makes with               *)
(* export_storage and may pass to the next start, which fills an empty     *)
(* database from it (apply_storage_export).                                *)
(*                                                                         *)
(* None of the operations suspends, so each is one step.  A record of a    *)
(* finished transaction is its amount.  Amounts are u128 and totals i64:   *)
(* the widths are kept, and sums wrap as in a release build.               *)
(***************************************************************************)
EXTENDS Integers, Sequences, SequencesExt, FiniteSets, Lists

CONSTANTS
  Accounts,   \* accounts with their networks
  Peers,      \* multi-addresses of peers
  Amounts,    \* amounts of transactions
  I64,        \* number of values of an i64: 2^64 in the code
  U128,       \* number of values of a u128: 2^128
  MaxNonce,   \* bound: transactions initiated in one database
  MaxIssued,  \* bound: transactions initiated over all starts
  MaxRecords  \* bound: records of finished transactions

ASSUME DbAssumption ==
  /\ I64 \in Nat \ {0} /\ I64 % 2 = 0
  /\ U128 \in Nat \ {0} /\ U128 % I64 = 0
  /\ Amounts \subseteq 0..(U128 - 1)
  /\ {MaxNonce, MaxIssued, MaxRecords} \subseteq Nat

VARIABLES
  db,      \* the tables
  backup,  \* the export the application keeps: a set of none or one
  issued,  \* history, over all starts: every transaction initiated, in order,
           \* with its nonce and with what  known  was then
  known    \* history: the positions in  issued  of the transactions that this
           \* database knows of: initiated in it, or before its export was made

dbVars == <<db, backup, issued, known>>

-----------------------------------------------------------------------------
(* Tables *)

\* SavedPeerInfo.  The peer's id is its multi-address.
SavedPeerInfo == [multi_addr : Peers, account_ids : Seq(Accounts)]

\* The database that a start with account  a  begins with.
NewDb(a) ==
  [ user_account |-> <<a>>, nonce |-> 0,
    success |-> <<>>, failed |-> <<>>,
    success_value |-> 0, failed_value |-> 0,
    saved_peers |-> <<>> ]

\* StorageExport.
ExportOf(d) ==
  [ user_account |-> d.user_account, nonce |-> d.nonce,
    success |-> d.success, failed |-> d.failed ]

\* The value of  x  as an i64.
AsI64(x) == ((x + I64 \div 2) % I64) - I64 \div 2

\* Faulty variant: the sum does not stay in its width.
BugAddUnwrapped(total, amount) == total + amount

\* total + amount as i64
AddAmount(total, amount) == AsI64(total + AsI64(amount))

\* The same for the amounts of a list.
AddAll(total, amounts) == FoldLeft(AddAmount, total, amounts)

\* get_total_value_success, get_total_value_failed: total as u128
AsU128(total) == IF total >= 0 THEN total ELSE total + U128

-----------------------------------------------------------------------------
(* Accounts, nonces, records *)

\* add_account
UpdateUserAccount(a) ==
  /\ db' = IF a \in Range(db.user_account) THEN db
           ELSE [db EXCEPT !.user_account = Append(@, a)]
  /\ UNCHANGED <<backup, issued, known>>

\* initiate_transaction: get_nonce, plus one, then increment_nonce.
IncrementNonce ==
  /\ db.nonce < MaxNonce /\ Len(issued) < MaxIssued
  /\ db' = [db EXCEPT !.nonce = @ + 1]
  /\ issued' = Append(issued, [nonce |-> db.nonce + 1, known |-> known])
  /\ known' = known \cup {Len(issued) + 1}
  /\ UNCHANGED backup

HasRoom == Len(db.success) + Len(db.failed) < MaxRecords

UpdateSuccessTx(amount) ==
  /\ HasRoom
  /\ db' = [db EXCEPT !.success = Append(@, amount),
                      !.success_value = AddAmount(@, amount)]
  /\ UNCHANGED <<backup, issued, known>>

\* Faulty variant: the failure is added to the other total.
BugFailureCountsAsSuccess(amount) ==
  /\ HasRoom
  /\ db' = [db EXCEPT !.failed = Append(@, amount),
                      !.success_value = AddAmount(@, amount)]
  /\ UNCHANGED <<backup, issued, known>>

UpdateFailedTx(amount) ==
  /\ HasRoom
  /\ db' = [db EXCEPT !.failed = Append(@, amount),
                      !.failed_value = AddAmount(@, amount)]
  /\ UNCHANGED <<backup, issued, known>>

-----------------------------------------------------------------------------
(* Saved peers *)

\* Faulty variant: only the last entry is compared with the address.
BugIndexOfLast(ps, p) ==
  {i \in DOMAIN ps : i = Len(ps) /\ ps[i].multi_addr = p}

\* The positions of entries for a multi-address.
IndicesOf(ps, p) == {i \in DOMAIN ps : ps[i].multi_addr = p}

RecordSavedUserPeers(a, p) ==
  LET ps == db.saved_peers
      places == IndicesOf(ps, p)
      entry == [multi_addr |-> p, account_ids |-> <<a>>]
  IN  /\ \/ /\ places = {}
            /\ db' = [db EXCEPT !.saved_peers = Append(ps, entry)]
         \/ \E i \in places :
              /\ \A j \in places : i <= j
              /\ db' = IF a \in Range(ps[i].account_ids) THEN db
                       ELSE [db EXCEPT !.saved_peers[i].account_ids =
                                          Append(@, a)]
      /\ UNCHANGED <<backup, issued, known>>

\* The entries of other peers.
WithoutPeer(ps, p) == Keep(ps, {e \in Range(ps) : e.multi_addr # p})

\* Fails, and changes nothing, if there is no such peer.
DeleteSavedPeer(p) ==
  /\ db' = [db EXCEPT !.saved_peers = WithoutPeer(@, p)]
  /\ UNCHANGED <<backup, issued, known>>

-----------------------------------------------------------------------------
(* Export and start *)

ExportStorage ==
  /\ backup' = {[export |-> ExportOf(db), known |-> known]}
  /\ UNCHANGED <<db, issued, known>>

\* Faulty variants: the nonce stays 0; the failed transactions are listed
\* without their total.
BugNonceNotApplied(d, e) ==
  [ d EXCEPT !.user_account = e.user_account,
             !.success = @ \o e.success, !.failed = @ \o e.failed,
             !.success_value = AddAll(@, e.success),
             !.failed_value = AddAll(@, e.failed) ]
BugTotalNotApplied(d, e) ==
  [ d EXCEPT !.user_account = e.user_account, !.nonce = e.nonce,
             !.success = @ \o e.success, !.failed = @ \o e.failed,
             !.success_value = AddAll(@, e.success) ]

\* set_user_account, set_nonce, then update_success_tx and update_failed_tx of
\* each transaction.
ApplyStorageExport(d, e) ==
  [ d EXCEPT !.user_account = e.user_account, !.nonce = e.nonce,
             !.success = @ \o e.success, !.failed = @ \o e.failed,
             !.success_value = AddAll(@, e.success),
             !.failed_value = AddAll(@, e.failed) ]

\* The node is gone (the tab is closed, or the instance trapped) and is
\* started anew, without an export or with the last one.  The export may be
\* old: what was initiated after it was made is not known to the new database.
StartAfresh(a) ==
  /\ db' = NewDb(a)
  /\ known' = {}
  /\ UNCHANGED <<backup, issued>>
StartFromExport(a) ==
  /\ \E b \in backup : /\ db' = ApplyStorageExport(NewDb(a), b.export)
                      /\ known' = b.known
  /\ UNCHANGED <<backup, issued>>

-----------------------------------------------------------------------------

DbInit ==
  /\ db \in {NewDb(a) : a \in Accounts}
  /\ backup = {}
  /\ issued = <<>>
  /\ known = {}

DbNext ==
  \/ \E a \in Accounts :
       \/ UpdateUserAccount(a)
       \/ \E p \in Peers : RecordSavedUserPeers(a, p)
       \/ StartAfresh(a) \/ StartFromExport(a)
  \/ IncrementNonce
  \/ \E amount \in Amounts : UpdateSuccessTx(amount) \/ UpdateFailedTx(amount)
  \/ \E p \in Peers : DeleteSavedPeer(p)
  \/ ExportStorage

DbSpec == DbInit /\ [][DbNext]_dbVars

-----------------------------------------------------------------------------
(* Properties *)

\* Type invariant of the tables; the totals stay in the range of an i64.
DbTypeOK ==
  /\ Range(db.user_account) \subseteq Accounts
  /\ db.nonce \in 0..MaxNonce
  /\ Range(db.success) \cup Range(db.failed) \subseteq Amounts
  /\ {db.success_value, db.failed_value}
       \subseteq (-(I64 \div 2))..(I64 \div 2 - 1)
  /\ Range(db.saved_peers) \subseteq SavedPeerInfo

\* The true sum of a list of amounts.
SumOf(s) == FoldLeft(LAMBDA x, y : x + y, 0, s)

\* The totals that are read agree with the records in the bits that an i64
\* holds, however often the sum leaves its range on the way and however often
\* the node is started from an export (update_success_tx, update_failed_tx).
TotalsMatchRecords ==
  /\ AsU128(db.success_value) % I64 = SumOf(db.success) % I64
  /\ AsU128(db.failed_value) % I64 = SumOf(db.failed) % I64

\* An export made now and passed to the next start brings back all tables but
\* the saved peers, whichever account the start names and however the database
\* came to be what it is (export_storage, apply_storage_export).
RestartKeepsDb ==
  \A a \in Accounts :
    ApplyStorageExport(NewDb(a), ExportOf(db)) = [db EXCEPT !.saved_peers = <<>>]

\* No transaction is given the nonce of an earlier one that its database knows
\* of, over any number of exports and starts: of one initiated since the start,
\* or before the export of that start was made, in the same database or in one
\* that it was started from.  Two such transactions would share a key in the
\* cache.  A transaction initiated after the export was made is not known, and
\* its nonce is given again (initiate_transaction, apply_storage_export).
NoncesAreNew ==
  \A j \in DOMAIN issued : \A i \in issued[j].known :
    issued[i].nonce # issued[j].nonce

\* A peer has one entry, with an account at most once, whatever is recorded
\* and deleted in between: deleting a peer leaves no entry of it behind for a
\* lookup to find (record_saved_user_peers, delete_saved_peer).
SavedPeersAreDistinct ==
  LET ps == db.saved_peers
  IN  /\ \A i, j \in DOMAIN ps :
           ps[i].multi_addr = ps[j].multi_addr => i = j
      /\ \A i \in DOMAIN ps :
           Cardinality(Range(ps[i].account_ids)) = Len(ps[i].account_ids)

\* The inductive form of NoncesAreNew: the nonces of the known transactions do
\* not exceed the database's nonce, and in an export not the exported one.
Issue == [nonce : Nat, known : SUBSET Nat]
NoneAbove(ids, n) ==
  /\ n \in Nat /\ ids \subseteq DOMAIN issued
  /\ \A i \in ids : issued[i].nonce <= n
NonceInv ==
  /\ issued \in Seq(Issue)
  /\ "nonce" \in DOMAIN db /\ NoneAbove(known, db.nonce)
  /\ \A b \in backup : NoneAbove(b.known, b.export.nonce)
  /\ \A j \in DOMAIN issued : issued[j].known \subseteq 1..(j - 1)
  /\ NoncesAreNew
=============================================================================
