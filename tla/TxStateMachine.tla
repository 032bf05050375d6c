--------------------------- MODULE TxStateMachine ---------------------------
(***************************************************************************)
(* The transaction record that every part of the system passes around      *)
(* (primitives/src/data_structure.rs, struct TxStateMachine).              *)
(*                                                                         *)
(* Of its fields the properties only tell apart the two addresses, the     *)
(* per-node nonce that names the transaction in a node's cache, the        *)
(* version used for race resolution and the status.  Reasons and hashes    *)
(* carried by a status (Reverted, TxError, FailedToSubmitTxn,              *)
(* TxSubmissionPassed) are left out.                                       *)
(***************************************************************************)
EXTENDS Integers

CONSTANTS
  Addr,      \* account addresses
  Routes,    \* the (sender, receiver) pairs that trade with each other
  Nonces,    \* values of tx_nonce
  Versions,  \* values of tx_version
  Statuses   \* the statuses an instance uses

\* Two accounts of one profile settle without the backend, so a route joins
\* two different addresses.
ASSUME RoutesAssumption ==
  /\ Routes \subseteq Addr \X Addr
  /\ \A rt \in Routes : rt[1] # rt[2]

Status ==
  { "Genesis", "RecvAddrConfirmed", "RecvAddrConfirmationPassed",
    "NetConfirmed", "SenderConfirmed", "SenderConfirmationfailed",
    "RecvAddrFailed", "FailedToSubmitTxn", "TxError", "TxSubmissionPassed",
    "ReceiverNotRegistered", "Reverted" }

ASSUME StatusesAssumption == Statuses \subseteq Status

Tx ==
  { t \in [ sender : Addr, receiver : Addr, nonce : Nonces,
            version : Versions, status : Statuses ] :
      <<t.sender, t.receiver>> \in Routes }

\* multi_id: the hash of the sender's and the receiver's address and nothing
\* else, so all transactions of one route have the same one.
MultiId(t) == <<t.sender, t.receiver>>

IsReverted(t) == t.status = "Reverted"
=============================================================================
