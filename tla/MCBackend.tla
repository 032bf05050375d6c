----------------------------- MODULE MCBackend -----------------------------
(* Small instances of Backend for TLC. *)
EXTENDS Backend, TLC

CONSTANTS alice, bob, carol

\* Two senders share a receiver; each is a stranger to the other's transactions.
SharedReceiver == {<<alice, bob>>, <<carol, bob>>}

\* The two senders are interchangeable.
SenderSymmetry == Permutations({alice, carol})
=============================================================================
