---------------------------- MODULE MCBrowserDb -----------------------------
(* A small instance of BrowserDb for TLC. *)
EXTENDS BrowserDb, TLC

CONSTANTS acc1, acc2, peer1, peer2

\* Accounts and peers are interchangeable.
DbSymmetry == Permutations({acc1, acc2}) \cup Permutations({peer1, peer2})
=============================================================================
