----------------------------- MODULE MCWasmNode -----------------------------
(* Instances of WasmNode for TLC. *)
EXTENDS WasmNode

CONSTANTS alice, alice2, bob

\* The account sends to another user's account.
Send == {<<alice, bob>>}

\* It sends and receives.
Both == Send \cup {<<bob, alice>>}

\* It sends to another user's account or to the user's second one.
RemoteOrLocal == Send \cup {<<alice, alice2>>}

\* To the user's second account only, which the node may not know as such yet.
ToSecond == {<<alice, alice2>>}

\* It does all of this.
AllRoutes == Both \cup RemoteOrLocal

UpTo2 == 0..2
UpTo3 == 0..3
=============================================================================
