-------------------------- MODULE MCSubscriptions --------------------------
(* Small instances of Subscriptions for TLC. *)
EXTENDS Subscriptions, TLC

CONSTANTS alice, bob, carol,  \* accounts
          sub1                \* a subscription

\* One pair trades, and the sender listens.
OneRoute == {<<alice, bob>>}
OfSender == sub1 :> alice

\* The sender trades with two receivers, one of which listens: it is a party
\* of one transaction and a stranger to the other.
TwoReceivers == {<<alice, bob>>, <<alice, carol>>}
OfReceiver == sub1 :> bob

\* The handlers and the filter only tell a reverted transaction from any other;
\* two others show whether the last one sent is the one stored.
StreamStatuses == {"Genesis", "RecvAddrConfirmed", "Reverted"}
=============================================================================
