----------------------------- MODULE MCNodeLink -----------------------------
(* Instances of NodeLink for TLC. *)
EXTENDS NodeLink

\* A response to the node, a transaction of others, and what does not decode.
Item(type, s, r) == [type |-> type, sender |-> s, receiver |-> r]
Items ==
  { Item("ReceiverResponseHandled", "me", "peer"),
    Item("SenderRequestHandled", "me", "peer"),
    Item("error", "none", "none") }
=============================================================================
