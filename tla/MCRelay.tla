------------------------------ MODULE MCRelay ------------------------------
EXTENDS Relay

CONSTANTS alice, p1, p2

\* A browser with an account, and one that has none yet.
Lists == {<<alice>>, <<>>}
OnePair == {<<p1, p2>>}
=============================================================================
