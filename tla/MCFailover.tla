----------------------------- MODULE MCFailover -----------------------------
EXTENDS FailoverStrategy, TLC

\* Every pool has a host and a login that the client accepts; with the keepalive
\* option for every pool or for the primary only.
KeepAliveUrls == [p \in Pool |-> [keepAlive |-> TRUE, resolvable |-> TRUE, login |-> "fits"]]
MixedUrls == [p \in Pool |-> [keepAlive |-> p = 0, resolvable |-> TRUE, login |-> "fits"]]

JobSymmetry == Permutations(Jobs)
=============================================================================
