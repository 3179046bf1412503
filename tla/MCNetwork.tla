----------------------------- MODULE MCNetwork ------------------------------
EXTENDS Network, TLC

\* Hosts and logins that the client accepts; the pool with keepalive, the
\* donation's url never has it.
MCUrls == [o \in Owner |-> [keepAlive |-> o = "pool", resolvable |-> TRUE, login |-> "fits"]]

JobSymmetry == Permutations(Jobs)
=============================================================================
