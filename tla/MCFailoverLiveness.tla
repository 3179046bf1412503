------------------------ MODULE MCFailoverLiveness --------------------------
EXTENDS FailoverLiveness

PlainUrls == [p \in Pool |-> [keepAlive |-> FALSE, resolvable |-> TRUE, login |-> "fits"]]
=============================================================================
