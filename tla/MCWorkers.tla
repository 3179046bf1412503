----------------------------- MODULE MCWorkers ------------------------------
EXTENDS Workers, TLC

\* Nothing tells two threads, or two jobs of the pool, apart.
Symmetry == Permutations(Threads) \cup Permutations(PoolJobs)
=============================================================================
