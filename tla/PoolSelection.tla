--------------------------- MODULE PoolSelection ----------------------------
(***************************************************************************)
(* What a strategy promises to the rest of the miner, as Network sees it   *)
(* through IStrategyListener (onActive, onJob, onPause): at any time the   *)
(* miner works for at most one pool, on a job that pool sent; a pool is    *)
(* kept until it is lost, or until the primary, pool 0, is back.           *)
(***************************************************************************)
EXTENDS Integers

CONSTANTS Pools,    \* pool ids, the primary is 0
          Jobs,     \* jobs a pool may send
          Nothing   \* the work of a paused miner

VARIABLES active,   \* the pool mined for, or -1
          work      \* the job the workers have, or Nothing

Work(p, j) == [pool |-> p, job |-> j]

Init == active = -1 /\ work = Nothing

Select(p, j) ==
    /\ active = -1 \/ p = 0
    /\ active' = p
    /\ work' = Work(p, j)

NewJob(j) ==
    /\ active # -1
    /\ work' = Work(active, j)
    /\ UNCHANGED active

Lose ==
    /\ active # -1
    /\ active' = -1
    /\ work' = Nothing

Next == \/ \E p \in Pools, j \in Jobs : Select(p, j)
        \/ \E j \in Jobs : NewJob(j)
        \/ Lose

Spec == Init /\ [][Next]_<<active, work>>
=============================================================================
