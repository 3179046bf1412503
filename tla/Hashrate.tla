------------------------------ MODULE Hashrate ------------------------------
(***************************************************************************)
(* How the hash rate is measured.  A worker thread counts its batches and  *)
(* now and then publishes its count and the time, in two relaxed atomic    *)
(* stores (Worker::storeStats).  A timer of the loop thread (Workers::     *)
(* onTick) loads them, in two loads, and puts the pair into the thread's   *)
(* ring; calc() walks a ring backwards to the edge of an interval.  The    *)
(* atomics are relaxed; the loads are in either order, which gives every   *)
(* pair that a reordering of the stores can give.                          *)
(*                                                                         *)
(* One unit of the clock stands for one period of the timer.  The ring,    *)
(* the intervals and the two masks are scaled down together; they keep     *)
(* their order (the longest interval fits into the ring).                  *)
(***************************************************************************)
EXTENDS Integers, Sequences, FiniteSetsExt

CONSTANTS Threads,          \* m_threads: thread ids are 0 .. Threads - 1
          Factor,           \* Factor[t]: hashes per batch of thread t
          BucketSize,       \* kBucketSize, a power of two
          ShortInterval,    \* Hashrate::ShortInterval, in periods of the timer
          LongInterval,     \* Hashrate::LargeInterval
          StatMask,         \* 0xF in MultiWorker::start
          HighestMask,      \* 0xF in Workers::onTick
          Garbage,          \* what a fresh, uncleared bucket may hold as its time
          Unit,             \* the time that rates are per (1000 in calc, with fractions)
          MaxClock,         \* bound: the clock
          MaxDelays,        \* bound: how often the loop thread is late
          ReadyBy,          \* bound: the time by which the workers exist
          MaxBatches        \* bound: batches begun in one unit of the clock

Thread    == 0 .. Threads - 1
Intervals == {ShortInterval, LongInterval}

ASSUME HashrateAssumption ==
    /\ Threads \in Nat \ {0}
    /\ Factor \in [Thread -> Nat \ {0}]
    /\ BucketSize \in Nat /\ BucketSize > 1
    /\ ShortInterval \in Nat /\ LongInterval \in Nat
    /\ StatMask \in Nat /\ HighestMask \in Nat
    /\ Garbage \subseteq Nat
    /\ MaxClock \in Nat /\ MaxDelays \in Nat /\ ReadyBy \in Nat /\ MaxBatches \in Nat
    /\ Unit \in Nat /\ \A d \in 1 .. MaxClock : Unit % d = 0

VARIABLES now,          \* high_resolution_clock
          count,        \* count[t]: m_count of the worker
          hashCount,    \* m_hashCount
          timestamp,    \* m_timestamp
          taken,        \* taken[t]: the time storeStats took and has not stored yet, or 0
          made,         \* batches begun since the clock last moved
          worker,       \* threads whose worker exists (Handle::worker)
          top,          \* m_top
          counts,       \* m_counts
          timestamps,   \* m_timestamps
          tick,         \* onTick: [thread, count, stamp] as first loaded, or NoTick
          ticks,        \* m_ticks, modulo HighestMask + 1
          highest,      \* m_highest
          delays,       \* how often the loop thread was late
          added         \* history: what add() was last given for each thread

ringVars   == <<top, counts, timestamps, added>>
workerVars == <<count, hashCount, timestamp, taken, made>>
vars == <<now, workerVars, worker, ringVars, tick, ticks, highest, delays>>

NoTick  == [thread |-> -1, count |-> 0, stamp |-> 0]
Bucket == 0 .. BucketSize - 1

-----------------------------------------------------------------------------
(* Rates.  {} is nan; {r} is r hashes per Unit of the clock, Unit being    *)
(* divisible by every difference of two times.                             *)

isnormal(d) == d # {} /\ d # {0}

\* The buckets calc() looks at, newest first: all but the one at m_top.
Back(t) == [i \in 1 .. BucketSize - 1 |-> (top[t] - i) % BucketSize]

\* now - stamp in 64 bits without a sign: a time in the future is long ago.
Elapsed(stamp, ms) == stamp > now \/ now - stamp > ms

\* The loop stops at a time that is zero or is out of the interval.
Ends(t, ms) ==
    {i \in DOMAIN Back(t) : LET s == timestamps[t][Back(t)[i]] IN s = 0 \/ Elapsed(s, ms)}

calc(t, ms) ==
    LET E     == Ends(t, ms)
        end   == Min(E)
        first == Back(t)[1]
        last  == Back(t)[end - 1]
        hashes == counts[t][first] - counts[t][last]
        time   == timestamps[t][first] - timestamps[t][last]
        sign   == IF time < 0 THEN -1 ELSE 1
    IN  IF \/ E = {}
           \/ timestamps[t][Back(t)[end]] = 0
           \/ end = 1
           \/ time = 0
        THEN {}
        ELSE {hashes * sign * (Unit \div (sign * time))}

calcTotal(ms) ==
    LET Normal == {t \in Thread : isnormal(calc(t, ms))}
    IN  MapThenSumSet(LAMBDA t : CHOOSE r \in calc(t, ms) : TRUE, Normal)

-----------------------------------------------------------------------------
(* The constructor of Hashrate, and of the workers *)

\* Mutant of ClearedThreads: no thread's buckets are cleared.
ClearedThreads_None == {}

\* Every pass of the loop clears the buckets of thread 0; the others stay as
\* operator new returned them.
ClearedThreads == {0}

Init ==
    /\ now = 1
    /\ count = [t \in Thread |-> 0]
    /\ hashCount = [t \in Thread |-> 0]
    /\ timestamp = [t \in Thread |-> 0]
    /\ taken = [t \in Thread |-> 0]
    /\ made = 0
    /\ worker = {}
    /\ top = [t \in Thread |-> 0]
    /\ \E g \in Garbage :
          LET Fresh(t) == IF t \in ClearedThreads THEN 0 ELSE g
          IN  /\ timestamps = [t \in Thread |-> [b \in Bucket |-> Fresh(t)]]
              /\ counts = [t \in Thread |-> [b \in Bucket |-> Fresh(t)]]
    /\ tick = NoTick
    /\ ticks = 0
    /\ highest = 0
    /\ delays = 0
    /\ added = [t \in Thread |-> <<>>]

\* Workers::onReady, on the new thread.
onReady(t) ==
    /\ t \notin worker
    /\ now <= ReadyBy
    /\ worker' = worker \cup {t}
    /\ UNCHANGED <<now, workerVars, ringVars, tick, ticks, highest, delays>>

-----------------------------------------------------------------------------
(* The worker *)

\* When a batch begins, the statistics are stored first if they are due.
Due(t) == count[t] % (StatMask + 1) = 0

HashBatch(t) == count' = [count EXCEPT ![t] = @ + Factor[t]]

\* storeStats takes the time and stores the count ...
StoreCount(t) ==
    /\ t \in worker
    /\ taken[t] = 0 /\ made < MaxBatches
    /\ Due(t)
    /\ made' = made + 1
    /\ taken' = [taken EXCEPT ![t] = now]
    /\ hashCount' = [hashCount EXCEPT ![t] = count[t]]
    /\ UNCHANGED <<now, count, timestamp, worker, ringVars, tick, ticks, highest, delays>>

\* ... then the time, and the batch is hashed.
StoreTimestamp(t) ==
    /\ taken[t] # 0
    /\ timestamp' = [timestamp EXCEPT ![t] = taken[t]]
    /\ taken' = [taken EXCEPT ![t] = 0]
    /\ HashBatch(t)
    /\ UNCHANGED <<now, hashCount, made, worker, ringVars, tick, ticks, highest, delays>>

\* A batch that finds no statistics due.
Hash(t) ==
    /\ t \in worker
    /\ taken[t] = 0 /\ made < MaxBatches
    /\ ~Due(t)
    /\ made' = made + 1
    /\ HashBatch(t)
    /\ UNCHANGED <<now, hashCount, timestamp, taken, worker, ringVars, tick, ticks, highest, delays>>

-----------------------------------------------------------------------------
(* The loop thread *)

\* The history keeps as many samples as the ring shows.
Remember(t, c, stamp) ==
    LET all == Append(added[t], [count |-> c, stamp |-> stamp])
    IN  added' = [added EXCEPT ![t] = IF Len(all) < BucketSize THEN all ELSE Tail(all)]

\* Hashrate::add
add(t, c, stamp) ==
    /\ counts' = [counts EXCEPT ![t][top[t]] = c]
    /\ timestamps' = [timestamps EXCEPT ![t][top[t]] = stamp]
    /\ top' = [top EXCEPT ![t] = (@ + 1) % BucketSize]
    /\ Remember(t, c, stamp)

\* The first of the two loads, whichever it is.  A handle without a worker ends
\* the callback; the threads before it have been added already.
Load(t) == IF t \in worker
           THEN [thread |-> t, count |-> hashCount[t], stamp |-> timestamp[t]]
           ELSE NoTick

\* The clock moves on by a period.
Pass ==
    /\ now < MaxClock
    /\ now' = now + 1
    /\ made' = 0

\* The timer is run at the period's end: onTick begins.
onTick ==
    /\ tick = NoTick
    /\ Pass
    /\ tick' = Load(0)
    /\ UNCHANGED <<count, hashCount, timestamp, taken, worker, ringVars, ticks, highest, delays>>

\* The loop thread is busy, or preempted in the middle of onTick.
Delay ==
    /\ delays < MaxDelays
    /\ delays' = delays + 1
    /\ Pass
    /\ UNCHANGED <<count, hashCount, timestamp, taken, worker, ringVars, tick, ticks, highest>>

\* The second load, and the pair is added.
AddLoaded ==
    LET t == tick.thread
    IN  add(t, tick.count, timestamp[t]) \/ add(t, hashCount[t], tick.stamp)

\* Not the last thread: the next one's first load.
AddNext ==
    /\ tick # NoTick
    /\ tick.thread < Threads - 1
    /\ AddLoaded
    /\ tick' = Load(tick.thread + 1)
    /\ UNCHANGED <<now, workerVars, worker, ticks, highest, delays>>

\* Hashrate::updateHighest, with the rings as the tick leaves them.
updateHighest ==
    highest' = LET h == calcTotal(ShortInterval)' IN IF h > highest THEN h ELSE highest

\* The last thread; then every (HighestMask + 1)-th tick looks for a maximum.
AddLast ==
    /\ tick # NoTick
    /\ tick.thread = Threads - 1
    /\ AddLoaded
    /\ tick' = NoTick
    /\ ticks' = (ticks + 1) % (HighestMask + 1)
    /\ UNCHANGED <<now, workerVars, worker, delays>>
    /\ IF ticks = 0 THEN updateHighest ELSE UNCHANGED highest

Next == \/ \E t \in Thread : onReady(t) \/ StoreCount(t) \/ StoreTimestamp(t) \/ Hash(t)
        \/ onTick \/ Delay \/ AddNext \/ AddLast

Spec == Init /\ [][Next]_vars

-----------------------------------------------------------------------------
(* What the measurement promises *)

\* The rate of the interval, said of the list of the samples and without a walk:
\* the hashes between the first and the last sample in the interval, if a sample
\* older than the interval is still kept.
WindowRateOf(t, ms) ==
    LET Kept  == {i \in DOMAIN added[t] : added[t][i].stamp # 0}
        Old   == {i \in Kept : now - added[t][i].stamp > ms}
        Inside == Kept \ Old
        a     == added[t][Min(Inside)]
        b     == added[t][Max(Inside)]
    IN  IF Old = {} \/ Inside = {} THEN {}
        ELSE IF a.stamp = b.stamp THEN {}
        ELSE {(b.count - a.count) * (Unit \div (b.stamp - a.stamp))}

\* No bucket that was never written can be reached: the constructor cleared
\* them, or the first tick came before the thread's first hash and left a zero
\* time in front of them, or they have all been overwritten.
NoGarbageInReach(t) ==
    \/ t = 0
    \/ added[t] # <<>> /\ added[t][1].stamp = 0
    \/ Len(added[t]) = BucketSize - 1

\* calc() returns the rate of the interval, for every thread that cannot reach
\* an uncleared bucket: whatever the order of the loads and stores, however
\* late the timer, and however often the ring has come around.  And it is never
\* negative: the counts and the times are each read in the order they were
\* stored, though a pair may mix two publications.
WindowRate ==
    \A t \in Thread, ms \in Intervals :
        NoGarbageInReach(t) => /\ calc(t, ms) = WindowRateOf(t, ms)
                               /\ \A r \in calc(t, ms) : r >= 0

=============================================================================
