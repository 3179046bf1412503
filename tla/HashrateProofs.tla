--------------------------- MODULE HashrateProofs ---------------------------
(***************************************************************************)
(* Proofs about Hashrate, for every number of threads, size of the ring,   *)
(* interval and clock.                                                     *)
(*                                                                         *)
(* WindowRate speaks of one moment.  What makes it true is that the ring   *)
(* and the list of the samples agree behind m_top, and that the samples    *)
(* are in order although a sample may mix two publications: the half that  *)
(* onTick has loaded lies between the last sample and what the worker has  *)
(* published since.                                                        *)
(***************************************************************************)
EXTENDS Hashrate, FiniteSets, Functions, TLAPS, FiniteSetTheorems, WellFoundedInduction

-----------------------------------------------------------------------------
(* Numbers *)

\* A quotient is the largest number whose product with the divisor fits.
LEMMA DivBounds ==
    ASSUME NEW a \in Nat, NEW b \in Nat \ {0}
    PROVE  /\ a \div b \in Nat
           /\ b * (a \div b) <= a
           /\ a < b * (a \div b) + b
BY SMT

\* A remainder is below its modulus, and a number below it is its own remainder.
LEMMA ModRange ==
    ASSUME NEW a \in Nat, NEW b \in Nat \ {0}
    PROVE  /\ a % b \in 0 .. b - 1
           /\ a < b => a % b = a
BY SMT

\* A set of naturals that is not empty has a least element.
LEMMA NatMin ==
    ASSUME NEW S \in SUBSET Nat, S # {}
    PROVE  \E x \in S : \A y \in S : x <= y
<1>1. PICK x \in S : \A y \in S : ~(<<y, x>> \in OpToRel(<, Nat))
  BY NatLessThanWellFounded, WFMin, Zenon
<1>2. \A y \in S : ~(y < x)
  BY <1>1 DEF OpToRel
<1> QED
  BY <1>2

Sample == [count : Nat, stamp : Nat]

ShapeInv ==
    /\ now \in Nat \ {0}
    /\ count \in [Thread -> Nat] /\ hashCount \in [Thread -> Nat]
    /\ timestamp \in [Thread -> Nat] /\ taken \in [Thread -> Nat]
    /\ top \in [Thread -> Bucket]
    /\ counts \in [Thread -> [Bucket -> Nat]] /\ timestamps \in [Thread -> [Bucket -> Nat]]
    /\ tick = NoTick \/ tick \in [thread : Thread, count : Nat, stamp : Nat]
    /\ added \in [Thread -> Seq(Sample)]
    /\ \A t \in Thread : Len(added[t]) <= BucketSize - 1

\* What a worker publishes never goes back, and never lies in the future.
PublishedInv(t) ==
    /\ hashCount[t] <= count[t]
    /\ timestamp[t] <= now /\ taken[t] <= now
    /\ taken[t] # 0 => timestamp[t] <= taken[t]

\* The first load of a tick is no newer than what is published.
LoadedInv(t) ==
    tick.thread = t => tick.count <= hashCount[t] /\ tick.stamp <= timestamp[t]

\* The samples are in order, and none is newer than what is published or was loaded.
SamplesInv(t) ==
    /\ \A i, j \in DOMAIN added[t] :
          i < j => /\ added[t][i].count <= added[t][j].count
                   /\ added[t][i].stamp <= added[t][j].stamp
    /\ \A i \in DOMAIN added[t] :
          /\ added[t][i].count <= hashCount[t] /\ added[t][i].stamp <= timestamp[t]
          /\ tick.thread = t => /\ added[t][i].count <= tick.count
                                /\ added[t][i].stamp <= tick.stamp

\* The ring behind m_top holds the samples, the newest first.
RingInv(t) ==
    \A i \in 1 .. BucketSize - 1 :
        IF i <= Len(added[t])
        THEN LET a == added[t][Len(added[t]) - i + 1]
                 b == Back(t)[i]
             IN  counts[t][b] = a.count /\ timestamps[t][b] = a.stamp
        ELSE t = 0 => timestamps[t][Back(t)[i]] = 0

IInv ==
    /\ ShapeInv
    /\ \A t \in Thread : PublishedInv(t) /\ LoadedInv(t) /\ SamplesInv(t) /\ RingInv(t)

-----------------------------------------------------------------------------
(* The ring *)

\* What the arithmetic of the ring needs of its size.
LEMMA RingSize == BucketSize \in Nat /\ BucketSize > 1 /\ Bucket = 0 .. BucketSize - 1
  BY HashrateAssumption DEF Bucket

\* A number just below zero wraps around once.
LEMMA Wraps ==
    ASSUME NEW b \in Nat \ {0}, NEW x \in Int, -b <= x, x < 0
    PROVE  x % b = x + b
<1> DEFINE r == x % b
           q == x \div b
<1>1. r \in 0 .. b - 1 /\ q \in Int /\ x = b * q + r
  BY SMT
<1> HIDE DEF r, q
<1>2. CASE q >= 0
  <2>1. b * q >= 0 /\ b * q \in Int
    BY <1>1, <1>2, SMT
  <2> QED
    BY <1>1, <2>1
<1>3. CASE q <= -2
  <2>1. b * q <= b * (-2) /\ b * q \in Int
    BY <1>1, <1>3, SMT
  <2>2. b * (-2) = -(2 * b)
    BY SMT
  <2> QED
    BY <1>1, <2>1, <2>2
<1>4. CASE q = -1
  <2>1. b * q = -b
    BY <1>4, SMT
  <2> QED
    BY <1>1, <2>1 DEF r
<1> QED
  BY <1>1, <1>2, <1>3, <1>4

\* The bucket i places behind m_top, without the modulo.
LEMMA BackBucket ==
    ASSUME NEW t \in Thread, top[t] \in Bucket, NEW i \in 1 .. BucketSize - 1
    PROVE  /\ Back(t)[i] = IF i <= top[t] THEN top[t] - i ELSE top[t] - i + BucketSize
           /\ Back(t)[i] \in Bucket
           /\ Back(t)[i] # top[t]
<1>1. BucketSize \in Nat \ {0} /\ top[t] \in 0 .. BucketSize - 1 /\ i \in Nat
  BY RingSize
<1>2. Back(t)[i] = (top[t] - i) % BucketSize
  BY DEF Back
<1>3. CASE i <= top[t]
  <2>1. top[t] - i \in Nat /\ top[t] - i < BucketSize
    BY <1>1, <1>3
  <2>2. (top[t] - i) % BucketSize = top[t] - i
    BY <1>1, <2>1, ModRange
  <2>3. Back(t)[i] = top[t] - i
    BY <1>2, <2>2
  <2>4. top[t] - i \in Bucket /\ top[t] - i # top[t]
    BY <1>1, <2>1, RingSize
  <2> QED
    BY <1>3, <2>3, <2>4
<1>4. CASE i > top[t]
  <2>1. top[t] - i \in Int /\ -BucketSize <= top[t] - i /\ top[t] - i < 0
    BY <1>1, <1>4
  <2>2. (top[t] - i) % BucketSize = top[t] - i + BucketSize
    BY <1>1, <2>1, Wraps
  <2>3. Back(t)[i] = top[t] - i + BucketSize
    BY <1>2, <2>2
  <2>4. top[t] - i + BucketSize \in Bucket /\ top[t] - i + BucketSize # top[t]
    BY <1>1, <1>4, <2>1, RingSize
  <2>5. ~(i <= top[t])
    BY <1>1, <1>4
  <2> QED
    BY <2>3, <2>4, <2>5
<1> QED
  BY <1>1, <1>3, <1>4

\* m_top moves by one, so the bucket that was written is the first behind it and
\* the others are one place further.
LEMMA TopMoves ==
    ASSUME NEW t \in Thread, top[t] \in Bucket, top'[t] = (top[t] + 1) % BucketSize
    PROVE  /\ top'[t] \in Bucket
           /\ Back(t)'[1] = top[t]
           /\ \A i \in 2 .. BucketSize - 1 : Back(t)'[i] = Back(t)[i - 1]
<1>1. BucketSize \in Nat \ {0} /\ BucketSize > 1 /\ top[t] \in 0 .. BucketSize - 1
  BY RingSize
<1>2. top'[t] = IF top[t] = BucketSize - 1 THEN 0 ELSE top[t] + 1
  <2>1. CASE top[t] = BucketSize - 1
    <3>1. BucketSize % BucketSize = 0
      BY <1>1, SMT
    <3>2. top[t] + 1 = BucketSize
      BY <1>1, <2>1
    <3> QED
      BY <2>1, <3>1, <3>2
  <2>2. CASE top[t] # BucketSize - 1
    <3>1. top[t] + 1 \in Nat /\ top[t] + 1 < BucketSize
      BY <1>1, <2>2
    <3> QED
      BY <1>1, <2>2, <3>1, ModRange
  <2> QED
    BY <2>1, <2>2
<1>3. top'[t] \in Bucket
  BY <1>1, <1>2, RingSize
<1>4. \A i \in 1 .. BucketSize - 1 :
          Back(t)'[i] = IF i <= top'[t] THEN top'[t] - i ELSE top'[t] - i + BucketSize
  <2> SUFFICES ASSUME NEW i \in 1 .. BucketSize - 1
               PROVE  Back(t)'[i] = IF i <= top'[t] THEN top'[t] - i ELSE top'[t] - i + BucketSize
    OBVIOUS
  <2>1. top'[t] \in 0 .. BucketSize - 1 /\ i \in Nat
    BY <1>1, <1>3, RingSize
  <2>2. Back(t)'[i] = (top'[t] - i) % BucketSize
    BY DEF Back
  <2>3. CASE i <= top'[t]
    <3>1. top'[t] - i \in Nat /\ top'[t] - i < BucketSize
      BY <1>1, <2>1, <2>3
    <3> QED
      BY <1>1, <2>2, <2>3, <3>1, ModRange
  <2>4. CASE i > top'[t]
    <3>1. top'[t] - i \in Int /\ -BucketSize <= top'[t] - i /\ top'[t] - i < 0
      BY <1>1, <2>1, <2>4
    <3>2. (top'[t] - i) % BucketSize = top'[t] - i + BucketSize
      BY <1>1, <3>1, Wraps
    <3> QED
      BY <2>1, <2>2, <2>4, <3>2
  <2> QED
    BY <2>1, <2>3, <2>4
<1>5. Back(t)'[1] = top[t]
  BY <1>1, <1>2, <1>4
<1>6. ASSUME NEW i \in 2 .. BucketSize - 1
      PROVE  Back(t)'[i] = Back(t)[i - 1]
  <2>1. i \in 1 .. BucketSize - 1 /\ i - 1 \in 1 .. BucketSize - 1
    BY <1>1
  <2>2. Back(t)[i - 1] = IF i - 1 <= top[t] THEN top[t] - (i - 1)
                         ELSE top[t] - (i - 1) + BucketSize
    BY <2>1, BackBucket
  <2> QED
    BY <1>1, <1>2, <1>4, <2>1, <2>2
<1> QED
  BY <1>3, <1>5, <1>6

-----------------------------------------------------------------------------
(* The list of the samples *)

\* The list with a new sample: the old ones in their order, without the first where
\* there is no room, and the new one last.
LEMMA Remembered ==
    ASSUME NEW s \in Seq(Sample), NEW x \in Sample, NEW n \in Nat, n > 1, Len(s) <= n - 1,
           NEW r, r = IF Len(Append(s, x)) < n THEN Append(s, x) ELSE Tail(Append(s, x))
    PROVE  /\ r \in Seq(Sample)
           /\ \E d \in {0, 1} :
                 /\ Len(r) = Len(s) + 1 - d
                 /\ d = 0 => Len(s) + 1 <= n - 1
                 /\ d = 1 => Len(s) = n - 1
                 /\ \A k \in 1 .. Len(r) :
                       r[k] = IF k + d = Len(s) + 1 THEN x ELSE s[k + d]
<1> DEFINE a == Append(s, x)
<1>1. /\ a \in Seq(Sample) /\ Len(a) = Len(s) + 1 /\ Len(s) \in Nat
      /\ \A k \in 1 .. Len(s) + 1 : a[k] = IF k = Len(s) + 1 THEN x ELSE s[k]
  OBVIOUS
<1> HIDE DEF a
<1>2. CASE Len(a) < n
  <2>1. r = a
    BY <1>2 DEF a
  <2>2. /\ Len(r) = Len(s) + 1 - 0 /\ Len(s) + 1 <= n - 1
        /\ \A k \in 1 .. Len(r) : r[k] = IF k + 0 = Len(s) + 1 THEN x ELSE s[k + 0]
    BY <1>1, <1>2, <2>1
  <2> QED
    BY <1>1, <2>1, <2>2
<1>3. CASE ~(Len(a) < n)
  <2>1. /\ Tail(a) \in Seq(Sample) /\ Len(Tail(a)) = Len(s)
        /\ \A k \in 1 .. Len(s) : Tail(a)[k] = a[k + 1]
    BY <1>1
  <2>2. r = Tail(a)
    BY <1>3 DEF a
  <2>3. \A k \in 1 .. Len(s) : k + 1 \in 1 .. Len(s) + 1
    BY <1>1
  <2>4. /\ Len(r) = Len(s) + 1 - 1 /\ Len(s) = n - 1
        /\ \A k \in 1 .. Len(r) : r[k] = IF k + 1 = Len(s) + 1 THEN x ELSE s[k + 1]
    BY <1>1, <1>3, <2>1, <2>2, <2>3
  <2> QED
    BY <2>1, <2>2, <2>4
<1> QED
  BY <1>2, <1>3

-----------------------------------------------------------------------------
(* Every step keeps the invariant *)

\* Numbers in the order in which the steps publish them.
LEMMA Counters ==
    ASSUME ShapeInv, NEW t \in Thread
    PROVE  /\ now \in Nat /\ count[t] \in Nat /\ hashCount[t] \in Nat
           /\ timestamp[t] \in Nat /\ taken[t] \in Nat
           /\ \A i \in DOMAIN added[t] :
                 added[t][i].count \in Nat /\ added[t][i].stamp \in Nat
           /\ tick.thread = t => tick.count \in Nat /\ tick.stamp \in Nat
<1>1. added[t] \in Seq(Sample)
  BY DEF ShapeInv
<1>2. \A i \in DOMAIN added[t] : added[t][i] \in Sample
  BY <1>1
<1>3. \A i \in DOMAIN added[t] : added[t][i].count \in Nat /\ added[t][i].stamp \in Nat
  BY <1>2 DEF Sample
<1>4. tick.thread = t => tick.count \in Nat /\ tick.stamp \in Nat
  BY DEF ShapeInv, NoTick
<1> QED
  BY <1>3, <1>4 DEF ShapeInv

LEMMA Start == Init => IInv
<1> SUFFICES ASSUME Init PROVE IInv
  OBVIOUS
<1>1. PICK g \in Garbage :
         /\ timestamps = [t \in Thread |-> [b \in Bucket |-> IF t \in ClearedThreads THEN 0 ELSE g]]
         /\ counts = [t \in Thread |-> [b \in Bucket |-> IF t \in ClearedThreads THEN 0 ELSE g]]
  BY DEF Init
<1>2. g \in Nat
  BY HashrateAssumption
<1>3. \A t \in Thread : added[t] = <<>> /\ Len(added[t]) = 0
  BY DEF Init
<1>4. \A t \in Thread : top[t] \in Bucket
  BY RingSize DEF Init
<1>5. ShapeInv
  <2>1. /\ timestamps \in [Thread -> [Bucket -> Nat]]
        /\ counts \in [Thread -> [Bucket -> Nat]]
    BY <1>1, <1>2
  <2>2. added \in [Thread -> Seq(Sample)]
    BY DEF Init
  <2>3. \A t \in Thread : Len(added[t]) <= BucketSize - 1
    BY <1>3, RingSize
  <2> QED
    BY <1>4, <2>1, <2>2, <2>3 DEF ShapeInv, Init
<1>6. ASSUME NEW t \in Thread
      PROVE  PublishedInv(t) /\ LoadedInv(t) /\ SamplesInv(t)
  <2>1. tick.thread # t
    BY HashrateAssumption DEF Init, NoTick, Thread
  <2>2. DOMAIN added[t] = {}
    BY <1>3
  <2> QED
    BY <2>1, <2>2 DEF Init, PublishedInv, LoadedInv, SamplesInv
<1>7. ASSUME NEW t \in Thread
      PROVE  RingInv(t)
  <2>1. \A i \in 1 .. BucketSize - 1 : ~(i <= Len(added[t]))
    BY <1>3, RingSize
  <2>2. \A i \in 1 .. BucketSize - 1 : Back(t)[i] \in Bucket
    BY <1>4, BackBucket
  <2>3. t = 0 => \A b \in Bucket : timestamps[t][b] = 0
    BY <1>1 DEF ClearedThreads
  <2> QED
    BY <2>1, <2>2, <2>3 DEF RingInv
<1> QED
  BY <1>5, <1>6, <1>7 DEF IInv

\* Where the loop thread does not add a sample, it is enough that the workers only
\* publish more, and that what a tick loads now was published.
LEMMA Publishes ==
    ASSUME IInv, UNCHANGED ringVars,
           now' \in Nat \ {0},
           count' \in [Thread -> Nat], hashCount' \in [Thread -> Nat],
           timestamp' \in [Thread -> Nat], taken' \in [Thread -> Nat],
           \A t \in Thread : /\ PublishedInv(t)'
                             /\ hashCount[t] <= hashCount'[t] /\ timestamp[t] <= timestamp'[t],
           \/ tick' = tick
           \/ tick' = NoTick
           \/ UNCHANGED <<hashCount, timestamp>> /\ \E u \in Thread : tick' = Load(u)
    PROVE  IInv'
<1>1. ShapeInv
  BY DEF IInv
<1>2. UNCHANGED <<top, counts, timestamps, added>>
  BY DEF ringVars
<1>3. tick' = NoTick \/ tick' \in [thread : Thread, count : Nat, stamp : Nat]
  <2>1. ASSUME NEW u \in Thread, tick' = Load(u)
        PROVE  tick' = NoTick \/ tick' \in [thread : Thread, count : Nat, stamp : Nat]
    <3>1. hashCount[u] \in Nat /\ timestamp[u] \in Nat
      BY <1>1, Counters
    <3> QED
      BY <2>1, <3>1 DEF Load
  <2> QED
    BY <1>1, <2>1 DEF ShapeInv
<1>4. ShapeInv'
  BY <1>1, <1>2, <1>3 DEF ShapeInv
<1>5. ASSUME NEW t \in Thread
      PROVE  LoadedInv(t)' /\ SamplesInv(t)' /\ RingInv(t)'
  <2>1. PublishedInv(t) /\ LoadedInv(t) /\ SamplesInv(t) /\ RingInv(t)
    BY DEF IInv
  <2>2. hashCount[t] <= hashCount'[t] /\ timestamp[t] <= timestamp'[t]
    OBVIOUS
  <2>3. hashCount'[t] \in Nat /\ timestamp'[t] \in Nat
    OBVIOUS
  <2>4. RingInv(t)'
    BY <1>2, <2>1 DEF RingInv, Back
  <2>5. /\ hashCount[t] \in Nat /\ timestamp[t] \in Nat
        /\ \A i \in DOMAIN added[t] : added[t][i].count \in Nat /\ added[t][i].stamp \in Nat
        /\ tick.thread = t => tick.count \in Nat /\ tick.stamp \in Nat
    BY <1>1, Counters
  <2>6. \A i \in DOMAIN added[t] :
           added[t][i].count <= hashCount[t] /\ added[t][i].stamp <= timestamp[t]
    BY <2>1 DEF SamplesInv
  <2>7. \A i \in DOMAIN added[t] :
           added[t][i].count <= hashCount'[t] /\ added[t][i].stamp <= timestamp'[t]
    BY <2>2, <2>3, <2>5, <2>6
  <2>8. /\ LoadedInv(t)'
        /\ tick'.thread = t =>
              \A i \in DOMAIN added[t] : /\ added[t][i].count <= tick'.count
                                         /\ added[t][i].stamp <= tick'.stamp
    <3>1. CASE tick' = tick
      BY <2>1, <2>2, <2>3, <2>5, <3>1 DEF LoadedInv, SamplesInv
    <3>2. CASE tick' = NoTick
      <4>1. tick'.thread # t
        BY <3>2, HashrateAssumption DEF NoTick, Thread
      <4> QED
        BY <4>1 DEF LoadedInv
    <3>3. ASSUME UNCHANGED <<hashCount, timestamp>>, NEW u \in Thread, tick' = Load(u),
                 tick'.thread = t
          PROVE  tick'.count = hashCount[t] /\ tick'.stamp = timestamp[t]
      <4>1. u \in worker
        <5> SUFFICES ASSUME u \notin worker PROVE FALSE
          OBVIOUS
        <5>1. tick'.thread = -1
          BY <3>3 DEF Load, NoTick
        <5> QED
          BY <3>3, <5>1, HashrateAssumption DEF Thread
      <4>2. tick' = [thread |-> u, count |-> hashCount[u], stamp |-> timestamp[u]]
        BY <3>3, <4>1 DEF Load
      <4> QED
        BY <3>3, <4>2
    <3>4. CASE UNCHANGED <<hashCount, timestamp>> /\ \E u \in Thread : tick' = Load(u)
      <4>1. tick'.thread = t => tick'.count = hashCount[t] /\ tick'.stamp = timestamp[t]
        BY <3>3, <3>4
      <4>2. hashCount' = hashCount /\ timestamp' = timestamp
        BY <3>4
      <4> QED
        BY <2>3, <2>6, <4>1, <4>2 DEF LoadedInv
    <3> QED
      BY <3>1, <3>2, <3>4
  <2>9. SamplesInv(t)'
    BY <1>2, <2>1, <2>7, <2>8 DEF SamplesInv
  <2> QED
    BY <2>4, <2>8, <2>9
<1> QED
  BY <1>4, <1>5 DEF IInv

\* Steps that publish nothing: a worker comes into being, a batch is hashed, time passes.
LEMMA QuietSteps ==
    ASSUME IInv,
           \/ \E t \in Thread : onReady(t) \/ Hash(t)
           \/ onTick \/ Delay
    PROVE  IInv'
<1>1. /\ now \in Nat \ {0} /\ ShapeInv
      /\ count \in [Thread -> Nat] /\ hashCount \in [Thread -> Nat]
      /\ timestamp \in [Thread -> Nat] /\ taken \in [Thread -> Nat]
  BY DEF IInv, ShapeInv
<1>2. UNCHANGED ringVars /\ UNCHANGED <<hashCount, timestamp, taken>>
  BY DEF onReady, Hash, onTick, Delay, workerVars
<1>3. now' \in Nat \ {0} /\ now' >= now
  BY <1>1 DEF onReady, Hash, onTick, Delay, Pass
<1>4. count' \in [Thread -> Nat] /\ \A t \in Thread : count[t] <= count'[t]
  <2>1. ASSUME NEW u \in Thread, Hash(u)
        PROVE  count' \in [Thread -> Nat] /\ \A t \in Thread : count[t] <= count'[t]
    <3>1. count' = [count EXCEPT ![u] = count[u] + Factor[u]]
      BY <2>1 DEF Hash, HashBatch
    <3>2. Factor[u] \in Nat
      BY HashrateAssumption
    <3> QED
      BY <1>1, <3>1, <3>2
  <2>2. CASE UNCHANGED count
    <3>1. \A t \in Thread : count[t] \in Nat
      BY <1>1
    <3> QED
      BY <1>1, <2>2, <3>1
  <2> QED
    BY <2>1, <2>2 DEF onReady, onTick, Delay, workerVars
<1>5. \/ tick' = tick
      \/ UNCHANGED <<hashCount, timestamp>> /\ \E u \in Thread : tick' = Load(u)
  <2>1. 0 \in Thread
    BY HashrateAssumption DEF Thread
  <2> QED
    BY <1>2, <2>1 DEF onReady, Hash, onTick, Delay
<1>6. ASSUME NEW t \in Thread
      PROVE  /\ PublishedInv(t)'
             /\ hashCount[t] <= hashCount'[t] /\ timestamp[t] <= timestamp'[t]
  <2>1. PublishedInv(t)
    BY DEF IInv
  <2>2. /\ count[t] \in Nat /\ count'[t] \in Nat /\ hashCount[t] \in Nat
        /\ timestamp[t] \in Nat /\ taken[t] \in Nat
    BY <1>1, <1>4
  <2>3. count[t] <= count'[t]
    BY <1>4
  <2> QED
    BY <1>1, <1>2, <1>3, <2>1, <2>2, <2>3 DEF PublishedInv
<1> QED
  BY <1>1, <1>2, <1>3, <1>4, <1>5, <1>6, Publishes

\* A worker publishes its count, which has only grown.
LEMMA StoreCountStep ==
    ASSUME IInv, NEW u \in Thread, StoreCount(u)
    PROVE  IInv'
<1>1. /\ now \in Nat \ {0} /\ ShapeInv
      /\ count \in [Thread -> Nat] /\ hashCount \in [Thread -> Nat]
      /\ timestamp \in [Thread -> Nat] /\ taken \in [Thread -> Nat]
  BY DEF IInv, ShapeInv
<1>2. /\ UNCHANGED ringVars /\ UNCHANGED <<now, count, timestamp, tick>>
      /\ taken' = [taken EXCEPT ![u] = now]
      /\ hashCount' = [hashCount EXCEPT ![u] = count[u]]
  BY DEF StoreCount
<1>3. taken' \in [Thread -> Nat] /\ hashCount' \in [Thread -> Nat]
  BY <1>1, <1>2
<1>4. ASSUME NEW t \in Thread
      PROVE  /\ PublishedInv(t)'
             /\ hashCount[t] <= hashCount'[t] /\ timestamp[t] <= timestamp'[t]
  <2>1. PublishedInv(t)
    BY DEF IInv
  <2>2. /\ count[t] \in Nat /\ hashCount[t] \in Nat /\ timestamp[t] \in Nat /\ taken[t] \in Nat
    BY <1>1
  <2>3. /\ hashCount'[t] = IF t = u THEN count[t] ELSE hashCount[t]
        /\ taken'[t] = IF t = u THEN now ELSE taken[t]
    BY <1>1, <1>2
  <2> QED
    BY <1>1, <1>2, <2>1, <2>2, <2>3 DEF PublishedInv
<1> QED
  BY <1>1, <1>2, <1>3, <1>4, Publishes

\* A worker publishes the time it took, which is not before the last one.
LEMMA StoreTimestampStep ==
    ASSUME IInv, NEW u \in Thread, StoreTimestamp(u)
    PROVE  IInv'
<1>1. /\ now \in Nat \ {0} /\ ShapeInv
      /\ count \in [Thread -> Nat] /\ hashCount \in [Thread -> Nat]
      /\ timestamp \in [Thread -> Nat] /\ taken \in [Thread -> Nat]
  BY DEF IInv, ShapeInv
<1>2. /\ UNCHANGED ringVars /\ UNCHANGED <<now, hashCount, tick>>
      /\ taken[u] # 0
      /\ timestamp' = [timestamp EXCEPT ![u] = taken[u]]
      /\ taken' = [taken EXCEPT ![u] = 0]
      /\ count' = [count EXCEPT ![u] = count[u] + Factor[u]]
  BY DEF StoreTimestamp, HashBatch
<1>3. Factor[u] \in Nat
  BY HashrateAssumption
<1>4. /\ taken' \in [Thread -> Nat] /\ timestamp' \in [Thread -> Nat]
      /\ count' \in [Thread -> Nat]
  BY <1>1, <1>2, <1>3
<1>5. ASSUME NEW t \in Thread
      PROVE  /\ PublishedInv(t)'
             /\ hashCount[t] <= hashCount'[t] /\ timestamp[t] <= timestamp'[t]
  <2>1. PublishedInv(t)
    BY DEF IInv
  <2>2. /\ count[t] \in Nat /\ hashCount[t] \in Nat /\ timestamp[t] \in Nat /\ taken[t] \in Nat
    BY <1>1
  <2>3. /\ timestamp'[t] = IF t = u THEN taken[t] ELSE timestamp[t]
        /\ taken'[t] = IF t = u THEN 0 ELSE taken[t]
        /\ count'[t] = IF t = u THEN count[t] + Factor[u] ELSE count[t]
    BY <1>1, <1>2
  <2> QED
    BY <1>1, <1>2, <1>3, <2>1, <2>2, <2>3 DEF PublishedInv
<1> QED
  BY <1>1, <1>2, <1>4, <1>5, Publishes

\* The list of thread t takes a sample no older than its last and no newer than
\* what is published, and the ring takes it with it.
LEMMA Adds ==
    ASSUME IInv, NEW t \in Thread, NEW c \in Nat, NEW s \in Nat, add(t, c, s),
           c <= hashCount[t], s <= timestamp[t],
           \A i \in DOMAIN added[t] : added[t][i].count <= c /\ added[t][i].stamp <= s
    PROVE  /\ added' \in [Thread -> Seq(Sample)]
           /\ \A u \in Thread : Len(added'[u]) <= BucketSize - 1
           /\ top' \in [Thread -> Bucket]
           /\ counts' \in [Thread -> [Bucket -> Nat]]
           /\ timestamps' \in [Thread -> [Bucket -> Nat]]
           /\ \A u \in Thread \ {t} :
                 /\ added'[u] = added[u] /\ top'[u] = top[u]
                 /\ counts'[u] = counts[u] /\ timestamps'[u] = timestamps[u]
           /\ \A i, j \in DOMAIN added'[t] :
                 i < j => /\ added'[t][i].count <= added'[t][j].count
                          /\ added'[t][i].stamp <= added'[t][j].stamp
           /\ \A i \in DOMAIN added'[t] :
                 added'[t][i].count <= hashCount[t] /\ added'[t][i].stamp <= timestamp[t]
           /\ RingInv(t)'
<1> DEFINE x == [count |-> c, stamp |-> s]
           a == added[t]
           r == IF Len(Append(a, x)) < BucketSize THEN Append(a, x) ELSE Tail(Append(a, x))
<1>1. /\ ShapeInv /\ SamplesInv(t) /\ RingInv(t)
      /\ a \in Seq(Sample) /\ Len(a) <= BucketSize - 1 /\ Len(a) \in Nat
      /\ top[t] \in Bucket
      /\ hashCount[t] \in Nat /\ timestamp[t] \in Nat
  BY DEF IInv, ShapeInv
<1>2. BucketSize \in Nat /\ BucketSize > 1
  BY RingSize
<1>3. x \in Sample /\ x.count = c /\ x.stamp = s
  BY DEF Sample
<1>4. added' = [added EXCEPT ![t] = r]
  BY DEF add, Remember
<1>5. /\ r \in Seq(Sample)
      /\ \E d \in {0, 1} :
            /\ Len(r) = Len(a) + 1 - d
            /\ d = 0 => Len(a) + 1 <= BucketSize - 1
            /\ d = 1 => Len(a) = BucketSize - 1
            /\ \A k \in 1 .. Len(r) : r[k] = IF k + d = Len(a) + 1 THEN x ELSE a[k + d]
  <2>1. r = IF Len(Append(a, x)) < BucketSize THEN Append(a, x) ELSE Tail(Append(a, x))
    OBVIOUS
  <2> HIDE DEF x, a, r
  <2> QED
    <3>1. a \in Seq(Sample) /\ x \in Sample /\ BucketSize \in Nat /\ BucketSize > 1
          /\ Len(a) <= BucketSize - 1
      BY <1>1, <1>2, <1>3
    <3> HIDE DEF Sample
    <3>2. \A y \in Sample : \A z :
              z = (IF Len(Append(a, y)) < BucketSize THEN Append(a, y) ELSE Tail(Append(a, y)))
              => z \in Seq(Sample) /\ \E d \in {0, 1} :
            /\ Len(z) = Len(a) + 1 - d
            /\ d = 0 => Len(a) + 1 <= BucketSize - 1
            /\ d = 1 => Len(a) = BucketSize - 1
            /\ \A k \in 1 .. Len(z) : z[k] = IF k + d = Len(a) + 1 THEN y ELSE a[k + d]
      BY <3>1, Remembered, Zenon
    <3> QED
      BY <3>1, <3>2, <2>1
<1> HIDE DEF r
<1>6. added \in [Thread -> Seq(Sample)]
  BY <1>1 DEF ShapeInv
<1>7. added' \in [Thread -> Seq(Sample)] /\ added'[t] = r
  BY <1>4, <1>5, <1>6
<1>8. PICK d \in {0, 1} :
         /\ Len(r) = Len(a) + 1 - d
         /\ d = 0 => Len(a) + 1 <= BucketSize - 1
         /\ d = 1 => Len(a) = BucketSize - 1
         /\ \A k \in 1 .. Len(r) : r[k] = IF k + d = Len(a) + 1 THEN x ELSE a[k + d]
  BY <1>5
<1>9. Len(r) <= BucketSize - 1 /\ Len(r) \in Nat /\ DOMAIN r = 1 .. Len(r)
  BY <1>1, <1>2, <1>5, <1>8
<1>10. \A u \in Thread : Len(added'[u]) <= BucketSize - 1
  <2>1. \A u \in Thread \ {t} : added'[u] = added[u] /\ Len(added[u]) <= BucketSize - 1
    BY <1>1, <1>4, <1>6 DEF ShapeInv
  <2> QED
    BY <1>7, <1>9, <2>1
<1>11. /\ counts \in [Thread -> [Bucket -> Nat]] /\ timestamps \in [Thread -> [Bucket -> Nat]]
       /\ top \in [Thread -> Bucket]
  BY <1>1 DEF ShapeInv
<1>12. /\ counts' = [counts EXCEPT ![t] = [counts[t] EXCEPT ![top[t]] = c]]
       /\ timestamps' = [timestamps EXCEPT ![t] = [timestamps[t] EXCEPT ![top[t]] = s]]
       /\ top' = [top EXCEPT ![t] = (top[t] + 1) % BucketSize]
  BY DEF add
<1>13. /\ top'[t] \in Bucket
       /\ Back(t)'[1] = top[t]
       /\ \A i \in 2 .. BucketSize - 1 : Back(t)'[i] = Back(t)[i - 1]
  <2>1. top'[t] = (top[t] + 1) % BucketSize
    BY <1>11, <1>12
  <2> QED
    BY <1>1, <2>1, TopMoves
<1>14. /\ top' \in [Thread -> Bucket]
       /\ counts' \in [Thread -> [Bucket -> Nat]]
       /\ timestamps' \in [Thread -> [Bucket -> Nat]]
  <2>1. top' \in [Thread -> Bucket]
    <3>1. (top[t] + 1) % BucketSize \in Bucket
      BY <1>11, <1>12, <1>13
    <3> QED
      BY <1>11, <1>12, <3>1
  <2>2. /\ [counts[t] EXCEPT ![top[t]] = c] \in [Bucket -> Nat]
        /\ [timestamps[t] EXCEPT ![top[t]] = s] \in [Bucket -> Nat]
    BY <1>11
  <2> QED
    BY <1>11, <1>12, <2>1, <2>2
<1>15. ASSUME NEW u \in Thread \ {t}
       PROVE  /\ added'[u] = added[u] /\ top'[u] = top[u]
              /\ counts'[u] = counts[u] /\ timestamps'[u] = timestamps[u]
  BY <1>4, <1>6, <1>11, <1>12
<1>16. /\ \A b \in Bucket : counts'[t][b] = IF b = top[t] THEN c ELSE counts[t][b]
       /\ \A b \in Bucket : timestamps'[t][b] = IF b = top[t] THEN s ELSE timestamps[t][b]
  BY <1>11, <1>12
\* Element k of the new list, by the element of the old one it was.
<1>17. ASSUME NEW k \in 1 .. Len(r), k + d # Len(a) + 1
       PROVE  k + d \in DOMAIN a /\ r[k] = a[k + d]
  <2> HIDE DEF a, x
  <2>1. r[k] = a[k + d]
    BY <1>8, <1>17
  <2>2. DOMAIN a = 1 .. Len(a)
    BY <1>1
  <2>3. k \in Nat /\ 1 <= k /\ k <= Len(a) + 1 - d /\ d \in Nat
    BY <1>8, <1>9
  <2>4. k + d \in 1 .. Len(a)
    BY <1>1, <1>17, <2>3
  <2> QED
    BY <2>1, <2>2, <2>4
<1>18. ASSUME NEW k \in 1 .. Len(r)
       PROVE  k + d = Len(a) + 1 <=> k = Len(r)
  BY <1>1, <1>8, <1>9
<1>19. r[Len(r)] = x
  <2>1. Len(r) \in 1 .. Len(r)
    BY <1>1, <1>2, <1>8, <1>9
  <2> QED
    BY <1>8, <1>18, <2>1
<1>20. ASSUME NEW i \in DOMAIN r
       PROVE  /\ r[i].count \in Nat /\ r[i].stamp \in Nat
              /\ r[i].count <= c /\ r[i].stamp <= s
  <2>1. \A k \in DOMAIN a : a[k].count \in Nat /\ a[k].stamp \in Nat
    BY <1>1, Counters
  <2>2. CASE i = Len(r)
    BY <1>3, <1>19, <2>2
  <2>3. CASE i # Len(r)
    <3>1. i + d \in DOMAIN a /\ r[i] = a[i + d]
      BY <1>9, <1>17, <1>18, <2>3
    <3> QED
      BY <2>1, <3>1
  <2> QED
    BY <2>2, <2>3
<1>21. \A i \in DOMAIN r : r[i].count <= hashCount[t] /\ r[i].stamp <= timestamp[t]
  <2> SUFFICES ASSUME NEW i \in DOMAIN r
               PROVE  r[i].count <= hashCount[t] /\ r[i].stamp <= timestamp[t]
    OBVIOUS
  <2>1. r[i].count \in Nat /\ r[i].stamp \in Nat /\ r[i].count <= c /\ r[i].stamp <= s
    BY <1>20
  <2> QED
    BY <1>1, <2>1
<1>22. ASSUME NEW i \in DOMAIN r, NEW j \in DOMAIN r, i < j
       PROVE  r[i].count <= r[j].count /\ r[i].stamp <= r[j].stamp
  <2>1. i \in 1 .. Len(r) /\ j \in 1 .. Len(r) /\ i # Len(r)
    BY <1>9, <1>22
  <2>2. i + d \in DOMAIN a /\ r[i] = a[i + d]
    BY <1>17, <1>18, <2>1
  <2>3. CASE j = Len(r)
    BY <1>3, <1>19, <1>20, <2>3
  <2>4. CASE j # Len(r)
    <3>1. j + d \in DOMAIN a /\ r[j] = a[j + d]
      BY <1>17, <1>18, <2>1, <2>4
    <3>2. i + d < j + d
      BY <1>22, <2>1
    <3> QED
      BY <1>1, <2>2, <3>1, <3>2 DEF SamplesInv
  <2> QED
    BY <2>3, <2>4
<1>23. RingInv(t)'
  <2> SUFFICES ASSUME NEW i \in 1 .. BucketSize - 1
               PROVE  IF i <= Len(r)
                      THEN /\ counts'[t][Back(t)'[i]] = r[Len(r) - i + 1].count
                           /\ timestamps'[t][Back(t)'[i]] = r[Len(r) - i + 1].stamp
                      ELSE t = 0 => timestamps'[t][Back(t)'[i]] = 0
    BY <1>7 DEF RingInv
  <2>1. CASE i = 1
    <3>1. 1 <= Len(r) /\ Len(r) - 1 + 1 = Len(r)
      BY <1>1, <1>2, <1>8, <1>9
    <3>2. Back(t)'[i] = top[t]
      BY <1>13, <2>1
    <3>3. counts'[t][top[t]] = c /\ timestamps'[t][top[t]] = s
      BY <1>1, <1>16
    <3> QED
      BY <1>3, <1>19, <2>1, <3>1, <3>2, <3>3
  <2>2. CASE i # 1
    <3>1. i \in 2 .. BucketSize - 1 /\ i - 1 \in 1 .. BucketSize - 1
      BY <1>2, <2>2
    <3>2. Back(t)'[i] = Back(t)[i - 1]
      BY <1>13, <3>1
    <3>3. Back(t)[i - 1] \in Bucket /\ Back(t)[i - 1] # top[t]
      BY <1>1, <3>1, BackBucket
    <3>4. /\ counts'[t][Back(t)'[i]] = counts[t][Back(t)[i - 1]]
          /\ timestamps'[t][Back(t)'[i]] = timestamps[t][Back(t)[i - 1]]
      BY <1>16, <3>2, <3>3
    <3>5. CASE i <= Len(r)
      <4>1. i - 1 <= Len(a)
        BY <1>1, <1>8, <3>1, <3>5
      <4>2. /\ counts[t][Back(t)[i - 1]] = a[Len(a) - (i - 1) + 1].count
            /\ timestamps[t][Back(t)[i - 1]] = a[Len(a) - (i - 1) + 1].stamp
        BY <1>1, <3>1, <4>1 DEF RingInv
      <4>3. Len(r) - i + 1 \in 1 .. Len(r) /\ Len(r) - i + 1 # Len(r)
        BY <1>9, <3>1, <3>5
      <4>4. r[Len(r) - i + 1] = a[Len(r) - i + 1 + d]
        BY <1>17, <1>18, <4>3
      <4>5. Len(r) - i + 1 + d = Len(a) - (i - 1) + 1
        BY <1>1, <1>8, <3>1
      <4> QED
        BY <3>4, <3>5, <4>2, <4>4, <4>5
    <3>6. CASE ~(i <= Len(r))
      <4>1. ~(i - 1 <= Len(a))
        BY <1>1, <1>8, <1>9, <3>1, <3>6
      <4>2. t = 0 => timestamps[t][Back(t)[i - 1]] = 0
        BY <1>1, <3>1, <4>1 DEF RingInv
      <4> QED
        BY <3>4, <3>6, <4>2
    <3> QED
      BY <3>5, <3>6
  <2> QED
    BY <2>1, <2>2
<1> QED
  BY <1>7, <1>10, <1>14, <1>15, <1>21, <1>22, <1>23

\* A tick adds what it loaded, in either order of the loads, and goes on to the
\* next thread or ends.
LEMMA AddSteps ==
    ASSUME IInv, AddNext \/ AddLast
    PROVE  IInv'
<1>0. tick \in [thread : Thread, count : Nat, stamp : Nat]
  BY DEF AddNext, AddLast, IInv, ShapeInv
<1> PICK t \in Thread : tick.thread = t
  BY <1>0
<1>1. /\ ShapeInv
      /\ tick \in [thread : Thread, count : Nat, stamp : Nat]
      /\ PublishedInv(t) /\ LoadedInv(t) /\ SamplesInv(t) /\ RingInv(t)
  BY <1>0 DEF IInv
<1>2. /\ hashCount[t] \in Nat /\ timestamp[t] \in Nat /\ tick.count \in Nat /\ tick.stamp \in Nat
      /\ tick.count <= hashCount[t] /\ tick.stamp <= timestamp[t]
      /\ \A i \in DOMAIN added[t] :
            /\ added[t][i].count \in Nat /\ added[t][i].stamp \in Nat
            /\ added[t][i].count <= tick.count /\ added[t][i].stamp <= tick.stamp
            /\ added[t][i].count <= hashCount[t] /\ added[t][i].stamp <= timestamp[t]
  BY <1>1, Counters DEF LoadedInv, SamplesInv
<1>3. UNCHANGED <<now, count, hashCount, timestamp, taken>>
  BY DEF AddNext, AddLast, workerVars
<1>4. PICK c \in Nat, s \in Nat :
         /\ add(t, c, s)
         /\ c <= hashCount[t] /\ s <= timestamp[t]
         /\ \A i \in DOMAIN added[t] : added[t][i].count <= c /\ added[t][i].stamp <= s
  <2>1. add(t, tick.count, timestamp[t]) \/ add(t, hashCount[t], tick.stamp)
    BY DEF AddNext, AddLast, AddLoaded
  <2>2. CASE add(t, tick.count, timestamp[t])
    BY <1>2, <2>2
  <2>3. CASE add(t, hashCount[t], tick.stamp)
    BY <1>2, <2>3
  <2> QED
    BY <2>1, <2>2, <2>3
<1>5. \/ tick' = NoTick
      \/ t + 1 \in Thread /\ tick' = [thread |-> t + 1, count |-> hashCount[t + 1],
                                      stamp |-> timestamp[t + 1]]
  <2>1. CASE AddNext
    <3>1. t + 1 \in Thread
      BY <1>1, <2>1, HashrateAssumption DEF AddNext, Thread
    <3> QED
      BY <2>1, <3>1 DEF AddNext, Load
  <2>2. CASE AddLast
    BY <2>2 DEF AddLast
  <2> QED
    BY <2>1, <2>2
<1>6. /\ added' \in [Thread -> Seq(Sample)]
      /\ \A u \in Thread : Len(added'[u]) <= BucketSize - 1
      /\ top' \in [Thread -> Bucket]
      /\ counts' \in [Thread -> [Bucket -> Nat]]
      /\ timestamps' \in [Thread -> [Bucket -> Nat]]
      /\ \A u \in Thread \ {t} :
            /\ added'[u] = added[u] /\ top'[u] = top[u]
            /\ counts'[u] = counts[u] /\ timestamps'[u] = timestamps[u]
      /\ \A i, j \in DOMAIN added'[t] :
            i < j => /\ added'[t][i].count <= added'[t][j].count
                     /\ added'[t][i].stamp <= added'[t][j].stamp
      /\ \A i \in DOMAIN added'[t] :
            added'[t][i].count <= hashCount[t] /\ added'[t][i].stamp <= timestamp[t]
      /\ RingInv(t)'
  BY <1>1, <1>4, Adds
<1>7. tick' = NoTick \/ tick' \in [thread : Thread, count : Nat, stamp : Nat]
  BY <1>1, <1>5 DEF ShapeInv
<1>8. ShapeInv'
  BY <1>1, <1>3, <1>6, <1>7 DEF ShapeInv
<1>9. ASSUME NEW u \in Thread
      PROVE  PublishedInv(u)' /\ LoadedInv(u)' /\ SamplesInv(u)' /\ RingInv(u)'
  <2>1. PublishedInv(u) /\ SamplesInv(u) /\ RingInv(u)
    BY DEF IInv
  <2>2. PublishedInv(u)'
    BY <1>3, <2>1 DEF PublishedInv
  <2>3. tick'.thread = u => /\ u # t
                            /\ tick'.count = hashCount[u] /\ tick'.stamp = timestamp[u]
    <3>1. CASE tick' = NoTick
      BY <3>1, HashrateAssumption DEF NoTick, Thread
    <3>2. CASE t + 1 \in Thread /\ tick' = [thread |-> t + 1, count |-> hashCount[t + 1],
                                            stamp |-> timestamp[t + 1]]
      <4>1. t + 1 # t
        BY <1>1 DEF Thread
      <4> QED
        BY <3>2, <4>1
    <3> QED
      BY <1>5, <3>1, <3>2
  <2>4. LoadedInv(u)'
    <3>1. hashCount[u] \in Nat /\ timestamp[u] \in Nat
      BY <1>1, Counters
    <3> QED
      BY <1>3, <2>3, <3>1 DEF LoadedInv
  <2>5. CASE u = t
    <3>1. tick'.thread # u
      BY <2>3, <2>5
    <3>2. SamplesInv(u)'
      BY <1>3, <1>6, <2>5, <3>1 DEF SamplesInv
    <3> QED
      BY <1>6, <2>2, <2>4, <2>5, <3>2
  <2>6. CASE u # t
    <3>1. /\ added'[u] = added[u] /\ top'[u] = top[u]
          /\ counts'[u] = counts[u] /\ timestamps'[u] = timestamps[u]
      BY <1>6, <2>6
    <3>2. SamplesInv(u)'
      BY <1>3, <2>1, <2>3, <3>1 DEF SamplesInv
    <3>3. RingInv(u)'
      BY <2>1, <3>1 DEF RingInv, Back
    <3> QED
      BY <2>2, <2>4, <3>2, <3>3
  <2> QED
    BY <2>5, <2>6
<1> QED
  BY <1>8, <1>9 DEF IInv

\* Every step keeps the invariant.
LEMMA Step == IInv /\ [Next]_vars => IInv'
<1> SUFFICES ASSUME IInv, [Next]_vars PROVE IInv'
  OBVIOUS
<1>1. CASE UNCHANGED vars
  <2>1. UNCHANGED ringVars
        /\ UNCHANGED <<now, count, hashCount, timestamp, taken, tick>>
    BY <1>1 DEF vars, workerVars
  <2>2. /\ now \in Nat \ {0} /\ ShapeInv
        /\ count \in [Thread -> Nat] /\ hashCount \in [Thread -> Nat]
        /\ timestamp \in [Thread -> Nat] /\ taken \in [Thread -> Nat]
    BY DEF IInv, ShapeInv
  <2>3. ASSUME NEW t \in Thread
        PROVE  /\ PublishedInv(t)'
               /\ hashCount[t] <= hashCount'[t] /\ timestamp[t] <= timestamp'[t]
    <3>1. PublishedInv(t)
      BY DEF IInv
    <3>2. hashCount[t] \in Nat /\ timestamp[t] \in Nat
      BY <2>2
    <3> QED
      BY <2>1, <3>1, <3>2 DEF PublishedInv
  <2> QED
    BY <2>1, <2>2, <2>3, Publishes
<1>2. CASE Next
  BY <1>2, QuietSteps, StoreCountStep, StoreTimestampStep, AddSteps DEF Next
<1> QED
  BY <1>1, <1>2

\* The ring holds the samples, and the samples are in order, in every state.
THEOREM Invariant == Spec => []IInv
  BY Start, Step, PTL DEF Spec

-----------------------------------------------------------------------------
(* The rate *)

\* Min is the element that no element is less than.
LEMMA LeastIs ==
    ASSUME NEW S \in SUBSET Nat, NEW m \in S, \A x \in S : m <= x
    PROVE  Min(S) = m
<1>1. \E x \in S : \A y \in S : x <= y
  OBVIOUS
<1>2. Min(S) \in S /\ \A y \in S : Min(S) <= y
  BY <1>1 DEF Min
<1>3. m \in Nat /\ Min(S) \in Nat /\ m <= Min(S) /\ Min(S) <= m
  BY <1>2
<1> QED
  BY <1>3

\* Max is the element that no element is greater than.
LEMMA GreatestIs ==
    ASSUME NEW S \in SUBSET Nat, NEW m \in S, \A x \in S : x <= m
    PROVE  Max(S) = m
<1>1. \E x \in S : \A y \in S : y <= x
  OBVIOUS
<1>2. Max(S) \in S /\ \A y \in S : y <= Max(S)
  BY <1>1 DEF Max
<1>3. m \in Nat /\ Max(S) \in Nat /\ m <= Max(S) /\ Max(S) <= m
  BY <1>2
<1> QED
  BY <1>3

\* Where the walk can stop: at a sample that is zero or too old, or behind the samples.
LEMMA WhereItEnds ==
    ASSUME IInv, NEW t \in Thread, NEW ms \in Intervals
    PROVE  /\ ms \in Nat /\ Ends(t, ms) \subseteq 1 .. BucketSize - 1
           /\ \A i \in 1 .. BucketSize - 1 : i <= Len(added[t]) =>
                 LET a == added[t][Len(added[t]) - i + 1]
                 IN  /\ Len(added[t]) - i + 1 \in DOMAIN added[t]
                     /\ a.stamp \in Nat /\ a.count \in Nat
                     /\ counts[t][Back(t)[i]] = a.count
                     /\ timestamps[t][Back(t)[i]] = a.stamp
                     /\ i \in Ends(t, ms) <=> (a.stamp = 0 \/ now - a.stamp > ms)
           /\ \A i \in 1 .. BucketSize - 1 : t = 0 /\ ~(i <= Len(added[t])) =>
                 timestamps[t][Back(t)[i]] = 0 /\ i \in Ends(t, ms)
<1>1. ShapeInv /\ PublishedInv(t) /\ SamplesInv(t) /\ RingInv(t)
  BY DEF IInv
<1>2. ms \in Nat
  BY HashrateAssumption DEF Intervals
<1>3. DOMAIN Back(t) = 1 .. BucketSize - 1
  BY DEF Back
<1>4. \A i \in 1 .. BucketSize - 1 :
         i \in Ends(t, ms) <=> \/ timestamps[t][Back(t)[i]] = 0
                               \/ timestamps[t][Back(t)[i]] > now
                               \/ now - timestamps[t][Back(t)[i]] > ms
  BY <1>3 DEF Ends, Elapsed
<1>5. Ends(t, ms) \subseteq 1 .. BucketSize - 1
  BY <1>3 DEF Ends
<1>6. ASSUME NEW i \in 1 .. BucketSize - 1, i <= Len(added[t])
      PROVE  LET a == added[t][Len(added[t]) - i + 1]
             IN  /\ Len(added[t]) - i + 1 \in DOMAIN added[t]
                 /\ a.stamp \in Nat /\ a.count \in Nat
                 /\ counts[t][Back(t)[i]] = a.count
                 /\ timestamps[t][Back(t)[i]] = a.stamp
                 /\ i \in Ends(t, ms) <=> (a.stamp = 0 \/ now - a.stamp > ms)
  <2> DEFINE j == Len(added[t]) - i + 1
             a == added[t][j]
  <2>1. added[t] \in Seq(Sample)
    BY <1>1 DEF ShapeInv
  <2>2. j \in DOMAIN added[t]
    BY <1>6, <2>1
  <2>3. /\ a.stamp \in Nat /\ a.count \in Nat /\ a.stamp <= timestamp[t]
        /\ timestamp[t] \in Nat /\ now \in Nat /\ timestamp[t] <= now
    <3> HIDE DEF j
    <3> QED
      BY <1>1, <2>2, Counters DEF SamplesInv, PublishedInv
  <2>4. counts[t][Back(t)[i]] = a.count /\ timestamps[t][Back(t)[i]] = a.stamp
    BY <1>1, <1>6 DEF RingInv
  <2> HIDE DEF a
  <2>5. ~(a.stamp > now)
    BY <2>3
  <2>6. i \in Ends(t, ms) <=> (a.stamp = 0 \/ now - a.stamp > ms)
    BY <1>4, <2>4, <2>5
  <2> QED
    BY <2>2, <2>3, <2>4, <2>6 DEF a
<1>7. ASSUME NEW i \in 1 .. BucketSize - 1, t = 0, ~(i <= Len(added[t]))
      PROVE  timestamps[t][Back(t)[i]] = 0 /\ i \in Ends(t, ms)
  <2>1. timestamps[t][Back(t)[i]] = 0
    BY <1>1, <1>7 DEF RingInv
  <2> QED
    BY <1>4, <2>1
<1> QED
  BY <1>2, <1>5, <1>6, <1>7

\* The walk backwards through the ring is the window over the list.
LEMMA WalkIsWindow ==
    ASSUME IInv, NEW t \in Thread, NEW ms \in Intervals, NoGarbageInReach(t)
    PROVE  /\ calc(t, ms) = WindowRateOf(t, ms)
           /\ \A r \in calc(t, ms) : r >= 0
<1> DEFINE A == added[t]
           n == Len(A)
           E == Ends(t, ms)
           Kept == {i \in DOMAIN A : A[i].stamp # 0}
           Old == {i \in Kept : now - A[i].stamp > ms}
           Inside == Kept \ Old
           first == A[Min(Inside)]
           last == A[Max(Inside)]
           at(i) == timestamps[t][Back(t)[i]]
<1>1. /\ BucketSize \in Nat /\ BucketSize > 1
      /\ n \in Nat /\ n <= BucketSize - 1 /\ DOMAIN A = 1 .. n
      /\ now \in Nat
      /\ \A i \in 1 .. n : A[i].stamp \in Nat /\ A[i].count \in Nat
      /\ \A i, j \in 1 .. n : i < j => A[i].stamp <= A[j].stamp /\ A[i].count <= A[j].count
  <2>1. ShapeInv /\ SamplesInv(t)
    BY DEF IInv
  <2>2. A \in Seq(Sample)
    BY <2>1 DEF ShapeInv
  <2>3. n \in Nat /\ DOMAIN A = 1 .. n /\ n <= BucketSize - 1
    BY <2>1, <2>2 DEF ShapeInv
  <2>4. /\ now \in Nat
        /\ \A i \in DOMAIN A : A[i].stamp \in Nat /\ A[i].count \in Nat
    BY <2>1, Counters
  <2>5. \A i, j \in DOMAIN A : i < j => A[i].stamp <= A[j].stamp /\ A[i].count <= A[j].count
    BY <2>1 DEF SamplesInv
  <2> HIDE DEF A, n
  <2> QED
    BY <2>3, <2>4, <2>5, RingSize
<1>2. /\ ms \in Nat /\ E \subseteq 1 .. BucketSize - 1
      /\ \A i \in 1 .. BucketSize - 1 : i <= n =>
            /\ n - i + 1 \in 1 .. n
            /\ counts[t][Back(t)[i]] = A[n - i + 1].count
            /\ at(i) = A[n - i + 1].stamp
            /\ i \in E <=> (A[n - i + 1].stamp = 0 \/ now - A[n - i + 1].stamp > ms)
      /\ \A i \in 1 .. BucketSize - 1 : t = 0 /\ ~(i <= n) => at(i) = 0 /\ i \in E
  BY <1>1, WhereItEnds
<1>3. t = 0 \/ (n # 0 /\ A[1].stamp = 0) \/ n = BucketSize - 1
  <2>1. A # <<>> => n # 0
    <3>1. A \in Seq(Sample)
      BY DEF IInv, ShapeInv
    <3> HIDE DEF A
    <3> QED
      BY <3>1
  <2> QED
    BY <2>1 DEF NoGarbageInReach
<1>4. WindowRateOf(t, ms) =
         IF Old = {} \/ Inside = {} THEN {}
         ELSE IF first.stamp = last.stamp THEN {}
         ELSE {(last.count - first.count) * (Unit \div (last.stamp - first.stamp))}
  BY DEF WindowRateOf
<1>5. /\ \A i \in 1 .. n : i \in Inside <=> (A[i].stamp # 0 /\ ~(now - A[i].stamp > ms))
      /\ \A i \in 1 .. n : i \in Old <=> (A[i].stamp # 0 /\ now - A[i].stamp > ms)
      /\ Inside \subseteq 1 .. n /\ Old \subseteq 1 .. n
  BY <1>1
<1>6. E \in SUBSET Nat /\ Inside \in SUBSET Nat
  BY <1>1, <1>2, <1>5
<1>7. \/ E = {} \/ Min(E) = 1 \/ at(Min(E)) = 0
      => calc(t, ms) = {}
  BY DEF calc
<1> HIDE DEF A, n, E, Kept, Old, Inside, at
<1>8. CASE Inside = {}
  <2>1. 1 \in E
    <3>1. CASE n = 0
      BY <1>1, <1>2, <1>3, <3>1
    <3>2. CASE n # 0
      <4>1. 1 <= n /\ 1 \in 1 .. BucketSize - 1 /\ n - 1 + 1 = n /\ n \in 1 .. n
        BY <1>1, <3>2
      <4>2. A[n].stamp = 0 \/ now - A[n].stamp > ms
        BY <1>5, <1>8, <4>1
      <4> QED
        BY <1>2, <4>1, <4>2
    <3> QED
      BY <3>1, <3>2
  <2>2. \A i \in E : 1 <= i
    BY <1>1, <1>2
  <2>3. Min(E) = 1
    BY <1>6, <2>1, <2>2, LeastIs
  <2> QED
    BY <1>4, <1>7, <1>8, <2>3
<1>9. CASE Inside # {}
  <2>1. PICK k \in Inside : \A i \in Inside : k <= i
    BY <1>6, <1>9, NatMin
  <2>2. Min(Inside) = k /\ k \in 1 .. n
    BY <1>5, <1>6, <2>1, LeastIs
  <2>3. ASSUME NEW j \in 1 .. n, k <= j
        PROVE  j \in Inside
    <3>1. A[k].stamp <= A[j].stamp
      BY <1>1, <2>2, <2>3
    <3>2. A[k].stamp # 0 /\ ~(now - A[k].stamp > ms)
      BY <1>5, <2>1, <2>2
    <3>3. A[j].stamp \in Nat /\ A[k].stamp \in Nat
      BY <1>1, <2>2
    <3>4. A[j].stamp # 0 /\ ~(now - A[j].stamp > ms)
      BY <1>1, <1>2, <3>1, <3>2, <3>3
    <3> QED
      BY <1>5, <3>4
  <2>4. n \in Inside /\ Max(Inside) = n
    <3>1. n \in 1 .. n /\ k <= n
      BY <1>1, <2>2
    <3>2. n \in Inside
      BY <2>3, <3>1
    <3>3. \A i \in Inside : i <= n
      BY <1>1, <1>5
    <3> QED
      BY <1>6, <3>2, <3>3, GreatestIs
  <2>5. \A o \in Old : o < k
    <3> SUFFICES ASSUME NEW o \in Old PROVE o < k
      OBVIOUS
    <3>1. o \in 1 .. n /\ o \notin Inside
      BY <1>5
    <3> QED
      BY <1>1, <2>2, <2>3, <3>1
  <2>6. \A i \in E : i > n - k + 1
    <3> SUFFICES ASSUME NEW i \in E, ~(i > n - k + 1) PROVE FALSE
      BY <1>1, <1>2, <2>2
    <3>1. i \in 1 .. BucketSize - 1 /\ i <= n
      BY <1>1, <1>2, <2>2
    <3>2. n - i + 1 \in 1 .. n /\ k <= n - i + 1
      BY <1>1, <2>2, <3>1
    <3>3. A[n - i + 1].stamp # 0 /\ ~(now - A[n - i + 1].stamp > ms)
      BY <1>5, <2>3, <3>2
    <3> QED
      BY <1>2, <3>1, <3>3
  <2>7. CASE k = 1
    <3>1. Old = {}
      BY <1>1, <1>5, <2>5, <2>7
    <3>2. calc(t, ms) = {}
      <4>1. CASE n = BucketSize - 1
        <5>1. E = {}
          <6>1. \A i \in E : i > n
            BY <1>1, <2>6, <2>7
          <6> QED
            BY <1>1, <1>2, <4>1, <6>1
        <5> QED
          BY <1>7, <5>1
      <4>2. CASE n # BucketSize - 1
        <5>1. A[1].stamp # 0
          BY <1>5, <2>1, <2>2, <2>7
        <5>2. t = 0 /\ n + 1 \in 1 .. BucketSize - 1 /\ ~(n + 1 <= n)
          BY <1>1, <1>3, <4>2, <5>1
        <5>3. n + 1 \in E /\ at(n + 1) = 0
          BY <1>2, <5>2
        <5>4. \A i \in E : n + 1 <= i
          BY <1>1, <1>2, <2>6, <2>7
        <5>5. Min(E) = n + 1
          BY <1>6, <5>3, <5>4, LeastIs
        <5> QED
          BY <1>7, <5>3, <5>5
      <4> QED
        BY <4>1, <4>2
    <3> QED
      BY <1>4, <3>1, <3>2
  <2>8. CASE k # 1
    <3> DEFINE e == n - k + 2
    <3>1. /\ k - 1 \in 1 .. n /\ k - 1 \notin Inside
          /\ e \in 1 .. BucketSize - 1 /\ e <= n /\ n - e + 1 = k - 1 /\ e # 1
          /\ e - 1 \in 1 .. BucketSize - 1 /\ e - 1 <= n /\ n - (e - 1) + 1 = k
      BY <1>1, <2>1, <2>2, <2>8
    <3>2. A[k - 1].stamp = 0 \/ now - A[k - 1].stamp > ms
      BY <1>5, <3>1
    <3>3. e \in E /\ at(e) = A[k - 1].stamp
      BY <1>2, <3>1, <3>2
    <3>4. \A i \in E : e <= i
      BY <1>1, <1>2, <2>2, <2>6
    <3> HIDE DEF e
    <3>5. Min(E) = e
      BY <1>6, <3>3, <3>4, LeastIs
    <3>6. CASE A[k - 1].stamp = 0
      <4>1. calc(t, ms) = {}
        BY <1>7, <3>3, <3>5, <3>6
      <4>2. Old = {}
        <5> SUFFICES ASSUME NEW o \in Old PROVE FALSE
          OBVIOUS
        <5>1. o \in 1 .. n /\ o < k /\ A[o].stamp # 0
          BY <1>5, <2>5
        <5>2. o = k - 1 \/ o < k - 1
          BY <1>1, <2>2, <5>1
        <5>3. A[o].stamp <= A[k - 1].stamp /\ A[o].stamp \in Nat
          BY <1>1, <3>1, <5>1, <5>2
        <5> QED
          BY <3>6, <5>1, <5>3
      <4> QED
        BY <1>4, <4>1, <4>2
    <3>7. CASE A[k - 1].stamp # 0
      <4>1. Old # {}
        BY <1>5, <3>1, <3>2, <3>7
      <4>2. /\ at(1) = A[n].stamp /\ counts[t][Back(t)[1]] = A[n].count
            /\ at(e - 1) = A[k].stamp /\ counts[t][Back(t)[e - 1]] = A[k].count
        <5>1. 1 \in 1 .. BucketSize - 1 /\ 1 <= n /\ n - 1 + 1 = n
          BY <1>1, <2>2
        <5> QED
          BY <1>2, <3>1, <5>1
      <4> DEFINE time == A[n].stamp - A[k].stamp
                 hashes == A[n].count - A[k].count
      <4>3. time \in Nat /\ hashes \in Nat
        <5>1. k = n \/ k < n
          BY <1>1, <2>2
        <5>2. k \in 1 .. n /\ n \in 1 .. n
          BY <1>1, <2>2
        <5>3. A[k].stamp <= A[n].stamp /\ A[k].count <= A[n].count
          BY <1>1, <5>1, <5>2
        <5> QED
          BY <1>1, <5>2, <5>3
      <4>4. calc(t, ms) = IF time = 0 THEN {}
                          ELSE {hashes * (IF time < 0 THEN -1 ELSE 1)
                                   * (Unit \div ((IF time < 0 THEN -1 ELSE 1) * time))}
        <5>1. E # {} /\ at(e) # 0
          BY <3>3, <3>7
        <5>2. E = Ends(t, ms) /\ \A i : at(i) = timestamps[t][Back(t)[i]]
          BY DEF E, at
        <5> QED
          BY <3>1, <3>5, <4>2, <5>1, <5>2 DEF calc
      <4>5. WindowRateOf(t, ms) = IF time = 0 THEN {} ELSE {hashes * (Unit \div time)}
        <5>1. first = A[k] /\ last = A[n]
          BY <2>2, <2>4
        <5>2. time = 0 <=> A[k].stamp = A[n].stamp
          BY <1>1, <2>2, <4>3
        <5> QED
          BY <1>4, <1>9, <4>1, <5>1, <5>2
      <4> HIDE DEF time, hashes
      <4>6. ASSUME time # 0
            PROVE  /\ hashes * (IF time < 0 THEN -1 ELSE 1)
                         * (Unit \div ((IF time < 0 THEN -1 ELSE 1) * time))
                      = hashes * (Unit \div time)
                   /\ hashes * (Unit \div time) >= 0
        <5>1. ~(time < 0) /\ 1 * time = time /\ hashes * 1 = hashes /\ time \in Nat \ {0}
          BY <4>3, <4>6
        <5>2. Unit \div time \in Nat
          BY <5>1, HashrateAssumption, DivBounds
        <5>3. hashes * (Unit \div time) >= 0
          BY <4>3, <5>2, SMT
        <5> QED
          BY <5>1, <5>3
      <4> QED
        BY <4>4, <4>5, <4>6
    <3> QED
      BY <3>6, <3>7
  <2> QED
    BY <2>7, <2>8
<1> QED
  BY <1>8, <1>9

\* The rate of an interval is the rate between the samples in it, and never negative,
\* for every number of threads, length of the ring and of the intervals
\* (Hashrate.cpp:103).
THEOREM WindowRateHolds == Spec => []WindowRate
<1>1. IInv => WindowRate
  BY WalkIsWindow DEF WindowRate
<1> QED
  BY <1>1, Invariant, PTL

=============================================================================
