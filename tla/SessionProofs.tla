---------------------------- MODULE SessionProofs ----------------------------
(***************************************************************************)
(* What module Session promises, proved for every size of the buffer and   *)
(* of topDiff, every width of the difficulties, every set of jobs and any  *)
(* number of requests and shares.                                          *)
(***************************************************************************)
EXTENDS Session, Functions, TLAPS, FiniteSetTheorems, WellFoundedInduction

-----------------------------------------------------------------------------
(* Numbers and finite sets *)

\* A quotient is the largest number whose product with the divisor fits.
LEMMA DivBounds ==
    ASSUME NEW a \in Nat, NEW b \in Nat \ {0}
    PROVE  /\ a \div b \in Nat
           /\ b * (a \div b) <= a
           /\ a < b * (a \div b) + b
BY SMT

\* The quotient is the only number between these bounds.
LEMMA DivUnique ==
    ASSUME NEW a \in Nat, NEW b \in Nat \ {0}, NEW q \in Nat,
           b * q <= a, a < b * q + b
    PROVE  a \div b = q
<1> DEFINE t == a \div b
<1>1. t \in Nat /\ b * t <= a /\ a < b * t + b
  BY DivBounds
<1> HIDE DEF t
<1>2. CASE t < q
  <2>1. q >= t + 1 BY <1>1, <1>2
  <2>2. b * q >= b * (t + 1) BY <1>1, <2>1, SMT
  <2>3. b * (t + 1) = b * t + b BY <1>1, SMT
  <2> QED BY <1>1, <2>2, <2>3
<1>3. CASE t > q
  <2>1. t >= q + 1 BY <1>1, <1>3
  <2>2. b * t >= b * (q + 1) BY <1>1, <2>1, SMT
  <2>3. b * (q + 1) = b * q + b BY <1>1, SMT
  <2> QED BY <1>1, <2>2, <2>3
<1>4. t = q BY <1>1, <1>2, <1>3
<1> QED BY <1>4 DEF t

\* A remainder is below its modulus, and a number below it is its own remainder.
LEMMA ModRange ==
    ASSUME NEW a \in Nat, NEW b \in Nat \ {0}
    PROVE  /\ a % b \in 0 .. b - 1
           /\ a < b => a % b = a
BY SMT

\* A set of naturals that is not empty has a least element.
LEMMA NatMin ==
    ASSUME NEW S \in SUBSET Nat, S # {}
    PROVE  \E x \in S : \A y \in S : x <= y
<1>1. PICK x \in S : \A y \in S : ~(<<y, x>> \in OpToRel(<, Nat))
  BY NatLessThanWellFounded, WFMin, Zenon
<1>2. \A y \in S : ~(y < x)
  BY <1>1 DEF OpToRel
<1> QED
  BY <1>2

\* A bounded set of naturals that is not empty has a greatest element.
LEMMA NatMax ==
    ASSUME NEW S \in SUBSET Nat, S # {}, NEW n \in Nat, \A x \in S : x <= n
    PROVE  \E x \in S : \A y \in S : y <= x
<1> DEFINE D == {n - x : x \in S}
<1>1. D \in SUBSET Nat /\ D # {}
  <2>1. \A x \in S : n - x \in Nat
    OBVIOUS
  <2>2. PICK x \in S : TRUE
    OBVIOUS
  <2>3. n - x \in D
    OBVIOUS
  <2> QED
    BY <2>1, <2>3
<1>2. PICK d \in D : \A e \in D : d <= e
  BY <1>1, NatMin
<1>3. PICK x \in S : d = n - x
  OBVIOUS
<1>4. \A y \in S : n - x <= n - y
  BY <1>2, <1>3
<1> QED
  BY <1>4

\* How many elements a part of 1 .. n has.
LEMMA IntervalSubset ==
    ASSUME NEW n \in Nat, NEW S \in SUBSET (1 .. n)
    PROVE  /\ IsFiniteSet(S) /\ Cardinality(S) \in Nat /\ Cardinality(S) <= n
           /\ Cardinality(S) = n => S = 1 .. n
<1>1. IsFiniteSet(1 .. n) /\ Cardinality(1 .. n) = n
  BY FS_Interval
<1>2. IsFiniteSet(S) /\ Cardinality(S) <= n /\ (n = Cardinality(S) => 1 .. n = S)
  BY <1>1, FS_Subset, Zenon
<1> QED
  BY <1>2, FS_CardinalityType

\* A finite set of numbers can be put in order: otherwise there is a smallest
\* one that cannot, and without its least element it can.
LEMMA OrderedSet ==
    ASSUME NEW S \in SUBSET Nat, IsFiniteSet(S)
    PROVE  \E e \in Bijection(1 .. Cardinality(S), S) :
               \A i, j \in 1 .. Cardinality(S) : i < j => e[i] < e[j]
<1> DEFINE Increases(e, c) == \A i, j \in 1 .. c : i < j => e[i] < e[j]
           Ordered(T) == \E e \in Bijection(1 .. Cardinality(T), T) : Increases(e, Cardinality(T))
           Bad == {c \in Nat : \E T \in SUBSET Nat :
                                   IsFiniteSet(T) /\ Cardinality(T) = c /\ ~Ordered(T)}
<1> SUFFICES ASSUME ~Ordered(S) PROVE FALSE
  OBVIOUS
<1>1. Bad \in SUBSET Nat /\ Bad # {}
  <2> HIDE DEF Ordered
  <2>1. Cardinality(S) \in Bad
    BY FS_CardinalityType
  <2> QED
    BY <2>1
<1>2. PICK c \in Bad : \A d \in Bad : c <= d
  <2> HIDE DEF Bad
  <2> QED
    BY <1>1, NatMin
<1>3. PICK T \in SUBSET Nat : IsFiniteSet(T) /\ Cardinality(T) = c /\ ~Ordered(T)
  <2> HIDE DEF Ordered
  <2> QED
    BY <1>2
<1>4. T # {}
  <2> SUFFICES ASSUME T = {} PROVE FALSE
    OBVIOUS
  <2> DEFINE e == [i \in {} |-> 0]
  <2>1. c = 0 /\ 1 .. c = {}
    BY <1>3, FS_EmptySet
  <2>2. e \in Bijection(1 .. c, T)
    BY <2>1 DEF Bijection, Injection, Surjection, IsInjective
  <2>3. Increases(e, c)
    BY <2>1
  <2> HIDE DEF e, Increases
  <2> QED
    BY <1>3, <2>2, <2>3
<1>5. PICK x \in T : \A y \in T : x <= y
  BY <1>4, NatMin
<1> DEFINE U == T \ {x}
<1>6. c \in Nat /\ U \in SUBSET Nat /\ IsFiniteSet(U) /\ Cardinality(U) = c - 1 /\ c - 1 \in Nat
  <2>1. IsFiniteSet(U) /\ Cardinality(U) = c - 1
    BY <1>3, FS_RemoveElement
  <2>2. Cardinality(U) \in Nat
    BY <2>1, FS_CardinalityType
  <2> QED
    BY <1>2, <2>1, <2>2
<1> HIDE DEF U
<1>7. Ordered(U)
  <2> HIDE DEF Ordered
  <2>1. c - 1 \notin Bad
    BY <1>2, <1>6
  <2> QED
    BY <1>6, <2>1
<1>8. PICK d \in Bijection(1 .. c - 1, U) : Increases(d, c - 1)
  <2> HIDE DEF Increases
  <2> QED
    BY <1>6, <1>7
<1>9. /\ d \in [1 .. c - 1 -> U]
      /\ \A i, j \in 1 .. c - 1 : d[i] = d[j] => i = j
      /\ \A y \in U : \E i \in 1 .. c - 1 : d[i] = y
      /\ \A i, j \in 1 .. c - 1 : i < j => d[i] < d[j]
  BY <1>8 DEF Bijection, Injection, Surjection, IsInjective
<1> DEFINE e == [i \in 1 .. c |-> IF i = 1 THEN x ELSE d[i - 1]]
<1>10. \A i \in 1 .. c : i # 1 => i - 1 \in 1 .. c - 1 /\ d[i - 1] \in U
  BY <1>6, <1>9
<1>11. e \in [1 .. c -> T]
  BY <1>10 DEF U
<1>12. \A i, j \in 1 .. c : i < j => e[i] < e[j]
  <2> SUFFICES ASSUME NEW i \in 1 .. c, NEW j \in 1 .. c, i < j PROVE e[i] < e[j]
    OBVIOUS
  <2>1. j # 1 /\ e[j] = d[j - 1] /\ d[j - 1] \in U
    BY <1>6, <1>10
  <2>2. CASE i = 1
    <3>1. x <= d[j - 1] /\ x # d[j - 1] /\ x \in Nat /\ d[j - 1] \in Nat
      BY <1>5, <1>6, <2>1 DEF U
    <3> QED
      BY <2>1, <2>2, <3>1
  <2>3. CASE i # 1
    <3>1. d[i - 1] < d[j - 1]
      BY <1>6, <1>9, <1>10, <2>1, <2>3
    <3> QED
      BY <2>1, <2>3, <3>1
  <2> QED
    BY <2>2, <2>3
<1>13. \A y \in T : \E i \in 1 .. c : e[i] = y
  <2> SUFFICES ASSUME NEW y \in T PROVE \E i \in 1 .. c : e[i] = y
    OBVIOUS
  <2>1. CASE y = x
    <3>1. 1 \in 1 .. c /\ e[1] = x
      BY <1>6
    <3> QED
      BY <2>1, <3>1
  <2>2. CASE y # x
    <3>1. PICK i \in 1 .. c - 1 : d[i] = y
      BY <1>9, <2>2 DEF U
    <3>2. i + 1 \in 1 .. c /\ e[i + 1] = y
      BY <1>6, <3>1
    <3> QED
      BY <3>2
  <2> QED
    BY <2>1, <2>2
<1>14. \A i, j \in 1 .. c : e[i] = e[j] => i = j
  <2>1. \A i \in 1 .. c : e[i] \in Nat
    BY <1>11
  <2> HIDE DEF e
  <2> QED
    BY <1>6, <1>12, <2>1
<1> HIDE DEF e
<1>15. e \in Bijection(1 .. c, T)
  BY <1>11, <1>13, <1>14 DEF Bijection, Injection, Surjection, IsInjective
<1>16. Increases(e, c)
  BY <1>12
<1> HIDE DEF Increases
<1> QED
  BY <1>3, <1>15, <1>16

-----------------------------------------------------------------------------
(* The inductive invariant *)

\* The request counter has left 1, the number of every login, as soon as there
\* is a connection, a line of one, or a job to find shares for.
NumberInv ==
    /\ sequence \in Nat \ {0}
    /\ conn \in {"down", "up", "closing"}
    /\ (conn = "up" \/ ~Idle \/ job # NoJobYet) => sequence >= 2

\* Shares are told apart by their number.
ShareSet == [no : Nat \ {0}, diff : Nat, actual : Diffs]

SharesInv ==
    /\ IsFiniteSet(shares)
    /\ shares \subseteq ShareSet
    /\ \A s \in shares : s.no <= Cardinality(shares)

\* What was written to this connection, whatever of it has arrived whole.
Written == asked \cup spoilt

\* Nothing was written under a number that is still to come, and no two things
\* under the same number; 1 is the login.
AskedInv ==
    /\ Written \subseteq [id : Nat \ {0}, share : shares \cup {NoShare}]
    /\ \A q \in Written : q.id < sequence \/ q.id = 1
    /\ \A q \in Written : q.id = 1 => q.share = NoShare
    /\ \A q, r \in Written : q.id = r.id => q = r

\* The table holds shares, each once, under numbers of requests.  As long as the
\* lines of this connection are parsed, also after close(), each was sent.
ResultsInv ==
    /\ results \in [DOMAIN results -> shares]
    /\ DOMAIN results \subseteq 2 .. sequence
    /\ \A a, b \in DOMAIN results : results[a] = results[b] => a = b
    /\ conn = "up" \/ ~Idle =>
           \A id \in DOMAIN results : [id |-> id, share |-> results[id]] \in Written

\* What was counted is not in the table any more.
CountedInv ==
    /\ counted \in Seq([share : shares, ok : BOOLEAN])
    /\ CountedOnce
    /\ \A i \in DOMAIN counted : \A id \in DOMAIN results : counted[i].share # results[id]

\* What topDiff holds, told by thresholds: as many of its entries reach v as
\* accepted shares do, or all of them.  Unlike BestFirst this does not depend on
\* where an entry is, so sorting keeps it.
Reaching(v) == {i \in Accepted : counted[i].share.actual >= v}
Entries(top, v) == {k \in 1 .. TopSize : top[k] >= v}

Fits(top, v, g) ==
    \/ Cardinality(Entries(top, v)) = g
    \/ Entries(top, v) = 1 .. TopSize /\ g >= TopSize

StateSet == [accepted : Nat, rejected : Nat, total : Nat, failures : Nat,
             topDiff : [1 .. TopSize -> Nat], active : BOOLEAN, latency : Nat]

Descends(top) == \A i, j \in 1 .. TopSize : i < j => top[i] >= top[j]

TopInv ==
    /\ state \in StateSet
    /\ Descends(state.topDiff)
    /\ \A v \in Nat \ {0} : Fits(state.topDiff, v, Cardinality(Reaching(v)))

JobInv ==
    /\ JobSound
    /\ job # NoJobYet => job.code = 0 /\ job.diff \in Nat

\* No text of an old read looks like one of the next.
BufferInv ==
    /\ buf \in [0 .. BufSize - 1 -> {"blank", "stale", "newline"}]
    /\ pos \in 0 .. BufSize - Slack
    /\ midline \in BOOLEAN
    /\ reading = [tokens |-> reading.tokens, lines |-> reading.lines,
                  left |-> reading.left, inside |-> reading.inside, clean |-> reading.clean]
    /\ WholeLinesParsed

IInv ==
    /\ NumberInv /\ SharesInv /\ AskedInv /\ ResultsInv /\ CountedInv
    /\ TopInv /\ JobInv /\ BufferInv

-----------------------------------------------------------------------------
(* Arithmetic of the targets *)

\* A quotient of 32 bits survives the way to 64 bits and back: 2^64 - 1 is large
\* enough for the rounding of the second division to vanish.
LEMMA ScaledBack ==
    ASSUME NEW q \in 1 .. HalfMax
    PROVE  /\ WordMax \div q \in Nat \ {0}
           /\ toDiff(WordMax \div q) = q
<1> DEFINE t == WordMax \div q
<1>1. WordMax \in Nat /\ HalfMax \in Nat /\ q \in Nat \ {0}
  BY JobAssumption
<1>2. t \in Nat /\ q * t <= WordMax /\ WordMax < q * t + q
  BY <1>1, DivBounds
<1>3. WordMax = HalfMax * HalfMax + 2 * HalfMax
  BY JobAssumption, SMT
<1> HIDE DEF t
<1>4. t > q
  <2> SUFFICES ASSUME t <= q PROVE FALSE
    BY <1>1, <1>2
  <2>1. q * t <= q * HalfMax
    BY <1>1, <1>2, SMT
  <2>2. q * HalfMax <= HalfMax * HalfMax
    BY <1>1, SMT
  <2>3. WordMax < HalfMax * HalfMax + q
    BY <1>1, <1>2, <2>1, <2>2, SMT
  <2> QED
    BY <1>1, <1>3, <2>3, SMT
<1>5. t * q = q * t /\ t * q \in Nat
  BY <1>1, <1>2, SMT
<1>6. WordMax \div t = q
  BY <1>1, <1>2, <1>4, <1>5, DivUnique
<1> QED
  BY <1>1, <1>2, <1>4, <1>6 DEF t, toDiff

\* What setTarget and toDiff make of a 32-bit target, together.
LEMMA ScaledTarget ==
    ASSUME NEW v \in 1 .. HalfMax
    PROVE  /\ FromHalf(v) \in Nat \ {0}
           /\ toDiff(FromHalf(v)) % (HalfMax + 1) = HalfMax \div v
<1> DEFINE q == HalfMax \div v
<1>1. HalfMax \in Nat /\ v \in Nat \ {0}
  BY JobAssumption
<1>2. q \in Nat /\ v * q <= HalfMax /\ HalfMax < v * q + v
  BY <1>1, DivBounds
<1> HIDE DEF q
<1>3. q # 0
  <2> SUFFICES ASSUME q = 0 PROVE FALSE
    OBVIOUS
  <2>1. v * q = 0
    BY <1>1
  <2> QED
    BY <1>1, <1>2, <2>1
<1>4. q <= HalfMax
  <2>1. v * q >= q
    BY <1>1, <1>2, SMT
  <2> QED
    BY <1>1, <1>2, <2>1
<1>5. q \in 1 .. HalfMax
  BY <1>1, <1>2, <1>3, <1>4
<1>6. FromHalf(v) = WordMax \div q
  BY DEF q, FromHalf
<1>7. FromHalf(v) \in Nat \ {0} /\ toDiff(FromHalf(v)) = q
  BY <1>5, <1>6, ScaledBack
<1>8. q % (HalfMax + 1) = q
  BY <1>1, <1>5, ModRange
<1> QED
  BY <1>7, <1>8 DEF q

-----------------------------------------------------------------------------
(* Jobs *)

\* What JobInv says of a job that is kept.
JobOk(j) ==
    /\ j.code = 0
    /\ j.diff \in Nat
    /\ j.size >= MinBlob /\ j.size < BlobSize
    /\ j.target # 0
    /\ \E p \in Params :
          /\ p.object /\ p.id.name = j.id /\ p.blob.data = j.blob
          /\ p.target.len = 8 => j.diff = HalfMax \div p.target.value

\* JobInv, in terms of JobOk.
LEMMA JobInvOk == JobInv <=> (job # NoJobYet => JobOk(job))
BY DEF JobInv, JobSound, JobOk

\* A target that setTarget accepts, whatever was never written behind its digits.
LEMMA TargetSound ==
    ASSUME NEW p \in Params, p.object,
           NEW t \in setTarget(p.target), t # 0
    PROVE  /\ t \in Nat \ {0}
           /\ p.target.len = 8 => toDiff(t) % (HalfMax + 1) = HalfMax \div p.target.value
<1> DEFINE text == p.target
<1>1. /\ text.len \in Nat
      /\ text.hex /\ text.len = 8 => text.value \in 0 .. HalfMax
      /\ text.hex /\ text.len = 16 => text.value \in 0 .. WordMax
  BY ParamsAssumption
<1>2. HalfMax \in Nat /\ WordMax \in Nat
  BY JobAssumption
<1>3. CASE text.len <= 8
  <2>1. PICK tmp \in Read(text, 8, HalfMax) : t = IF tmp = 0 THEN 0 ELSE FromHalf(tmp)
    BY <1>3 DEF setTarget
  <2>2. tmp \in 1 .. HalfMax
    BY <1>1, <1>2, <2>1 DEF Read
  <2>3. text.len = 8 => tmp = text.value
    BY <1>1, <2>1, <2>2 DEF Read
  <2> QED
    BY <1>3, <2>1, <2>2, <2>3, ScaledTarget
<1>4. CASE text.len > 8
  <2>1. t \in Read(text, 16, WordMax) \/ t = 0
    BY <1>1, <1>4 DEF setTarget
  <2>2. t \in 0 .. WordMax
    BY <1>1, <1>2, <2>1 DEF Read
  <2> QED
    BY <1>1, <1>2, <1>4, <2>2
<1> QED
  BY <1>1, <1>3, <1>4

\* A job that parseJob does not refuse is sound.
LEMMA MadeSound ==
    ASSUME NEW p \in Params, NEW made \in parseParams(p, FALSE), made.code = 0
    PROVE  JobOk(made)
<1> DEFINE J(t, r) == IF t = 0 THEN Refused(5) ELSE Made(p, FALSE, t, r)
           Jobs == {J(t, r) : t \in setTarget(p.target), r \in Leftovers}
<1>1. /\ p.object /\ setBlob(p.blob)
      /\ made \in Jobs
  <2>1. \A c \in {2, 3, 4} : made # Refused(c)
    BY DEF Refused
  <2>2. parseParams(p, FALSE) =
            IF ~p.object THEN {Refused(2)}
            ELSE IF ~setId(p.id) THEN {Refused(3)}
            ELSE IF ~setBlob(p.blob) THEN {Refused(4)} ELSE Jobs
    BY SMT DEF parseParams
  <2> HIDE DEF Jobs
  <2> QED
    BY <2>1, <2>2
<1>2. PICK t \in setTarget(p.target), r \in Leftovers : made = J(t, r)
  <2> HIDE DEF J
  <2> QED
    BY <1>1
<1>3. t # 0 /\ made = Made(p, FALSE, t, r)
  <2>1. Refused(5).code # 0
    BY DEF Refused
  <2> QED
    BY <1>2, <2>1
<1>4. /\ t \in Nat \ {0}
      /\ p.target.len = 8 => toDiff(t) % (HalfMax + 1) = HalfMax \div p.target.value
  BY <1>1, <1>3, TargetSound
<1>5. /\ made.target = t
      /\ made.diff = toDiff(t) % (HalfMax + 1)
      /\ made.size = p.blob.len \div 2
      /\ made.id = p.id.name
      /\ made.blob = p.blob.data
  BY <1>3 DEF Made
<1>6. made.diff \in Nat
  <2>1. HalfMax \in Nat /\ WordMax \in Nat
    BY JobAssumption
  <2>2. toDiff(t) \in Nat
    BY <1>4, <2>1, DivBounds DEF toDiff
  <2>3. HalfMax + 1 \in Nat \ {0} /\ (HalfMax + 1) - 1 = HalfMax
    BY <2>1
  <2>4. toDiff(t) % (HalfMax + 1) \in 0 .. HalfMax
    BY <2>2, <2>3, ModRange
  <2> QED
    BY <1>5, <2>1, <2>4
<1>7. made.size >= MinBlob /\ made.size < BlobSize
  BY <1>1, <1>5 DEF setBlob
<1>8. made.target # 0 /\ (p.target.len = 8 => made.diff = HalfMax \div p.target.value)
  BY <1>4, <1>5
<1> QED
  BY <1>1, <1>5, <1>6, <1>7, <1>8 DEF JobOk

\* What a line may say, case by case.
LEMMA MessageForms ==
    ASSUME AskedInv, NEW m \in Messages
    PROVE  \/ /\ m.request = NoRequest /\ m.request.id = 0
              /\ m.error = "none" /\ m.result \in Params
           \/ m.request \in asked /\ m.request.id # 0 /\ ~m.result.object
           \/ /\ m.request \in asked /\ m.request.id \notin {0, 1}
              /\ m.error = "none"
           \/ /\ m.request \in asked /\ m.request.id = 1
              /\ m.error = "none" /\ m.result \in Params
BY DEF AskedInv, Written, Messages, Message, NoRequest, NoObject, Done

-----------------------------------------------------------------------------
(* topDiff *)

\* topDiff is finite.
LEMMA EntriesFinite ==
    ASSUME NEW top, NEW v
    PROVE  /\ IsFiniteSet(Entries(top, v))
           /\ Cardinality(Entries(top, v)) \in Nat
           /\ Cardinality(Entries(top, v)) <= TopSize
           /\ Cardinality(Entries(top, v)) = TopSize <=> Entries(top, v) = 1 .. TopSize
<1>1. TopSize \in Nat /\ Entries(top, v) \in SUBSET (1 .. TopSize)
  BY SessionAssumption DEF Entries
<1>2. Cardinality(1 .. TopSize) = TopSize
  BY <1>1, FS_Interval
<1> QED
  BY <1>1, <1>2, IntervalSubset

\* A list that descends but for its last entry, which is better than it was, can
\* be put in order: the last entry moves to the first place it beats.
LEMMA OrderExists ==
    ASSUME NEW top \in [1 .. TopSize -> Nat], Descends(top),
           NEW a \in Nat, a > top[TopSize]
    PROVE  \E p \in Bijection(1 .. TopSize, 1 .. TopSize) :
               \A i, j \in 1 .. TopSize : i < j =>
                   [top EXCEPT ![TopSize] = a][p[i]] >= [top EXCEPT ![TopSize] = a][p[j]]
<1> DEFINE T == TopSize
           S == {k \in 1 .. T : top[k] < a}
           new == [top EXCEPT ![TopSize] = a]
<1>1. T \in Nat \ {0}
  BY SessionAssumption
<1>2. PICK f \in S : \A k \in S : f <= k
  <2>1. S \in SUBSET Nat /\ T \in S
    BY <1>1
  <2> QED
    BY <2>1, NatMin
<1>3. f \in 1 .. T /\ top[f] < a /\ (\A k \in 1 .. T : k < f => top[k] >= a)
  BY <1>1, <1>2
<1> DEFINE p == [i \in 1 .. T |-> IF i < f THEN i ELSE IF i = f THEN T ELSE i - 1]
<1>4. p \in Bijection(1 .. T, 1 .. T)
  <2>1. p \in [1 .. T -> 1 .. T]
    BY <1>1, <1>3
  <2>2. \A i, j \in 1 .. T : p[i] = p[j] => i = j
    BY <1>1, <1>3
  <2>3. \A y \in 1 .. T : \E x \in 1 .. T : p[x] = y
    <3> SUFFICES ASSUME NEW y \in 1 .. T PROVE \E x \in 1 .. T : p[x] = y
      OBVIOUS
    <3>1. CASE y < f
      <4>1. p[y] = y BY <3>1
      <4> QED BY <4>1
    <3>2. CASE y = T
      <4>1. p[f] = y BY <1>1, <1>3, <3>2
      <4> QED BY <1>3, <4>1
    <3>3. CASE y >= f /\ y < T
      <4>1. y + 1 \in 1 .. T /\ p[y + 1] = y BY <1>1, <1>3, <3>3
      <4> QED BY <4>1
    <3> QED BY <1>1, <1>3, <3>1, <3>2, <3>3
  <2> HIDE DEF p
  <2> QED
    BY <2>1, <2>2, <2>3 DEF Bijection, Injection, Surjection, IsInjective
<1>5. ASSUME NEW i \in 1 .. T, NEW j \in 1 .. T, i < j
      PROVE  new[p[i]] >= new[p[j]]
  <2>1. \A k \in 1 .. T : new[p[k]] = IF k < f THEN top[k] ELSE IF k = f THEN a ELSE top[k - 1]
    BY <1>1, <1>3
  <2>2. \A k, l \in 1 .. T : k < l => top[k] >= top[l]
    BY DEF Descends
  <2>3. \A k \in 1 .. T : top[k] \in Nat
    OBVIOUS
  <2> HIDE DEF new, p
  <2>4. CASE j < f
    BY <1>1, <1>3, <1>5, <2>1, <2>2, <2>4
  <2>5. CASE j = f
    BY <1>1, <1>3, <1>5, <2>1, <2>2, <2>5
  <2>6. CASE j > f
    <3>1. j - 1 \in 1 .. T /\ new[p[j]] = top[j - 1]
      BY <1>1, <1>3, <2>1, <2>6
    <3>2. top[f] >= top[j - 1]
      BY <1>1, <1>3, <2>2, <2>3, <2>6, <3>1
    <3>3. CASE i < f
      BY <1>1, <1>3, <2>1, <2>3, <3>1, <3>2, <3>3
    <3>4. CASE i = f
      BY <1>1, <1>3, <2>1, <2>3, <3>1, <3>2, <3>4
    <3>5. CASE i > f
      <4>1. i - 1 \in 1 .. T /\ new[p[i]] = top[i - 1]
        BY <1>1, <1>3, <2>1, <3>5
      <4> QED
        BY <1>1, <1>5, <2>2, <3>1, <4>1
    <3> QED
      BY <1>3, <3>3, <3>4, <3>5
  <2> QED
    BY <1>3, <2>4, <2>5, <2>6
<1> HIDE DEF p
<1> QED
  BY <1>4, <1>5

\* Sorting loses no entry: as many reach a threshold as before.
LEMMA SortedTop ==
    ASSUME NEW top \in [1 .. TopSize -> Nat], Descends(top),
           NEW a \in Nat, a > top[TopSize]
    PROVE  LET new == [top EXCEPT ![TopSize] = a]
           IN  /\ Sorted(new) \in [1 .. TopSize -> Nat]
               /\ Descends(Sorted(new))
               /\ \A v : Cardinality(Entries(Sorted(new), v)) = Cardinality(Entries(new, v))
<1> DEFINE T == TopSize
           new == [top EXCEPT ![TopSize] = a]
           Orders(p) == \A i, j \in 1 .. T : i < j => new[p[i]] >= new[p[j]]
           order == CHOOSE p \in Bijection(1 .. T, 1 .. T) : Orders(p)
<1>1. new \in [1 .. T -> Nat]
  OBVIOUS
<1>2. \E p \in Bijection(1 .. T, 1 .. T) : Orders(p)
  BY OrderExists
<1>3. Sorted(new) = [k \in 1 .. T |-> new[order[k]]]
  BY DEF Sorted
<1> HIDE DEF new
<1>4. order \in Bijection(1 .. T, 1 .. T) /\ Orders(order)
  <2> HIDE DEF Orders
  <2> QED
    BY <1>2
<1> HIDE DEF order
<1>5. /\ order \in [1 .. T -> 1 .. T]
      /\ \A i, j \in 1 .. T : order[i] = order[j] => i = j
      /\ \A y \in 1 .. T : \E x \in 1 .. T : order[x] = y
  BY <1>4 DEF Bijection, Injection, Surjection, IsInjective
<1>6. Sorted(new) \in [1 .. T -> Nat] /\ Descends(Sorted(new))
  BY <1>1, <1>3, <1>4, <1>5 DEF Descends
<1>7. ASSUME NEW v
      PROVE  Cardinality(Entries(Sorted(new), v)) = Cardinality(Entries(new, v))
  <2> DEFINE A == Entries(Sorted(new), v)
             B == Entries(new, v)
             f == [k \in A |-> order[k]]
  <2>1. \A k \in 1 .. T : k \in A <=> order[k] \in B
    BY <1>3, <1>5 DEF Entries
  <2>2. A \subseteq 1 .. T /\ B \subseteq 1 .. T
    BY DEF Entries
  <2> HIDE DEF A, B
  <2>3. f \in Bijection(A, B)
    BY <1>5, <2>1, <2>2 DEF Bijection, Injection, Surjection, IsInjective
  <2>4. ExistsBijection(A, B)
    BY <2>3 DEF ExistsBijection
  <2>5. IsFiniteSet(A)
    BY EntriesFinite DEF A
  <2> QED
    BY <2>4, <2>5, FS_Bijection DEF A, B
<1> QED
  BY <1>6, <1>7 DEF new

\* NetworkState::add keeps TopInv, threshold by threshold.
LEMMA AddTopFits ==
    ASSUME NEW top \in [1 .. TopSize -> Nat], Descends(top), NEW a \in Nat,
           NEW v \in Nat \ {0}, NEW g \in Nat, Fits(top, v, g)
    PROVE  /\ AddTop(top, a) \in [1 .. TopSize -> Nat]
           /\ Descends(AddTop(top, a))
           /\ Fits(AddTop(top, a), v, IF a >= v THEN g + 1 ELSE g)
<1> DEFINE T == TopSize
           new == [top EXCEPT ![TopSize] = a]
<1>1. T \in Nat \ {0} /\ top[T] \in Nat
  BY SessionAssumption
<1>2. top[T] >= v => Entries(top, v) = 1 .. T
  BY <1>1 DEF Entries, Descends
<1>3. top[T] < v => T \notin Entries(top, v)
  BY <1>1 DEF Entries
<1>4. CASE a <= top[T]
  <2>1. AddTop(top, a) = top
    BY <1>1, <1>4 DEF AddTop
  <2>2. CASE a >= v
    <3>1. Entries(top, v) = 1 .. T
      BY <1>1, <1>2, <1>4, <2>2
    <3>2. g >= T
      BY <1>1, <3>1, EntriesFinite DEF Fits
    <3> QED
      BY <1>1, <2>1, <2>2, <3>1, <3>2 DEF Fits
  <2> QED
    BY <2>1, <2>2
<1>5. CASE a > top[T]
  <2>1. AddTop(top, a) = Sorted(new)
    BY <1>5 DEF AddTop
  <2>2. /\ Sorted(new) \in [1 .. T -> Nat]
        /\ Descends(Sorted(new))
        /\ Cardinality(Entries(Sorted(new), v)) = Cardinality(Entries(new, v))
    BY <1>5, SortedTop
  <2>3. CASE v <= top[T]
    <3>1. Entries(top, v) = 1 .. T /\ g >= T
      BY <1>1, <1>2, <2>3, EntriesFinite DEF Fits
    <3>2. Entries(new, v) = 1 .. T
      BY <1>1, <1>5, <2>3, <3>1 DEF Entries
    <3>3. Entries(Sorted(new), v) = 1 .. T
      BY <2>2, <3>2, EntriesFinite
    <3>4. a >= v
      BY <1>1, <1>5, <2>3
    <3>5. Fits(Sorted(new), v, g + 1)
      BY <1>1, <3>1, <3>3 DEF Fits
    <3> HIDE DEF new
    <3> QED
      BY <2>1, <2>2, <3>4, <3>5
  <2>4. CASE v > top[T]
    <3>1. T \notin Entries(top, v)
      BY <1>1, <1>3, <2>4
    <3>2. Cardinality(Entries(top, v)) = g
      BY <1>1, <3>1 DEF Fits
    <3>3. CASE a >= v
      <4>1. Entries(new, v) = Entries(top, v) \cup {T}
        BY <1>1, <2>4, <3>3 DEF Entries
      <4>2. Cardinality(Entries(new, v)) = g + 1
        BY <3>1, <3>2, <4>1, EntriesFinite, FS_AddElement
      <4>3. Fits(Sorted(new), v, g + 1)
        BY <2>2, <4>2 DEF Fits
      <4> HIDE DEF new
      <4> QED
        BY <2>1, <2>2, <3>3, <4>3
    <3>4. CASE a < v
      <4>1. Entries(new, v) = Entries(top, v)
        BY <1>1, <2>4, <3>4 DEF Entries
      <4>2. ~(a >= v)
        BY <3>4
      <4>3. Fits(Sorted(new), v, g)
        BY <2>2, <3>2, <4>1 DEF Fits
      <4> HIDE DEF new
      <4> QED
        BY <2>1, <2>2, <4>2, <4>3
    <3> QED
      BY <3>3, <3>4
  <2> QED
    BY <1>1, <2>3, <2>4
<1> QED
  BY <1>1, <1>4, <1>5

CountedSet == [share : ShareSet, ok : BOOLEAN]

\* So are the shares that reach a threshold.
LEMMA ReachingFinite ==
    ASSUME counted \in Seq(CountedSet), NEW v
    PROVE  /\ Accepted \subseteq 1 .. Len(counted)
           /\ IsFiniteSet(Reaching(v)) /\ Cardinality(Reaching(v)) \in Nat
<1>1. Len(counted) \in Nat /\ DOMAIN counted = 1 .. Len(counted)
  OBVIOUS
<1>2. Accepted \subseteq 1 .. Len(counted)
  BY <1>1 DEF Accepted
<1>3. Reaching(v) \in SUBSET (1 .. Len(counted))
  BY <1>2 DEF Reaching
<1> QED
  BY <1>1, <1>2, <1>3, IntervalSubset

\* NetworkState::add keeps TopInv.
LEMMA TopAdd ==
    ASSUME TopInv, counted \in Seq(CountedSet),
           NEW share \in ShareSet, NEW ok \in BOOLEAN,
           state' = add(state, share, ok),
           counted' = Append(counted, [share |-> share, ok |-> ok])
    PROVE  TopInv'
<1> DEFINE n == Len(counted) + 1
           a == share.actual
<1>1. /\ n \in Nat \ {0} /\ DOMAIN counted = 1 .. n - 1 /\ DOMAIN counted' = 1 .. n
      /\ counted'[n] = [share |-> share, ok |-> ok]
      /\ \A i \in 1 .. n - 1 : counted'[i] = counted[i]
  OBVIOUS
<1>2. a \in Nat \ {0} /\ share.diff \in Nat
  BY SessionAssumption DEF ShareSet
<1>3. /\ state \in StateSet /\ Descends(state.topDiff)
      /\ \A v \in Nat \ {0} : Fits(state.topDiff, v, Cardinality(Reaching(v)))
  BY DEF TopInv
<1>4. state.topDiff \in [1 .. TopSize -> Nat]
  BY <1>3 DEF StateSet
<1>5. counted'[n].share = share /\ counted'[n].ok = ok
  BY <1>1
<1> HIDE DEF n, a
<1>6. CASE ~ok
  <2>1. state' = [state EXCEPT !.rejected = @ + 1]
    BY <1>6 DEF add
  <2>2. state' \in StateSet /\ state'.topDiff = state.topDiff
    BY <1>3, <2>1 DEF StateSet
  <2>3. Accepted' = Accepted
    BY <1>1, <1>5, <1>6 DEF Accepted
  <2>4. \A v : Reaching(v)' = Reaching(v)
    BY <1>1, <2>3 DEF Reaching, Accepted
  <2> QED
    BY <1>3, <2>2, <2>4 DEF TopInv
<1>7. CASE ok
  <2> DEFINE top == AddTop(state.topDiff, a)
  <2>1. state' = [state EXCEPT !.accepted = @ + 1, !.total = @ + share.diff,
                               !.topDiff = top, !.latency = @ + 1]
    BY <1>7 DEF add, a
  <2>2. top \in [1 .. TopSize -> Nat] /\ Descends(top)
    <3>1. Fits(state.topDiff, 1, Cardinality(Reaching(1)))
      BY <1>3
    <3>2. Cardinality(Reaching(1)) \in Nat
      BY ReachingFinite
    <3> QED
      BY <1>2, <1>3, <1>4, <3>1, <3>2, AddTopFits
  <2> HIDE DEF top
  <2>3. state' \in StateSet /\ state'.topDiff = top
    <3>1. /\ {state.accepted, state.rejected, state.total, state.failures, state.latency} \subseteq Nat
          /\ state.active \in BOOLEAN
      BY <1>3 DEF StateSet
    <3>2. state' = [accepted |-> state.accepted + 1, rejected |-> state.rejected,
                    total |-> state.total + share.diff, failures |-> state.failures,
                    topDiff |-> top, active |-> state.active, latency |-> state.latency + 1]
      BY <1>3, <2>1 DEF StateSet
    <3>3. /\ state.accepted + 1 \in Nat /\ state.latency + 1 \in Nat
          /\ state.total + share.diff \in Nat
      BY <1>2, <3>1 DEF a
    <3>4. ASSUME NEW n1 \in Nat, NEW n2 \in Nat, NEW n3 \in Nat, NEW n4 \in Nat, NEW n5 \in Nat,
                 NEW t \in [1 .. TopSize -> Nat], NEW b \in BOOLEAN
          PROVE  [accepted |-> n1, rejected |-> n2, total |-> n3, failures |-> n4,
                  topDiff |-> t, active |-> b, latency |-> n5] \in StateSet
      BY DEF StateSet
    <3>5. /\ state.rejected \in Nat /\ state.failures \in Nat /\ state.active \in BOOLEAN
          /\ top \in [1 .. TopSize -> Nat]
      BY <2>2, <3>1
    <3>6. [accepted |-> state.accepted + 1, rejected |-> state.rejected,
           total |-> state.total + share.diff, failures |-> state.failures,
           topDiff |-> top, active |-> state.active, latency |-> state.latency + 1] \in StateSet
      BY <3>3, <3>4, <3>5, Zenon
    <3>7. state'.topDiff = top
      BY <3>2
    <3> QED
      BY <3>2, <3>6, <3>7, Zenon
  <2>4. Accepted' = Accepted \cup {n} /\ n \notin Accepted
    BY <1>1, <1>5, <1>7 DEF Accepted
  <2>5. ASSUME NEW v \in Nat \ {0}
        PROVE  Fits(top, v, Cardinality(Reaching(v)'))
    <3>1. \A i \in Accepted : counted'[i] = counted[i]
      BY <1>1 DEF Accepted
    <3>2. Reaching(v)' = IF a >= v THEN Reaching(v) \cup {n} ELSE Reaching(v)
      BY <1>5, <2>4, <3>1 DEF Reaching, a
    <3>3. IsFiniteSet(Reaching(v)) /\ Cardinality(Reaching(v)) \in Nat /\ n \notin Reaching(v)
      BY <2>4, ReachingFinite DEF Reaching
    <3>4. Cardinality(Reaching(v)') =
              IF a >= v THEN Cardinality(Reaching(v)) + 1 ELSE Cardinality(Reaching(v))
      BY <3>2, <3>3, FS_AddElement
    <3>5. Fits(state.topDiff, v, Cardinality(Reaching(v)))
      BY <1>3
    <3> QED
      BY <1>2, <1>3, <1>4, <3>3, <3>4, <3>5, AddTopFits DEF top
  <2> QED
    BY <2>2, <2>3, <2>5 DEF TopInv
<1> QED
  BY <1>6, <1>7

\* The thresholds say which share is the k-th best.
LEMMA TopInvBestFirst ==
    ASSUME TopInv, counted \in Seq(CountedSet)
    PROVE  BestFirst
<1> DEFINE top == state.topDiff
<1>1. /\ top \in [1 .. TopSize -> Nat] /\ Descends(top)
      /\ \A v \in Nat \ {0} : Fits(top, v, Cardinality(Reaching(v)))
  BY DEF TopInv, StateSet
<1>2. TopSize \in Nat \ {0}
  BY SessionAssumption
<1>3. \A i \in Accepted : counted[i].share.actual \in Nat
  <2>1. \A i \in DOMAIN counted : counted[i] \in CountedSet
    OBVIOUS
  <2>2. \A c \in CountedSet : c.share \in ShareSet
    BY DEF CountedSet
  <2>3. \A c \in ShareSet : c.actual \in Nat
    BY SessionAssumption DEF ShareSet
  <2> QED
    BY <2>1, <2>2, <2>3 DEF Accepted
<1> HIDE DEF top
<1>4. ASSUME NEW k \in 1 .. TopSize
      PROVE  Cardinality({i \in Accepted : counted[i].share.actual > top[k]}) < k
  <2> DEFINE v == top[k] + 1
  <2>1. v \in Nat \ {0} /\ top[k] \in Nat
    BY <1>1
  <2>2. {i \in Accepted : counted[i].share.actual > top[k]} = Reaching(v)
    BY <1>3, <2>1 DEF Reaching
  <2>3. Entries(top, v) \subseteq 1 .. k - 1
    BY <1>1, <1>2, <2>1 DEF Entries, Descends
  <2>4. k - 1 \in Nat /\ Entries(top, v) \in SUBSET (1 .. k - 1)
    BY <1>2, <2>3
  <2>5. Cardinality(Entries(top, v)) <= k - 1
    BY <2>4, IntervalSubset
  <2>6. Entries(top, v) # 1 .. TopSize
    BY <1>2, <2>3
  <2>7. Cardinality(Reaching(v)) = Cardinality(Entries(top, v))
    BY <1>1, <2>1, <2>6 DEF Fits
  <2>8. Cardinality(Entries(top, v)) \in Nat
    BY EntriesFinite
  <2>9. Cardinality(Reaching(v)) < k
    BY <1>2, <2>5, <2>7, <2>8
  <2> HIDE DEF v
  <2> QED
    BY <2>2, <2>9
<1>5. ASSUME NEW k \in 1 .. TopSize, top[k] # 0
      PROVE  Cardinality({i \in Accepted : counted[i].share.actual >= top[k]}) >= k
  <2> DEFINE v == top[k]
  <2>1. v \in Nat \ {0}
    BY <1>1, <1>5
  <2>2. {i \in Accepted : counted[i].share.actual >= top[k]} = Reaching(v)
    BY DEF Reaching
  <2>3. (1 .. k) \in SUBSET Entries(top, v)
    BY <1>1, <1>2, <2>1 DEF Entries, Descends
  <2>4. Cardinality(1 .. k) = k
    BY <1>2, FS_Interval
  <2>5. Cardinality(Entries(top, v)) \in Nat /\ k <= Cardinality(Entries(top, v))
    BY <2>3, <2>4, EntriesFinite, FS_Subset
  <2>6. Cardinality(Reaching(v)) \in Nat
    BY ReachingFinite
  <2>7. Fits(top, v, Cardinality(Reaching(v)))
    BY <1>1, <2>1
  <2>8. Cardinality(Reaching(v)) >= k
    BY <1>2, <2>5, <2>6, <2>7 DEF Fits
  <2> HIDE DEF v
  <2> QED
    BY <2>2, <2>8
<1> QED
  BY <1>4, <1>5 DEF BestFirst, top

-----------------------------------------------------------------------------
(* Lines *)

\* The newlines of a read, in order.
LEMMA InOrderSound ==
    ASSUME NEW E \in SUBSET Nat, IsFiniteSet(E)
    PROVE  LET e == InOrder(E)
               c == Cardinality(E)
           IN  /\ c \in Nat
               /\ e \in [1 .. c -> E]
               /\ \A i, j \in 1 .. c : i < j => e[i] < e[j]
               /\ \A y \in E : \E i \in 1 .. c : e[i] = y
<1> DEFINE c == Cardinality(E)
           Increases(e) == \A i, j \in 1 .. c : i < j => e[i] < e[j]
<1>1. InOrder(E) = CHOOSE e \in Bijection(1 .. c, E) : Increases(e)
  BY DEF InOrder
<1>2. \E e \in Bijection(1 .. c, E) : Increases(e)
  BY OrderedSet
<1>3. InOrder(E) \in Bijection(1 .. c, E) /\ Increases(InOrder(E))
  <2> HIDE DEF Increases, c
  <2> QED
    BY <1>1, <1>2
<1> QED
  BY <1>3, FS_CardinalityType DEF Bijection, Injection, Surjection

\* Text and newlines alternate.
LEMMA StreamAlternates ==
    ASSUME NEW mid \in BOOLEAN, NEW n \in Nat
    PROVE  LET t == Stream(mid, n)
           IN  /\ t \in Seq({"text", "newline"}) /\ Len(t) = n /\ DOMAIN t = 1 .. n
               /\ \A j \in 1 .. n : t[j] \in {"text", "newline"}
               /\ 1 <= n => (t[1] = "newline" <=> mid)
               /\ \A j \in 1 .. n - 1 : t[j] = "newline" <=> t[j + 1] = "text"
<1> DEFINE t == Stream(mid, n)
<1>1. t = [i \in 1 .. n |-> IF (i % 2 = 0) = mid THEN "text" ELSE "newline"]
  BY DEF Stream
<1>a. \A i \in 1 .. n : (IF (i % 2 = 0) = mid THEN "text" ELSE "newline") \in {"text", "newline"}
  OBVIOUS
<1>b. t \in [1 .. n -> {"text", "newline"}]
  BY <1>1, <1>a
<1> HIDE DEF t
<1>2. t \in Seq({"text", "newline"})
  BY <1>b
<1>3. Len(t) = n /\ DOMAIN t = 1 .. n
  BY <1>b, <1>2
<1>4. \A j \in 1 .. n : t[j] \in {"text", "newline"}
  BY <1>1
<1>5. 1 <= n => (t[1] = "newline" <=> mid)
  BY <1>1
<1>6. \A j \in 1 .. n - 1 : t[j] = "newline" <=> t[j + 1] = "text"
  <2> SUFFICES ASSUME NEW j \in 1 .. n - 1 PROVE t[j] = "newline" <=> t[j + 1] = "text"
    OBVIOUS
  <2>1. j \in 1 .. n /\ j + 1 \in 1 .. n
    OBVIOUS
  <2>2. j % 2 = 0 <=> (j + 1) % 2 # 0
    OBVIOUS
  <2> QED
    BY <1>1, <2>1, <2>2
<1> QED
  BY <1>2, <1>3, <1>4, <1>5, <1>6 DEF t

\* What a read put into the buffer.
LEMMA FilledAt ==
    ASSUME BufferInv, NEW n \in Nat \ {0}, ~TooLong(n)
    PROVE  LET t == Stream(midline, n)
               b == Filled(buf, pos, t)
           IN  /\ pos \in Nat /\ pos + n <= BufSize - Slack
               /\ b \in [0 .. BufSize - 1 -> {"blank", "stale", "newline", "text"}]
               /\ \A j \in 1 .. n : At(b, pos + j - 1) = t[j]
               /\ \A i \in 0 .. BufSize - 1 : i \notin pos .. pos + n - 1 => b[i] = buf[i]
<1> DEFINE t == Stream(midline, n)
           b == Filled(buf, pos, t)
<1>1. /\ buf \in [0 .. BufSize - 1 -> {"blank", "stale", "newline"}]
      /\ pos \in 0 .. BufSize - Slack /\ midline \in BOOLEAN
  BY DEF BufferInv
<1>2. BufSize \in Nat /\ Slack \in 1 .. BufSize
  BY SessionAssumption
<1>3. pos \in Nat /\ pos + n <= BufSize - Slack
  BY <1>1, <1>2 DEF TooLong
<1>4. Len(t) = n /\ \A j \in 1 .. n : t[j] \in {"text", "newline"}
  BY <1>1, StreamAlternates
<1> HIDE DEF t
<1>5. b = [i \in 0 .. BufSize - 1 |-> IF i \in pos .. pos + n - 1 THEN t[i - pos + 1] ELSE buf[i]]
  BY <1>1, <1>4 DEF Filled
<1> HIDE DEF b
<1>6. b \in [0 .. BufSize - 1 -> {"blank", "stale", "newline", "text"}]
  <2> SUFFICES ASSUME NEW i \in 0 .. BufSize - 1
               PROVE  (IF i \in pos .. pos + n - 1 THEN t[i - pos + 1] ELSE buf[i])
                          \in {"blank", "stale", "newline", "text"}
    BY <1>5
  <2>1. i \in pos .. pos + n - 1 => i - pos + 1 \in 1 .. n
    BY <1>3
  <2> QED
    BY <1>1, <1>4, <2>1
<1>7. ASSUME NEW j \in 1 .. n
      PROVE  At(b, pos + j - 1) = t[j]
  <2>1. pos + j - 1 \in 0 .. BufSize - 1 /\ pos + j - 1 < BufSize /\ (pos + j - 1) - pos + 1 = j
    BY <1>2, <1>3
  <2>2. pos + j - 1 \in pos .. pos + n - 1
    BY <1>3
  <2> QED
    BY <1>5, <2>1, <2>2 DEF At
<1>8. \A i \in 0 .. BufSize - 1 : i \notin pos .. pos + n - 1 => b[i] = buf[i]
  BY <1>5
<1> QED
  BY <1>3, <1>6, <1>7, <1>8 DEF b, t

\* The newlines of a read are finitely many, and inside what is searched.
LEMMA EndsFinite ==
    ASSUME NEW b, NEW base \in Nat, NEW newPos \in Nat
    PROVE  /\ Ends(b, base, newPos) \in SUBSET Nat
           /\ Ends(b, base, newPos) \subseteq base .. base + newPos - 1
           /\ IsFiniteSet(Ends(b, base, newPos))
<1>1. IsFiniteSet(base .. base + newPos - 1)
  BY FS_Interval
<1>2. Ends(b, base, newPos) \in SUBSET (base .. base + newPos - 1)
  BY DEF Ends
<1>3. base .. base + newPos - 1 \subseteq Nat
  OBVIOUS
<1> QED
  BY <1>1, <1>2, <1>3, FS_Subset

\* The first byte behind the newlines of a set.
LEMMA AfterRange ==
    ASSUME NEW base \in Nat, NEW low \in Nat, NEW high \in Nat, base <= high,
           NEW E \in SUBSET (low .. high - 1)
    PROVE  /\ After(base, E) = base \/ After(base, E) \in low + 1 .. high
           /\ \A y \in E : y < After(base, E)
           /\ After(base, E) # base => After(base, E) - 1 \in E
<1>1. CASE E = {}
  BY <1>1 DEF After
<1>2. CASE E # {}
  <2>1. E \in SUBSET Nat /\ \A x \in E : x <= high
    OBVIOUS
  <2>2. \E x \in E : \A y \in E : y <= x
    BY <1>2, <2>1, NatMax
  <2>3. \E x \in E : \A y \in E : x >= y
    BY <2>1, <2>2
  <2>4. Max(E) \in E /\ \A y \in E : Max(E) >= y
    BY <2>3 DEF Max
  <2>5. After(base, E) = Max(E) + 1
    BY <1>2 DEF After
  <2> DEFINE m == Max(E)
  <2>6. m \in E /\ (\A y \in E : m >= y) /\ After(base, E) = m + 1
    BY <2>4, <2>5
  <2> HIDE DEF m
  <2>7. m \in low .. high - 1
    BY <2>6
  <2>8. m + 1 \in low + 1 .. high /\ (m + 1) - 1 = m /\ \A y \in E : y < m + 1
    BY <2>1, <2>6, <2>7
  <2> QED
    BY <2>6, <2>8
<1> QED
  BY <1>1, <1>2

\* What onRead leaves in the buffer, and where.
LEMMA RestSound ==
    ASSUME BufferInv, NEW n \in Nat \ {0}, ~TooLong(n),
           NEW behind \in SUBSET Behind(pos, pos + n)
    PROVE  LET b     == Filled(buf, pos, Stream(midline, n))
               E     == Ends(b, pos, pos + n)
               start == After(After(pos, E), behind)
               rest  == Rest(Consumed(b, pos, start), pos, start, pos + (pos + n) - start)
           IN  /\ Old(rest.buf) \in [0 .. BufSize - 1 -> {"blank", "stale", "newline"}]
               /\ rest.pos \in 0 .. BufSize - Slack
<1> DEFINE b     == Filled(buf, pos, Stream(midline, n))
           E     == Ends(b, pos, pos + n)
           tail  == After(pos, E)
           start == After(tail, behind)
           left  == pos + (pos + n) - start
           used  == Consumed(b, pos, start)
           rest  == Rest(used, pos, start, left)
           Tokens == {"blank", "stale", "newline", "text"}
<1>1. /\ pos \in Nat /\ pos + n <= BufSize - Slack
      /\ b \in [0 .. BufSize - 1 -> Tokens]
  BY FilledAt
<1>2. BufSize \in Nat /\ Slack \in Nat
  BY SessionAssumption
<1> HIDE DEF b
<1>3. start \in pos .. pos + (pos + n)
  <2> DEFINE high == pos + (pos + n)
  <2>1. E \in SUBSET (pos .. high - 1)
    BY <1>1, EndsFinite
  <2>2. high \in Nat /\ pos <= high
    BY <1>1
  <2> HIDE DEF E, high
  <2>3. tail = pos \/ tail \in pos + 1 .. high
    BY <1>1, <2>1, <2>2, AfterRange
  <2> HIDE DEF tail
  <2>4. tail \in Nat /\ tail <= high
    BY <1>1, <2>2, <2>3
  <2>5. behind \in SUBSET (BufSize .. high - 1)
    <3>1. high = pos + (pos + n)
      BY DEF high
    <3> HIDE DEF start
    <3>2. Behind(pos, pos + n) = BufSize .. high - 1
      BY <1>1, <1>2, <2>2, <3>1 DEF Behind
    <3> QED
      BY <3>2
  <2>6. start = tail \/ start \in BufSize + 1 .. high
    BY <1>2, <2>2, <2>4, <2>5, AfterRange
  <2> HIDE DEF start
  <2>7. pos <= BufSize
    BY <1>1, <1>2
  <2>8. start \in pos .. high
    BY <1>1, <1>2, <2>2, <2>3, <2>4, <2>6, <2>7
  <2> QED
    BY <2>8 DEF high
<1> HIDE DEF start, E, tail
<1>4. left \in 0 .. pos + n
  BY <1>1, <1>3
<1>5. used \in [0 .. BufSize - 1 -> Tokens]
  BY <1>1 DEF Consumed
<1> HIDE DEF left, used
<1>7. \A i \in Nat : At(used, i) \in Tokens
  BY <1>2, <1>5 DEF At
<1>8. Moved(used, pos, start, left) \in [0 .. BufSize - 1 -> Tokens]
  <2>1. \A i \in 0 .. BufSize - 1 : i \in pos .. pos + left - 1 => start + i - pos \in Nat
    BY <1>1, <1>3, <1>4
  <2> QED
    BY <1>5, <1>7, <2>1 DEF Moved
<1>9. rest.buf \in [0 .. BufSize - 1 -> Tokens] /\ rest.pos \in 0 .. BufSize - Slack
  BY <1>1, <1>2, <1>4, <1>5, <1>8 DEF Rest
<1> HIDE DEF rest
<1>10. Old(rest.buf) \in [0 .. BufSize - 1 -> {"blank", "stale", "newline"}]
  BY <1>9 DEF Old
<1> QED
  BY <1>9, <1>10 DEF rest, used, left, start, tail, E, b

\* Unless an old newline is in the way, onRead finds the newlines of this read
\* and no others, although it searches too far.
LEMMA CleanEnds ==
    ASSUME BufferInv, NEW n \in Nat \ {0}, ~TooLong(n),
           pos = 0 \/ "newline" \notin Range(buf)
    PROVE  LET t == Stream(midline, n)
           IN  Ends(Filled(buf, pos, t), pos, pos + n) =
                   {i \in pos .. pos + n - 1 : t[i - pos + 1] = "newline"}
<1> DEFINE t == Stream(midline, n)
           b == Filled(buf, pos, t)
<1>1. /\ pos \in Nat /\ pos + n <= BufSize - Slack
      /\ \A j \in 1 .. n : At(b, pos + j - 1) = t[j]
      /\ \A i \in 0 .. BufSize - 1 : i \notin pos .. pos + n - 1 => b[i] = buf[i]
  BY FilledAt
<1>2. BufSize \in Nat /\ Slack \in Nat /\ DOMAIN buf = 0 .. BufSize - 1
  BY SessionAssumption DEF BufferInv
<1> HIDE DEF b, t
<1>3. ASSUME NEW i \in pos .. pos + n - 1
      PROVE  At(b, i) = t[i - pos + 1]
  <2>1. i - pos + 1 \in 1 .. n /\ pos + (i - pos + 1) - 1 = i
    BY <1>1
  <2> QED
    BY <1>1, <2>1
<1>4. ASSUME NEW i \in pos .. pos + (pos + n) - 1, i \notin pos .. pos + n - 1
      PROVE  At(b, i) # "newline"
  <2>1. pos # 0
    BY <1>1, <1>4
  <2>2. CASE i < BufSize
    <3>1. i \in 0 .. BufSize - 1
      BY <1>1, <1>2, <2>2
    <3>2. At(b, i) = buf[i]
      BY <1>1, <1>4, <2>2, <3>1 DEF At
    <3>3. buf[i] \in Range(buf)
      BY <1>2, <3>1 DEF Range
    <3> QED
      BY <2>1, <3>2, <3>3
  <2>3. CASE ~(i < BufSize)
    BY <2>3 DEF At
  <2> QED
    BY <2>2, <2>3
<1>5. pos .. pos + n - 1 \subseteq pos .. pos + (pos + n) - 1
  BY <1>1
<1>6. Ends(b, pos, pos + n) = {i \in pos .. pos + n - 1 : t[i - pos + 1] = "newline"}
  BY <1>3, <1>4, <1>5 DEF Ends
<1> QED
  BY <1>6 DEF b, t

\* The k-th line of such a read: a text and its newline, but for a first line
\* whose text came with an earlier read.
LEMMA CleanLine ==
    ASSUME BufferInv, NEW n \in Nat \ {0}, ~TooLong(n),
           pos = 0 \/ "newline" \notin Range(buf)
    PROVE  LET t == Stream(midline, n)
               b == Filled(buf, pos, t)
               E == Ends(b, pos, pos + n)
               e == InOrder(E)
           IN  \A k \in 1 .. Cardinality(E) :
                   /\ LinesOf(b, pos, E)[k] =
                         IF k = 1 /\ midline THEN <<"newline">> ELSE <<"text", "newline">>
                   /\ e[k] = pos <=> k = 1 /\ midline
<1> DEFINE t == Stream(midline, n)
           b == Filled(buf, pos, t)
           E == Ends(b, pos, pos + n)
           c == Cardinality(E)
           e == InOrder(E)
           From(k) == IF k = 1 THEN pos ELSE e[k - 1] + 1
<1>1. /\ pos \in Nat
      /\ \A j \in 1 .. n : At(b, pos + j - 1) = t[j]
  BY FilledAt
<1>2. E = {i \in pos .. pos + n - 1 : t[i - pos + 1] = "newline"}
  BY CleanEnds
<1>3. /\ \A j \in 1 .. n : t[j] \in {"text", "newline"}
      /\ t[1] = "newline" <=> midline
      /\ \A j \in 1 .. n - 1 : t[j] = "newline" <=> t[j + 1] = "text"
  <2>1. midline \in BOOLEAN /\ 1 <= n
    BY DEF BufferInv
  <2> QED
    BY <2>1, StreamAlternates
<1>4. /\ c \in Nat /\ e \in [1 .. c -> E]
      /\ \A i, j \in 1 .. c : i < j => e[i] < e[j]
      /\ \A y \in E : \E i \in 1 .. c : e[i] = y
  <2>1. pos + n \in Nat
    BY <1>1
  <2>2. E \in SUBSET Nat /\ IsFiniteSet(E)
    BY <1>1, <2>1, EndsFinite
  <2> QED
    BY <2>2, InOrderSound
<1>5. LinesOf(b, pos, E) =
          [k \in 1 .. c |-> [i \in 1 .. e[k] + 1 - From(k) |-> At(b, From(k) + i - 1)]]
  BY DEF LinesOf
<1> HIDE DEF t, b, E, c, e
<1>6. \A i \in pos .. pos + n - 1 : At(b, i) = t[i - pos + 1] /\ i - pos + 1 \in 1 .. n
  <2> SUFFICES ASSUME NEW i \in pos .. pos + n - 1
               PROVE  At(b, i) = t[i - pos + 1] /\ i - pos + 1 \in 1 .. n
    OBVIOUS
  <2>1. i - pos + 1 \in 1 .. n /\ pos + (i - pos + 1) - 1 = i
    BY <1>1
  <2> QED
    BY <1>1, <2>1
<1>7. /\ E \subseteq pos .. pos + n - 1
      /\ \A i \in pos .. pos + n - 1 : i \in E <=> At(b, i) = "newline"
  BY <1>2, <1>6
<1>8. \A i \in pos .. pos + n - 2 : At(b, i) = "newline" <=> At(b, i + 1) = "text"
  <2> SUFFICES ASSUME NEW i \in pos .. pos + n - 2
               PROVE  At(b, i) = "newline" <=> At(b, i + 1) = "text"
    OBVIOUS
  <2>1. /\ i \in pos .. pos + n - 1 /\ i + 1 \in pos .. pos + n - 1
        /\ i - pos + 1 \in 1 .. n - 1 /\ (i + 1) - pos + 1 = (i - pos + 1) + 1
    BY <1>1
  <2> QED
    BY <1>3, <1>6, <2>1
<1>9. \A i \in pos .. pos + n - 1 : At(b, i) \in {"text", "newline"}
  BY <1>3, <1>6
<1>10. At(b, pos) = "newline" <=> midline
  BY <1>1, <1>3, <1>6
<1>11. ASSUME NEW k \in 1 .. c
       PROVE  /\ k = 1 /\ midline => e[k] = From(k)
              /\ ~(k = 1 /\ midline) => e[k] = From(k) + 1 /\ At(b, From(k)) = "text"
              /\ At(b, e[k]) = "newline" /\ From(k) \in Nat
  <2>1. e[k] \in pos .. pos + n - 1 /\ e[k] \in E /\ At(b, e[k]) = "newline"
    BY <1>4, <1>7
  <2>2. \A y \in E : y < e[k] => \E j \in 1 .. c : j < k /\ e[j] = y
    <3> SUFFICES ASSUME NEW y \in E, y < e[k] PROVE \E j \in 1 .. c : j < k /\ e[j] = y
      OBVIOUS
    <3>1. PICK j \in 1 .. c : e[j] = y
      BY <1>4
    <3>2. y \in Nat /\ e[k] \in Nat
      BY <1>1, <1>7, <2>1
    <3>3. j < k
      BY <1>4, <3>1, <3>2
    <3> QED
      BY <3>1, <3>3
  <2>3. CASE k = 1
    <3>1. \A y \in E : y >= e[1]
      <4>1. \A j \in 1 .. c : ~(j < 1)
        BY <1>4
      <4>2. \A y \in E : ~(y < e[1])
        BY <2>2, <2>3, <4>1
      <4> QED
        BY <1>1, <1>7, <2>1, <2>3, <4>2
    <3>2. CASE midline
      <4>1. pos \in E
        BY <1>1, <1>7, <1>10, <3>2
      <4>2. e[1] = pos
        BY <1>1, <2>1, <2>3, <3>1, <4>1
      <4> QED
        BY <1>1, <2>1, <2>3, <3>2, <4>2
    <3>3. CASE ~midline
      <4>1. At(b, pos) = "text" /\ e[1] # pos
        BY <1>1, <1>9, <1>10, <2>1, <2>3, <3>3
      <4>2. pos \in pos .. pos + n - 2
        BY <1>1, <2>1, <2>3, <4>1
      <4>3. At(b, pos + 1) = "newline" /\ pos + 1 \in E
        <5>1. pos + 1 \in pos .. pos + n - 1
          BY <1>1, <4>2
        <5>2. At(b, pos + 1) # "text"
          BY <1>8, <1>10, <3>3, <4>2
        <5> QED
          BY <1>7, <1>9, <5>1, <5>2
      <4>4. e[1] = pos + 1
        BY <1>1, <2>1, <2>3, <3>1, <4>1, <4>3
      <4> QED
        BY <1>1, <2>1, <2>3, <3>3, <4>1, <4>4
    <3> QED
      BY <3>2, <3>3
  <2>4. CASE k # 1
    <3>1. k - 1 \in 1 .. c /\ k - 1 < k
      BY <1>4, <2>4
    <3> DEFINE a == e[k - 1]
    <3>2. /\ a \in pos .. pos + n - 1 /\ a \in E /\ At(b, a) = "newline" /\ a < e[k]
      BY <1>4, <1>7, <3>1
    <3>3. \A y \in E : y <= a \/ y >= e[k]
      <4> SUFFICES ASSUME NEW y \in E, y < e[k] PROVE y <= a
        BY <1>1, <1>7, <2>1, <3>2
      <4>1. PICK j \in 1 .. c : j < k /\ e[j] = y
        BY <2>2
      <4>2. j = k - 1 \/ j < k - 1
        BY <1>4, <4>1
      <4>3. a \in Nat /\ y \in Nat
        BY <1>1, <1>7, <3>2
      <4> QED
        BY <1>4, <3>1, <4>1, <4>2, <4>3
    <3> HIDE DEF a
    <3>4. a \in pos .. pos + n - 2 /\ At(b, a + 1) = "text"
      <4>1. a \in pos .. pos + n - 2
        BY <1>1, <2>1, <3>2
      <4> QED
        BY <1>8, <3>2, <4>1
    <3>5. a + 1 # e[k]
      BY <2>1, <3>4
    <3>6. a + 1 \in pos .. pos + n - 2 /\ a + 2 \in pos .. pos + n - 1 /\ (a + 1) + 1 = a + 2
      BY <1>1, <2>1, <3>2, <3>5
    <3>7. a + 2 \in E
      <4>1. At(b, a + 2) # "text"
        BY <1>8, <3>4, <3>6
      <4> QED
        BY <1>7, <1>9, <3>6, <4>1
    <3>8. e[k] = a + 2
      BY <1>1, <2>1, <3>2, <3>3, <3>5, <3>7
    <3>9. From(k) = a + 1
      BY <2>4 DEF a
    <3> QED
      BY <1>1, <2>1, <2>4, <3>2, <3>4, <3>8, <3>9
  <2> QED
    BY <2>3, <2>4
<1>12. ASSUME NEW k \in 1 .. c
       PROVE  LinesOf(b, pos, E)[k] =
                  IF k = 1 /\ midline THEN <<"newline">> ELSE <<"text", "newline">>
  <2> DEFINE f == From(k)
  <2>1. LinesOf(b, pos, E)[k] = [i \in 1 .. e[k] + 1 - f |-> At(b, f + i - 1)]
    BY <1>5
  <2>2. /\ k = 1 /\ midline => e[k] = f
        /\ ~(k = 1 /\ midline) => e[k] = f + 1 /\ At(b, f) = "text"
        /\ At(b, e[k]) = "newline" /\ f \in Nat
    BY <1>11
  <2> HIDE DEF f
  <2>3. CASE k = 1 /\ midline
    <3>1. e[k] + 1 - f = 1 /\ At(b, f + 1 - 1) = "newline"
      BY <2>2, <2>3
    <3>2. [i \in 1 .. 1 |-> At(b, f + i - 1)] = <<"newline">>
      BY <3>1
    <3> QED
      BY <2>1, <2>3, <3>1, <3>2
  <2>4. CASE ~(k = 1 /\ midline)
    <3>1. e[k] + 1 - f = 2 /\ At(b, f + 1 - 1) = "text" /\ At(b, f + 2 - 1) = "newline"
      BY <2>2, <2>4
    <3>2. [i \in 1 .. 2 |-> At(b, f + i - 1)] = <<"text", "newline">>
      BY <3>1
    <3> QED
      BY <2>1, <2>4, <3>1, <3>2
  <2> QED
    BY <2>3, <2>4
<1>13. ASSUME NEW k \in 1 .. c
       PROVE  e[k] = pos <=> k = 1 /\ midline
  <2>1. k # 1 => From(k) > pos
    <3>1. k # 1 => k - 1 \in 1 .. c
      BY <1>4
    <3>2. k # 1 => e[k - 1] \in pos .. pos + n - 1
      BY <1>4, <1>7, <3>1
    <3> QED
      BY <1>1, <3>2
  <2>2. k = 1 => From(k) = pos
    OBVIOUS
  <2> HIDE DEF From
  <2> QED
    BY <1>1, <1>11, <2>1, <2>2
<1> QED
  BY <1>12, <1>13 DEF t, b, E, c, e

\* The lines of such a read are the whole lines in it, and the cut ones are no
\* messages.
LEMMA CleanLines ==
    ASSUME BufferInv, NEW n \in Nat \ {0}, ~TooLong(n),
           pos = 0 \/ "newline" \notin Range(buf)
    PROVE  LET t == Stream(midline, n)
               b == Filled(buf, pos, t)
               lines == LinesOf(b, pos, Ends(b, pos, pos + n))
           IN  /\ Cardinality({k \in DOMAIN lines : lines[k] = <<"text", "newline">>}) = WholeLines(t)
               /\ DOMAIN lines = 1 .. Cardinality(Ends(b, pos, pos + n))
               /\ \A k \in DOMAIN lines : MayBeMessage(lines[k]) => lines[k] = <<"text", "newline">>
<1> DEFINE t == Stream(midline, n)
           b == Filled(buf, pos, t)
           E == Ends(b, pos, pos + n)
           e == InOrder(E)
           c == Cardinality(E)
           lines == LinesOf(b, pos, E)
           K == {k \in DOMAIN lines : lines[k] = <<"text", "newline">>}
           W == {i \in 1 .. Len(t) - 1 : t[i] = "text" /\ t[i + 1] = "newline"}
           f == [k \in K |-> e[k] - pos]
<1>1. pos \in Nat /\ pos + n \in Nat
  BY FilledAt
<1>2. E = {i \in pos .. pos + n - 1 : t[i - pos + 1] = "newline"}
  BY CleanEnds
<1>3. /\ Len(t) = n
      /\ \A j \in 1 .. n : t[j] \in {"text", "newline"}
      /\ \A j \in 1 .. n - 1 : t[j] = "newline" <=> t[j + 1] = "text"
  <2>1. midline \in BOOLEAN
    BY DEF BufferInv
  <2> QED
    BY <2>1, StreamAlternates
<1>4. /\ c \in Nat /\ e \in [1 .. c -> E]
      /\ \A i, j \in 1 .. c : i < j => e[i] < e[j]
      /\ \A y \in E : \E i \in 1 .. c : e[i] = y
  <2>1. E \in SUBSET Nat /\ IsFiniteSet(E)
    BY <1>1, EndsFinite
  <2> QED
    BY <2>1, InOrderSound
<1>5. \A k \in 1 .. c :
          /\ lines[k] = IF k = 1 /\ midline THEN <<"newline">> ELSE <<"text", "newline">>
          /\ e[k] = pos <=> k = 1 /\ midline
  BY CleanLine
<1>6. DOMAIN lines = 1 .. c
  BY DEF LinesOf
<1> HIDE DEF t, b, E, e, c, lines
<1>7. /\ <<"newline">> # <<"text", "newline">>
      /\ ~MayBeMessage(<<"newline">>)
  BY DEF MayBeMessage, IsMessage, HasText
<1>8. K = {k \in 1 .. c : e[k] # pos}
  BY <1>5, <1>6, <1>7
<1>9. IsFiniteSet(K)
  <2>1. K \in SUBSET (1 .. c)
    BY <1>8
  <2> HIDE DEF K
  <2> QED
    BY <1>4, <2>1, IntervalSubset
<1>10. E \subseteq pos .. pos + n - 1 /\ \A y \in E : t[y - pos + 1] = "newline"
  BY <1>2
<1> HIDE DEF K
<1>11. f \in [K -> W]
  <2> SUFFICES ASSUME NEW k \in K PROVE e[k] - pos \in W
    OBVIOUS
  <2>1. e[k] \in E /\ e[k] # pos
    BY <1>4, <1>8
  <2>2. e[k] - pos \in 1 .. n - 1 /\ t[(e[k] - pos) + 1] = "newline"
    <3>1. e[k] \in pos .. pos + n - 1 /\ t[e[k] - pos + 1] = "newline"
      BY <1>10, <2>1
    <3>2. e[k] - pos \in 1 .. n - 1
      BY <1>1, <2>1, <3>1
    <3> QED
      BY <3>1, <3>2
  <2>3. t[e[k] - pos] = "text"
    <3>1. e[k] - pos \in 1 .. n
      BY <2>2
    <3> QED
      BY <1>3, <2>2, <3>1
  <2> QED
    BY <1>3, <2>2, <2>3
<1>12. \A k, l \in K : f[k] = f[l] => k = l
  <2> SUFFICES ASSUME NEW k \in K, NEW l \in K, e[k] - pos = e[l] - pos PROVE k = l
    OBVIOUS
  <2>1. k \in 1 .. c /\ l \in 1 .. c /\ e[k] \in Nat /\ e[l] \in Nat
    <3>1. k \in 1 .. c /\ l \in 1 .. c
      BY <1>8
    <3>2. e[k] \in pos .. pos + n - 1 /\ e[l] \in pos .. pos + n - 1
      BY <1>4, <1>10, <3>1
    <3> QED
      BY <1>1, <3>1, <3>2
  <2>2. e[k] = e[l]
    BY <1>1, <2>1
  <2> QED
    BY <1>4, <2>1, <2>2
<1>13. \A i \in W : \E k \in K : f[k] = i
  <2> SUFFICES ASSUME NEW i \in W PROVE \E k \in K : f[k] = i
    OBVIOUS
  <2>1. i \in 1 .. n - 1 /\ t[i + 1] = "newline"
    BY <1>3
  <2>2. pos + i \in pos .. pos + n - 1 /\ (pos + i) - pos + 1 = i + 1 /\ pos + i # pos
    BY <1>1, <2>1
  <2>3. pos + i \in E
    BY <1>2, <2>1, <2>2
  <2>4. PICK k \in 1 .. c : e[k] = pos + i
    BY <1>4, <2>3
  <2>5. k \in K /\ e[k] - pos = i
    BY <1>1, <1>8, <2>1, <2>2, <2>4
  <2> QED
    BY <2>5
<1>14. Cardinality(K) = Cardinality(W)
  <2> HIDE DEF f, W
  <2>1. f \in Bijection(K, W)
    BY <1>11, <1>12, <1>13 DEF Bijection, Injection, Surjection, IsInjective
  <2>2. ExistsBijection(K, W)
    BY <2>1 DEF ExistsBijection
  <2> QED
    BY <1>9, <2>2, FS_Bijection
<1>15. Cardinality(W) = WholeLines(t)
  BY DEF WholeLines
<1>16. \A k \in DOMAIN lines : MayBeMessage(lines[k]) => lines[k] = <<"text", "newline">>
  BY <1>5, <1>6, <1>7
<1>17. Cardinality(K) = WholeLines(t)
  BY <1>14, <1>15
<1> QED
  BY <1>6, <1>16, <1>17 DEF t, b, E, c, lines, K

\* None of these lines is whole, and only the first may be a message.
NoneWhole(D, d) ==
    /\ d \in Nat /\ DOMAIN D = 1 .. d
    /\ \A k \in 1 .. d : D[k] # <<"text", "newline">> /\ (MayBeMessage(D[k]) => k = 1)

\* Behind the last newline of m_buf no line has one, and only the first line may
\* begin inside m_buf.
LEMMA BehindLines ==
    ASSUME NEW b, NEW base \in Nat, NEW newPos \in Nat, base <= BufSize,
           NEW behind \in SUBSET Behind(base, newPos)
    PROVE  NoneWhole(LinesOf(b, After(base, Ends(b, base, newPos)), behind), Cardinality(behind))
<1> DEFINE E    == Ends(b, base, newPos)
           tail == After(base, E)
           high == base + newPos
           d    == Cardinality(behind)
           e    == InOrder(behind)
           From(k) == IF k = 1 THEN tail ELSE e[k - 1] + 1
           D    == LinesOf(b, tail, behind)
<1>1. BufSize \in Nat /\ high \in Nat /\ base <= high
  BY SessionAssumption
<1>2. /\ behind \subseteq BufSize .. high - 1 /\ behind \in SUBSET Nat
      /\ IsFiniteSet(behind)
  <2>1. behind \in SUBSET (BufSize .. high - 1)
    BY DEF Behind
  <2>2. IsFiniteSet(BufSize .. high - 1) /\ BufSize .. high - 1 \subseteq Nat
    BY <1>1, FS_Interval
  <2> QED
    BY <2>1, <2>2, FS_Subset
<1>3. /\ d \in Nat /\ e \in [1 .. d -> behind]
      /\ \A i, j \in 1 .. d : i < j => e[i] < e[j]
  BY <1>2, InOrderSound
<1>4. \A i \in base .. high - 1 : i \in E <=> At(b, i) = "newline"
  BY DEF Ends
<1>5. \A i \in Nat : i >= BufSize => At(b, i) = "blank"
  BY <1>1 DEF At
<1>6. E \in SUBSET (base .. high - 1)
  BY EndsFinite
<1>7. \A i \in E : i < BufSize
  BY <1>1, <1>4, <1>5, <1>6
<1>8. D = [k \in 1 .. d |-> [i \in 1 .. e[k] + 1 - From(k) |-> At(b, From(k) + i - 1)]]
  BY DEF LinesOf
<1> HIDE DEF E, d, e, D, high
<1>9. /\ tail = base \/ tail \in base + 1 .. high
      /\ \A y \in E : y < tail
      /\ tail # base => tail - 1 \in E
  BY <1>1, <1>6, AfterRange
<1> HIDE DEF tail
<1>10. tail \in Nat /\ base <= tail /\ tail <= BufSize
  BY <1>1, <1>7, <1>9
<1>11. \A k \in 1 .. d : e[k] \in Nat /\ BufSize <= e[k] /\ e[k] <= high - 1
  <2>1. \A y \in behind : y \in Nat /\ BufSize <= y /\ y <= high - 1
    BY <1>1, <1>2
  <2>2. \A k \in 1 .. d : e[k] \in behind
    BY <1>3
  <2> HIDE DEF From
  <2> QED
    BY <2>1, <2>2
<1>12. ASSUME NEW k \in 1 .. d
       PROVE  /\ From(k) \in Nat /\ From(k) <= e[k] /\ tail <= From(k)
              /\ k # 1 => From(k) >= BufSize
  <2>1. CASE k = 1
    BY <1>1, <1>10, <1>11, <2>1
  <2>2. CASE k # 1
    <3>1. k - 1 \in 1 .. d /\ k - 1 < k
      BY <1>3, <2>2
    <3>2. e[k - 1] < e[k]
      BY <1>3, <3>1
    <3>3. e[k - 1] \in Nat /\ BufSize <= e[k - 1] /\ e[k] \in Nat
      BY <1>11, <3>1
    <3> QED
      BY <1>1, <1>10, <2>2, <3>2, <3>3
  <2> QED
    BY <2>1, <2>2
<1>13. ASSUME NEW k \in 1 .. d
       PROVE  /\ D[k] # <<"text", "newline">>
              /\ MayBeMessage(D[k]) => k = 1
  <2> DEFINE f == From(k)
             m == e[k] + 1 - f
  <2>1. D[k] = [i \in 1 .. m |-> At(b, f + i - 1)]
    BY <1>8
  <2>2. /\ f \in Nat /\ f <= e[k] /\ tail <= f /\ (k # 1 => f >= BufSize)
        /\ e[k] \in Nat /\ e[k] <= high - 1
    BY <1>11, <1>12
  <2> HIDE DEF f
  <2>3. m \in Nat /\ 1 <= m
    BY <2>2
  <2>4. ASSUME NEW i \in 1 .. m PROVE At(b, f + i - 1) # "newline"
    <3>1. f + i - 1 \in Nat /\ f + i - 1 >= tail /\ f + i - 1 <= high - 1
      BY <1>1, <1>10, <2>2, <2>3
    <3>2. f + i - 1 \in base .. high - 1
      BY <1>1, <1>10, <3>1
    <3>3. f + i - 1 \notin E
      BY <1>9, <1>10, <3>1
    <3> QED
      BY <1>4, <3>2, <3>3
  <2> HIDE DEF m
  <2>5. D[k] # <<"text", "newline">>
    <3> SUFFICES ASSUME D[k] = <<"text", "newline">> PROVE FALSE
      OBVIOUS
    <3>1. 2 \in DOMAIN D[k] /\ D[k][2] = "newline"
      OBVIOUS
    <3>2. 2 \in 1 .. m
      BY <2>1, <3>1
    <3> QED
      BY <2>1, <2>4, <3>1, <3>2
  <2>6. MayBeMessage(D[k]) => k = 1
    <3> SUFFICES ASSUME k # 1 PROVE ~MayBeMessage(D[k])
      OBVIOUS
    <3>1. 1 \in 1 .. m /\ f + 1 - 1 = f
      BY <2>2, <2>3
    <3>2. D[k][1] = "blank"
      BY <1>5, <2>1, <2>2, <3>1
    <3> QED
      BY <3>2 DEF MayBeMessage, IsMessage, HasText
  <2> QED
    BY <2>5, <2>6
<1>14. DOMAIN D = 1 .. d
  BY <1>8
<1> QED
  BY <1>3, <1>13, <1>14 DEF NoneWhole, D, d, tail, E

\* All lines of a read: with those that end behind m_buf no whole line is added,
\* and at most one cut line that may be a message.
LEMMA AllLines ==
    ASSUME BufferInv, NEW n \in Nat \ {0}, ~TooLong(n),
           pos = 0 \/ "newline" \notin Range(buf),
           NEW behind \in SUBSET Behind(pos, pos + n)
    PROVE  LET t == Stream(midline, n)
               b == Filled(buf, pos, t)
               E == Ends(b, pos, pos + n)
               lines == LinesOf(b, pos, E) \o LinesOf(b, After(pos, E), behind)
           IN  /\ Cardinality({k \in DOMAIN lines : lines[k] = <<"text", "newline">>}) = WholeLines(t)
               /\ \A k \in DOMAIN lines : MayBeMessage(lines[k]) =>
                     lines[k] = <<"text", "newline">> \/ k = Cardinality(E) + 1
<1> DEFINE t == Stream(midline, n)
           b == Filled(buf, pos, t)
           E == Ends(b, pos, pos + n)
           c == Cardinality(E)
           d == Cardinality(behind)
           C == LinesOf(b, pos, E)
           D == LinesOf(b, After(pos, E), behind)
           S == {C[k] : k \in 1 .. c} \cup {D[k] : k \in 1 .. d}
           lines == C \o D
           whole == <<"text", "newline">>
<1>1. pos \in Nat /\ pos + n \in Nat /\ pos <= BufSize
  BY FilledAt, SessionAssumption
<1>2. /\ Cardinality({k \in DOMAIN C : C[k] = whole}) = WholeLines(t)
      /\ DOMAIN C = 1 .. c
      /\ \A k \in DOMAIN C : MayBeMessage(C[k]) => C[k] = whole
  BY CleanLines
<1>3. /\ d \in Nat /\ DOMAIN D = 1 .. d
      /\ \A k \in 1 .. d : D[k] # whole /\ (MayBeMessage(D[k]) => k = 1)
  <2>1. NoneWhole(D, d)
    BY <1>1, BehindLines
  <2> HIDE DEF t, b, E, d, C, D, S, lines
  <2> QED
    BY <2>1 DEF NoneWhole
<1>4. c \in Nat
  BY <1>1, EndsFinite, FS_CardinalityType
<1>5. C = [k \in 1 .. c |-> C[k]] /\ D = [k \in 1 .. d |-> D[k]]
  BY <1>2, <1>3 DEF LinesOf
<1> HIDE DEF t, b, E, c, d, C, D, whole
<1>6. C \in Seq(S) /\ Len(C) = c
  BY <1>4, <1>5
<1>7. D \in Seq(S) /\ Len(D) = d
  BY <1>3, <1>5
<1> HIDE DEF S
<1>8. /\ DOMAIN lines = 1 .. c + d
      /\ \A k \in 1 .. c : lines[k] = C[k]
      /\ \A k \in c + 1 .. c + d : lines[k] = D[k - c]
  BY <1>3, <1>4, <1>6, <1>7
<1> HIDE DEF lines
<1>9. \A k \in c + 1 .. c + d : k - c \in 1 .. d
  BY <1>3, <1>4
<1>10. 1 .. c + d = (1 .. c) \cup (c + 1 .. c + d)
  BY <1>3, <1>4
<1>11. {k \in DOMAIN lines : lines[k] = whole} = {k \in DOMAIN C : C[k] = whole}
  BY <1>2, <1>3, <1>8, <1>9, <1>10
<1>12. ASSUME NEW k \in DOMAIN lines, MayBeMessage(lines[k])
       PROVE  lines[k] = whole \/ k = c + 1
  <2>1. CASE k \in 1 .. c
    BY <1>2, <1>8, <1>12, <2>1
  <2>2. CASE k \in c + 1 .. c + d
    <3>1. k - c \in 1 .. d /\ lines[k] = D[k - c]
      BY <1>8, <1>9, <2>2
    <3>2. k - c = 1
      BY <1>3, <1>12, <3>1
    <3> QED
      BY <1>4, <2>2, <3>2
  <2> QED
    BY <1>8, <1>10, <2>1, <2>2
<1>13. Cardinality({k \in DOMAIN lines : lines[k] = whole}) = WholeLines(t)
  BY <1>2, <1>11
<1> QED
  BY <1>12, <1>13 DEF lines, whole, C, D, c, E, b, t

-----------------------------------------------------------------------------
(* The actions that need more than their own text *)

\* A share that submit() stores is new, and no request without a share.
LEMMA NewShare ==
    ASSUME SharesInv, JobInv, job # NoJobYet, NEW a \in Diffs
    PROVE  LET share == [no |-> Cardinality(shares) + 1, diff |-> job.diff, actual |-> a]
           IN  /\ share \in ShareSet /\ share \notin shares /\ share # NoShare
               /\ IsFiniteSet(shares \cup {share})
               /\ Cardinality(shares) \in Nat
               /\ Cardinality(shares \cup {share}) = Cardinality(shares) + 1
<1> DEFINE share == [no |-> Cardinality(shares) + 1, diff |-> job.diff, actual |-> a]
<1>1. IsFiniteSet(shares) /\ Cardinality(shares) \in Nat
  BY FS_CardinalityType DEF SharesInv
<1>2. share \in ShareSet /\ share.no = Cardinality(shares) + 1
  BY <1>1 DEF ShareSet, JobInv
<1>3. share \notin shares
  <2> HIDE DEF share
  <2> QED
    BY <1>1, <1>2 DEF SharesInv
<1>4. share # NoShare
  <2>1. NoShare.no = 0
    BY DEF NoShare
  <2> HIDE DEF share
  <2> QED
    BY <1>1, <1>2, <2>1
<1> HIDE DEF share
<1>5. IsFiniteSet(shares \cup {share}) /\ Cardinality(shares \cup {share}) = Cardinality(shares) + 1
  BY <1>1, <1>3, FS_AddElement
<1> QED
  BY <1>1, <1>2, <1>3, <1>4, <1>5 DEF share

\* An answer to a request that the table knows is about the share it holds.
LEMMA AnswerIsForShare ==
    ASSUME AskedInv, SharesInv, ResultsInv, reading.left # <<>>,
           NEW q \in asked, q.id \in DOMAIN results
    PROVE  q.share = results[q.id] /\ q.share # NoShare
<1>1. ~Idle
  BY DEF Idle, NoRead
<1>2. [id |-> q.id, share |-> results[q.id]] \in Written
  BY <1>1 DEF ResultsInv
<1>3. [id |-> q.id, share |-> results[q.id]] = q
  BY <1>2 DEF AskedInv, Written
<1>4. q.share = results[q.id]
  BY <1>3
<1>5. results[q.id] \in shares
  BY DEF ResultsInv
<1>6. \A x \in shares : x.no # 0
  BY DEF SharesInv, ShareSet
<1>7. NoShare.no = 0
  BY DEF NoShare
<1> QED
  BY <1>4, <1>5, <1>6, <1>7

\* parse() settles the share under `id`, as the pool decided, or touches none.
Settles(id, ok) ==
    /\ id \in DOMAIN results
    /\ state' = add(state, results[id], ok)
    /\ counted' = Append(counted, [share |-> results[id], ok |-> ok])
    /\ results' = Restrict(results, DOMAIN results \ {id})
    /\ [share |-> results[id], ok |-> ok] \in verdicts'

SettlesNone ==
    /\ UNCHANGED <<counted, results>>
    /\ state' = state \/ state' = [state EXCEPT !.active = TRUE]

\* An answer counts for the share that it is about, the one in the table, and
\* what the pool decided is what is counted.
LEMMA ParseSettles ==
    ASSUME AskedInv, SharesInv, ResultsInv, NEW m \in Messages, parse(m)
    PROVE  (\E id \in DOMAIN results : \E ok \in BOOLEAN : Settles(id, ok)) \/ SettlesNone
<1>1. /\ reading.left # <<>>
      /\ verdicts' = IF Decides(m) THEN verdicts \cup {[share |-> m.request.share, ok |-> m.error = "none"]}
                     ELSE verdicts
      /\ \/ m.request.id = 0 /\ Notification(m)
         \/ m.request.id # 0 /\ m.error # "none" /\ Error(m)
         \/ m.request.id # 0 /\ m.error = "none" /\ Response(m)
  BY DEF parse
<1>2. m.request.id # 0 => m.request \in asked
  BY MessageForms
<1>3. ASSUME NEW ok \in BOOLEAN, m.request.id # 0, Settle(m.request.id, ok), ok <=> m.error = "none",
             m.error # "none" \/ m.result.object
      PROVE  (\E id \in DOMAIN results : Settles(id, ok)) \/ SettlesNone
  <2>1. CASE m.request.id \in DOMAIN results
    <3>1. m.request.share = results[m.request.id] /\ m.request.share # NoShare
      BY <1>1, <1>2, <1>3, <2>1, AnswerIsForShare
    <3>2. [share |-> m.request.share, ok |-> m.error = "none"] \in verdicts'
      BY <1>1, <1>3, <3>1 DEF Decides
    <3>3. (m.error = "none") = ok
      BY <1>3
    <3>4. [share |-> results[m.request.id], ok |-> ok] \in verdicts'
      BY <3>1, <3>2, <3>3
    <3> QED
      BY <1>3, <2>1, <3>4 DEF Settle, Settles
  <2>2. CASE m.request.id \notin DOMAIN results
    BY <1>3, <2>2 DEF Settle, SettlesNone
  <2> QED
    BY <2>1, <2>2
<1>4. CASE m.request.id = 0 /\ Notification(m)
  BY <1>4 DEF Notification, SettlesNone
<1>5. CASE m.request.id # 0 /\ m.error # "none" /\ Error(m)
  <2>1. Settle(m.request.id, FALSE)
    BY <1>5 DEF Error
  <2> QED
    BY <1>3, <1>5, <2>1
<1>6. CASE m.request.id # 0 /\ m.error = "none" /\ Response(m)
  <2>1. CASE ~m.result.object
    BY <1>6, <2>1 DEF Response, SettlesNone
  <2>2. CASE m.result.object /\ m.request.id = 1
    BY <1>6, <2>2 DEF Response, LoginAnswer, SettlesNone
  <2>3. CASE m.result.object /\ m.request.id # 1
    <3>1. Settle(m.request.id, TRUE)
      BY <1>6, <2>3 DEF Response
    <3> QED
      BY <1>3, <1>6, <2>3, <3>1
  <2> QED
    BY <2>1, <2>2, <2>3
<1> QED
  BY <1>1, <1>4, <1>5, <1>6

\* parse() keeps the job or takes a sound one, and at most closes.
LEMMA ParseJob ==
    ASSUME AskedInv, NEW m \in Messages, parse(m)
    PROVE  /\ job' = job \/ JobOk(job')
           /\ conn' = conn \/ (conn = "up" /\ conn' = "closing")
<1>1. \/ m.request.id = 0 /\ Notification(m)
      \/ m.request.id # 0 /\ m.error # "none" /\ Error(m)
      \/ m.request.id # 0 /\ m.error = "none" /\ Response(m)
  BY DEF parse
<1>2. close => conn' = conn \/ (conn = "up" /\ conn' = "closing")
  BY DEF close
<1>3. CASE m.request.id = 0 /\ Notification(m)
  <2>1. m.result \in Params
    BY <1>3, MessageForms
  <2>2. PICK made \in parseParams(m.result, FALSE) : parseJob(made)
    BY <1>3 DEF Notification
  <2>3. \/ UNCHANGED <<job, conn>>
        \/ close /\ UNCHANGED job
        \/ made.code = 0 /\ job' = made /\ UNCHANGED conn
    BY <2>2 DEF parseJob
  <2> QED
    BY <1>2, <2>1, <2>3, MadeSound
<1>4. CASE m.request.id # 0 /\ m.error # "none" /\ Error(m)
  BY <1>2, <1>4 DEF Error
<1>5. CASE m.request.id # 0 /\ m.error = "none" /\ Response(m)
  <2>1. CASE ~(m.result.object /\ m.request.id = 1)
    BY <1>5, <2>1 DEF Response
  <2>2. CASE m.result.object /\ m.request.id = 1
    <3>1. m.result \in Params
      BY <1>5, <2>2, MessageForms
    <3>2. LoginAnswer(m)
      BY <1>5, <2>2 DEF Response
    <3>3. PICK made \in (IF m.result.rpcFits THEN parseParams(m.result, FALSE) ELSE {Refused(1)}) :
              IF Takes(made) THEN job' = made /\ UNCHANGED conn ELSE close /\ UNCHANGED job
      BY <3>2 DEF LoginAnswer
    <3>4. CASE Takes(made)
      <4>1. made.code = 0 /\ Refused(1).code # 0
        BY <3>4 DEF Takes, Refused
      <4>2. made \in parseParams(m.result, FALSE)
        BY <3>3, <4>1
      <4> QED
        BY <3>1, <3>3, <3>4, <4>1, <4>2, MadeSound
    <3> QED
      BY <1>2, <3>3, <3>4
  <2> QED
    BY <2>1, <2>2
<1> QED
  BY <1>1, <1>3, <1>4, <1>5

-----------------------------------------------------------------------------
(* Every part of the invariant, action by action *)

\* WholeLinesParsed for one read.
Parsed(r) ==
    r.clean =>
        /\ Cardinality({k \in DOMAIN r.lines : r.lines[k] = <<"text", "newline">>})
              = WholeLines(r.tokens)
        /\ \A k \in DOMAIN r.lines :
              MayBeMessage(r.lines[k]) => r.lines[k] = <<"text", "newline">> \/ k = r.inside + 1

\* WholeLinesParsed, in terms of Parsed.
LEMMA WholeLinesRead == WholeLinesParsed <=> Parsed(reading) /\ pos \in 0 .. BufSize - Slack
BY DEF WholeLinesParsed, Parsed

\* Nothing is parsed before the first read.
LEMMA NoReadParsed == Parsed(NoRead)
<1>1. NoRead.lines = <<>> /\ NoRead.tokens = <<>>
  BY DEF NoRead
<1>2. {k \in DOMAIN NoRead.lines : NoRead.lines[k] = <<"text", "newline">>} = {}
  BY <1>1
<1>3. {i \in 1 .. Len(NoRead.tokens) - 1 :
          NoRead.tokens[i] = "text" /\ NoRead.tokens[i + 1] = "newline"} = {}
  BY <1>1
<1>4. WholeLines(NoRead.tokens) = Cardinality({})
  BY <1>3 DEF WholeLines
<1>5. \A k \in DOMAIN NoRead.lines : FALSE
  BY <1>1
<1> QED
  BY <1>2, <1>4, <1>5 DEF Parsed

\* The invariant holds at the start.
LEMMA InitInv == Init => IInv
<1> SUFFICES ASSUME Init PROVE IInv
  OBVIOUS
<1> USE DEF Init
<1>1. BufSize \in Nat /\ Slack \in 1 .. BufSize /\ TopSize \in Nat \ {0}
  BY SessionAssumption
<1>2. NumberInv
  BY DEF NumberInv, Idle
<1>3. SharesInv
  BY FS_EmptySet DEF SharesInv
<1>4. AskedInv
  BY DEF AskedInv, Written
<1>5. DOMAIN results = {} /\ results \in [{} -> shares]
  OBVIOUS
<1>6. ResultsInv
  BY <1>5 DEF ResultsInv
<1>7. counted \in Seq([share : shares, ok : BOOLEAN]) /\ DOMAIN counted = {}
  OBVIOUS
<1>8. CountedInv
  BY <1>7 DEF CountedInv, CountedOnce
<1>9. TopInv
  <2>1. state \in StateSet /\ Descends(state.topDiff)
    BY DEF StateSet, Descends
  <2>2. ASSUME NEW v \in Nat \ {0} PROVE Fits(state.topDiff, v, Cardinality(Reaching(v)))
    <3>1. Reaching(v) = {}
      BY <1>7 DEF Reaching, Accepted
    <3>2. Entries(state.topDiff, v) = {}
      BY DEF Entries
    <3> QED
      BY <3>1, <3>2 DEF Fits
  <2> QED
    BY <2>1, <2>2 DEF TopInv
<1>10. JobInv
  BY DEF JobInv, JobSound
<1>11. BufferInv
  <2>1. /\ buf \in [0 .. BufSize - 1 -> {"blank", "stale", "newline"}]
        /\ pos \in 0 .. BufSize - Slack /\ midline \in BOOLEAN
    <3>1. buf \in [0 .. BufSize - 1 -> {"blank", "stale", "newline"}]
      OBVIOUS
    <3>2. pos \in 0 .. BufSize - Slack
      BY <1>1
    <3>3. midline \in BOOLEAN
      OBVIOUS
    <3> QED
      BY <3>1, <3>2, <3>3
  <2>2. reading = [tokens |-> reading.tokens, lines |-> reading.lines,
                   left |-> reading.left, inside |-> reading.inside, clean |-> reading.clean]
    BY DEF NoRead
  <2>3. WholeLinesParsed
    BY <2>1, NoReadParsed, WholeLinesRead
  <2> QED
    BY <2>1, <2>2, <2>3 DEF BufferInv
<1> QED
  BY <1>2, <1>3, <1>4, <1>6, <1>8, <1>9, <1>10, <1>11 DEF IInv

\* The counter only moves forward, and every job comes over a connection.
LEMMA NumberStep == IInv /\ Next => NumberInv'
<1> SUFFICES ASSUME IInv, Next PROVE NumberInv'
  OBVIOUS
<1> USE DEF IInv
<1>1. CASE login
  BY <1>1 DEF login, LoginSent, Connect, NumberInv, Idle
<1>2. CASE ping
  BY <1>2 DEF ping, send, close, NumberInv, Idle
<1>3. CASE Lost
  BY <1>3 DEF Lost, close, NumberInv, Idle
<1>4. CASE onClose
  BY <1>4 DEF onClose, NumberInv, Idle
<1>5. CASE OtherSends
  BY <1>5 DEF OtherSends, NumberInv, Idle
<1>6. ASSUME NEW a \in Diffs, submit(a) PROVE NumberInv'
  BY <1>6 DEF submit, send, close, NumberInv, Idle
<1>7. ASSUME NEW n \in 1 .. MaxRead, onRead(n) PROVE NumberInv'
  BY <1>7 DEF onRead, NumberInv, Idle
<1>8. ASSUME NEW n \in 1 .. MaxRead, onRead_TooLong(n) PROVE NumberInv'
  BY <1>8 DEF onRead_TooLong, close, NumberInv, Idle
<1>9. ASSUME NEW m \in Messages, parse(m) PROVE NumberInv'
  <2>1. sequence' = sequence /\ reading.left # <<>>
    BY <1>9 DEF parse
  <2>2. ~Idle
    BY <2>1 DEF Idle, NoRead
  <2>3. conn' = conn \/ conn' = "closing"
    BY <1>9, ParseJob
  <2> QED
    BY <2>1, <2>2, <2>3 DEF NumberInv
<1>10. CASE parse_Fails
  <2>1. ~Idle
    BY <1>10 DEF parse_Fails, Idle, NoRead
  <2> QED
    BY <1>10, <2>1 DEF parse_Fails, NumberInv
<1>11. CASE ReadDone
  BY <1>11 DEF ReadDone, NumberInv, Idle
<1> QED
  BY <1>1, <1>2, <1>3, <1>4, <1>5, <1>6, <1>7, <1>8, <1>9, <1>10, <1>11 DEF Next

\* Only submit() finds a share.
LEMMA SharesGrow == ASSUME Next PROVE UNCHANGED shares \/ \E a \in Diffs : submit(a)
BY DEF Next, login, ping, Lost, onClose, OtherSends, onRead, onRead_TooLong, parse, parse_Fails, ReadDone

\* submit() adds a share with the next number.
LEMMA SharesStep == IInv /\ Next => SharesInv' /\ shares \subseteq shares'
<1> SUFFICES ASSUME IInv, Next PROVE SharesInv' /\ shares \subseteq shares'
  OBVIOUS
<1>1. CASE UNCHANGED shares
  BY <1>1 DEF IInv, SharesInv
<1>2. ASSUME NEW a \in Diffs, submit(a) PROVE SharesInv' /\ shares \subseteq shares'
  <2> DEFINE share == [no |-> Cardinality(shares) + 1, diff |-> job.diff, actual |-> a]
  <2>1. shares' = shares \cup {share} /\ job # NoJobYet
    BY <1>2 DEF submit
  <2>2. /\ share \in ShareSet
        /\ IsFiniteSet(shares \cup {share}) /\ Cardinality(shares) \in Nat
        /\ Cardinality(shares \cup {share}) = Cardinality(shares) + 1
    BY <2>1, NewShare DEF IInv
  <2>3. share.no = Cardinality(shares) + 1
    OBVIOUS
  <2> HIDE DEF share
  <2>4. \A x \in ShareSet : x.no \in Nat
    BY DEF ShareSet
  <2>5. shares \subseteq ShareSet /\ \A x \in shares : x.no <= Cardinality(shares)
    BY DEF IInv, SharesInv
  <2>6. \A x \in shares' : x.no <= Cardinality(shares')
    BY <2>1, <2>2, <2>3, <2>4, <2>5
  <2> QED
    BY <2>1, <2>2, <2>5, <2>6 DEF SharesInv
<1> QED
  BY <1>1, <1>2, SharesGrow

\* A request that send() may write, whole or in part, has a new number.
LEMMA SendAsked ==
    ASSUME AskedInv, NumberInv, sequence >= 2,
           shares \subseteq shares',
           NEW share \in shares' \cup {NoShare}, send(Numbered(share))
    PROVE  /\ AskedInv'
           /\ Written \subseteq Written'
           /\ conn' = "up" => Numbered(share) \in Written' /\ sequence' = sequence + 1
<1> DEFINE q == Numbered(share)
           Requests == [id : Nat \ {0}, share : shares \cup {NoShare}]
<1>1. sequence \in Nat \ {0} /\ sequence >= 2
  BY DEF NumberInv
<1>2. /\ Written \subseteq Requests
      /\ \A r \in Written : r.id < sequence \/ r.id = 1
      /\ \A r \in Written : r.id = 1 => r.share = NoShare
      /\ \A r, s \in Written : r.id = s.id => r = s
  BY DEF AskedInv
<1>3. Requests \subseteq Requests'
  OBVIOUS
<1>4. q \in Requests' /\ q.id = sequence
  BY <1>1 DEF Numbered
<1>5. \A r \in Written : r.id \in Nat
  BY <1>2
<1> HIDE DEF q, Requests
<1>6. CASE conn = "up" /\ sequence' = sequence + 1 /\ Written' = Written \cup {q} /\ UNCHANGED conn
  <2>1. Written' \subseteq Requests'
    BY <1>2, <1>3, <1>4, <1>6
  <2>2. \A r \in Written' : r.id < sequence' \/ r.id = 1
    BY <1>1, <1>2, <1>4, <1>5, <1>6
  <2>3. \A r \in Written' : r.id = 1 => r.share = NoShare
    BY <1>1, <1>2, <1>4, <1>6
  <2>4. \A r \in Written : r.id # q.id
    BY <1>1, <1>2, <1>4, <1>5
  <2>5. \A r, s \in Written' : r.id = s.id => r = s
    BY <1>2, <1>6, <2>4
  <2> QED
    BY <1>6, <2>1, <2>2, <2>3, <2>5 DEF AskedInv, Requests, q
<1>7. CASE UNCHANGED <<sequence, Written>> /\ conn' # "up"
  <2>1. Written' \subseteq Requests'
    BY <1>2, <1>3, <1>7
  <2> QED
    BY <1>2, <1>7, <2>1 DEF AskedInv, Requests
<1>8. Whole(q) \/ Part(q) => Written' = Written \cup {q}
  BY DEF Whole, Part, Written
<1>9. UNCHANGED wire => UNCHANGED Written
  BY DEF wire, Written
<1> QED
  BY <1>6, <1>7, <1>8, <1>9 DEF send, close, q

\* What a login writes is the login, and nothing else is on the new connection.
LEMMA LoginWritten ==
    ASSUME LoginSent
    PROVE  Written' \subseteq {Login} /\ Login.id = 1 /\ Login.share = NoShare
BY DEF LoginSent, Connect, Written, Login

\* A request has a number of its own: a login forgets the others.
LEMMA AskedStep == IInv /\ Next => AskedInv'
<1> SUFFICES ASSUME IInv, Next PROVE AskedInv'
  OBVIOUS
<1>0. AskedInv /\ NumberInv
  BY DEF IInv
<1>a. shares \subseteq shares'
  BY SharesStep
<1>b. ASSUME UNCHANGED <<wire, shares>>, sequence' = sequence \/ sequence' = sequence + 1
      PROVE  AskedInv'
  <2>0. Written' = Written
    BY <1>b DEF wire, Written
  <2>1. /\ Written' \subseteq [id : Nat \ {0}, share : shares' \cup {NoShare}]
        /\ \A q \in Written' : q.id = 1 => q.share = NoShare
        /\ \A q, r \in Written' : q.id = r.id => q = r
    BY <1>0, <1>b, <2>0 DEF AskedInv
  <2>2. \A q \in Written : q.id \in Nat /\ (q.id < sequence \/ q.id = 1)
    BY <1>0 DEF AskedInv
  <2>3. \A q \in Written' : q.id < sequence' \/ q.id = 1
    BY <1>0, <1>b, <2>0, <2>2 DEF NumberInv
  <2> QED
    BY <2>1, <2>3 DEF AskedInv
<1>1. CASE login
  <2>1. LoginSent
    BY <1>1 DEF login
  <2>2. Login \in [id : Nat \ {0}, share : shares' \cup {NoShare}]
    BY DEF Login
  <2> QED
    BY <2>1, <2>2, LoginWritten DEF AskedInv
<1>2. CASE ping
  <2>1. sequence >= 2 /\ send(Numbered(NoShare))
    BY <1>0, <1>2 DEF ping, NumberInv
  <2> QED
    BY <1>0, <1>a, <2>1, SendAsked
<1>3. CASE Lost
  BY <1>3, <1>b DEF Lost, poolVars
<1>4. CASE onClose
  <2>1. Written' = {}
    BY <1>4 DEF onClose, Written
  <2> QED
    BY <2>1 DEF AskedInv
<1>5. CASE OtherSends
  BY <1>5, <1>b DEF OtherSends, poolVars
<1>6. ASSUME NEW a \in Diffs, submit(a) PROVE AskedInv'
  <2> DEFINE share == [no |-> Cardinality(shares) + 1, diff |-> job.diff, actual |-> a]
  <2>1. sequence >= 2 /\ send(Numbered(share)) /\ share \in shares'
    BY <1>0, <1>6 DEF submit, NumberInv
  <2> HIDE DEF share
  <2> QED
    BY <1>0, <1>a, <2>1, SendAsked
<1>7. ASSUME NEW n \in 1 .. MaxRead, onRead(n) PROVE AskedInv'
  BY <1>7, <1>b DEF onRead
<1>8. ASSUME NEW n \in 1 .. MaxRead, onRead_TooLong(n) PROVE AskedInv'
  BY <1>8, <1>b DEF onRead_TooLong
<1>9. ASSUME NEW m \in Messages, parse(m) PROVE AskedInv'
  BY <1>9, <1>b DEF parse, poolVars
<1>10. CASE parse_Fails
  BY <1>10, <1>b DEF parse_Fails, poolVars
<1>11. CASE ReadDone
  BY <1>11, <1>b DEF ReadDone, poolVars
<1> QED
  BY <1>1, <1>2, <1>3, <1>4, <1>5, <1>6, <1>7, <1>8, <1>9, <1>10, <1>11 DEF Next

\* A share enters the table before it is sent; if it is not, the connection ends.
LEMMA ResultsStep == IInv /\ Next => ResultsInv'
<1> SUFFICES ASSUME IInv, Next PROVE ResultsInv'
  OBVIOUS
<1>0. AskedInv /\ NumberInv /\ SharesInv /\ ResultsInv /\ JobInv
  BY DEF IInv
<1>a. shares \subseteq shares' /\ sequence \in Nat
  BY <1>0, SharesStep DEF NumberInv
<1> DEFINE Sent == \A id \in DOMAIN results : [id |-> id, share |-> results[id]] \in Written
<1>b. /\ results \in [DOMAIN results -> shares]
      /\ DOMAIN results \subseteq 2 .. sequence
      /\ \A i, j \in DOMAIN results : results[i] = results[j] => i = j
      /\ conn = "up" \/ ~Idle => Sent
  BY <1>0 DEF ResultsInv
<1>c. ASSUME UNCHANGED results, sequence' = sequence \/ sequence' = sequence + 1,
             (conn' = "up" \/ ~Idle') => (conn = "up" \/ ~Idle) /\ Written \subseteq Written'
      PROVE  ResultsInv'
  <2>1. results' \in [DOMAIN results' -> shares']
    BY <1>a, <1>b, <1>c
  <2>2. DOMAIN results' \subseteq 2 .. sequence'
    BY <1>a, <1>b, <1>c
  <2>3. \A i, j \in DOMAIN results' : results'[i] = results'[j] => i = j
    BY <1>b, <1>c
  <2>4. conn' = "up" \/ ~Idle' => Sent'
    BY <1>b, <1>c
  <2> QED
    BY <2>1, <2>2, <2>3, <2>4 DEF ResultsInv
<1>d. UNCHANGED wire => Written \subseteq Written'
  BY DEF wire, Written
<1>1. CASE login
  <2>1. results' = <<>>
    BY <1>1 DEF login
  <2>2. DOMAIN results' = {} /\ results' \in [{} -> shares']
    BY <2>1
  <2> QED
    BY <2>2 DEF ResultsInv
<1>2. CASE ping
  <2>1. /\ sequence >= 2 /\ send(Numbered(NoShare)) /\ conn = "up"
        /\ UNCHANGED <<results, reading>>
    BY <1>0, <1>2 DEF ping, NumberInv
  <2>2. Written \subseteq Written'
    BY <1>0, <1>a, <2>1, SendAsked
  <2>3. sequence' = sequence \/ sequence' = sequence + 1
    BY <2>1 DEF send
  <2> QED
    BY <1>c, <2>1, <2>2, <2>3
<1>3. CASE Lost
  BY <1>3, <1>c, <1>d DEF Lost, poolVars
<1>4. CASE onClose
  <2>1. UNCHANGED <<results, sequence, reading>> /\ conn' = "down" /\ Idle
    BY <1>4 DEF onClose
  <2> QED
    BY <1>c, <2>1 DEF Idle
<1>5. CASE OtherSends
  BY <1>5, <1>c, <1>d DEF OtherSends, poolVars, Idle
<1>6. ASSUME NEW a \in Diffs, submit(a) PROVE ResultsInv'
  <2> DEFINE share == [no |-> Cardinality(shares) + 1, diff |-> job.diff, actual |-> a]
             dom == DOMAIN results \cup {sequence}
  <2>1. /\ Idle /\ Idle' /\ job # NoJobYet
        /\ shares' = shares \cup {share}
        /\ results' = [id \in dom |-> IF id = sequence THEN share ELSE results[id]]
        /\ send(Numbered(share))
    BY <1>6 DEF submit, Idle
  <2>2. share \notin shares
    BY <1>0, <2>1, NewShare
  <2> HIDE DEF share
  <2>3. sequence >= 2
    BY <1>0, <2>1 DEF NumberInv
  <2>4. /\ Written \subseteq Written'
        /\ conn' = "up" => Numbered(share) \in Written' /\ sequence' = sequence + 1
    BY <1>0, <1>a, <2>1, <2>3, SendAsked
  <2>5. sequence' \in {sequence, sequence + 1} /\ (conn' = "up" => conn = "up")
    BY <2>1 DEF send, close
  <2>6. DOMAIN results' = dom /\ results' \in [dom -> shares']
    BY <1>b, <2>1
  <2>7. dom \subseteq 2 .. sequence'
    BY <1>a, <1>b, <2>3, <2>5
  <2>8. \A i, j \in dom : results'[i] = results'[j] => i = j
    BY <1>b, <2>1, <2>2
  <2>9. ASSUME conn' = "up", NEW id \in dom
        PROVE  [id |-> id, share |-> results'[id]] \in Written'
    <3>1. CASE id = sequence
      BY <2>1, <2>4, <2>9, <3>1 DEF Numbered
    <3>2. CASE id # sequence
      <4>1. id \in DOMAIN results /\ results'[id] = results[id]
        BY <2>1, <3>2
      <4>2. [id |-> id, share |-> results[id]] \in Written
        BY <1>b, <2>5, <2>9, <4>1
      <4> QED
        BY <2>4, <4>1, <4>2
    <3> QED
      BY <3>1, <3>2
  <2> QED
    BY <2>1, <2>6, <2>7, <2>8, <2>9 DEF ResultsInv
<1>7. ASSUME NEW n \in 1 .. MaxRead, onRead(n) PROVE ResultsInv'
  <2>1. UNCHANGED <<results, sequence, wire>> /\ conn = "up"
    BY <1>7 DEF onRead
  <2> QED
    BY <1>c, <1>d, <2>1
<1>8. ASSUME NEW n \in 1 .. MaxRead, onRead_TooLong(n) PROVE ResultsInv'
  <2>1. UNCHANGED <<results, sequence, wire>> /\ conn = "up"
    BY <1>8 DEF onRead_TooLong
  <2> QED
    BY <1>c, <1>d, <2>1
<1>9. ASSUME NEW m \in Messages, parse(m) PROVE ResultsInv'
  <2>1. UNCHANGED <<sequence, Written, shares>> /\ ~Idle
    BY <1>9 DEF parse, poolVars, wire, Written, Idle, NoRead
  <2>2. CASE SettlesNone
    BY <1>c, <2>1, <2>2 DEF SettlesNone
  <2>3. ASSUME NEW id \in DOMAIN results, NEW ok \in BOOLEAN, Settles(id, ok) PROVE ResultsInv'
    <3> DEFINE dom == DOMAIN results \ {id}
    <3>1. results' = [x \in dom |-> results[x]]
      BY <2>3 DEF Settles, Restrict
    <3>2. DOMAIN results' = dom /\ results' \in [dom -> shares']
      BY <1>b, <2>1, <3>1
    <3>3. Sent
      BY <1>b, <2>1
    <3> QED
      BY <1>b, <2>1, <3>1, <3>2, <3>3 DEF ResultsInv
  <2> QED
    BY <1>0, <1>9, <2>2, <2>3, ParseSettles
<1>10. CASE parse_Fails
  <2>1. UNCHANGED <<sequence, wire, results>> /\ ~Idle
    BY <1>10 DEF parse_Fails, poolVars, Idle, NoRead
  <2> QED
    BY <1>c, <1>d, <2>1
<1>11. CASE ReadDone
  BY <1>11, <1>c, <1>d DEF ReadDone, poolVars
<1> QED
  BY <1>1, <1>2, <1>3, <1>4, <1>5, <1>6, <1>7, <1>8, <1>9, <1>10, <1>11 DEF Next

\* Only a line changes what is counted, or topDiff.
LEMMA OthersCountNothing ==
    ASSUME Next
    PROVE  \/ /\ UNCHANGED <<counted, verdicts>>
              /\ \/ UNCHANGED state
                 \/ onClose
           \/ \E m \in Messages : parse(m)
BY DEF Next, login, ping, Lost, onClose, OtherSends, submit, onRead, onRead_TooLong, parse_Fails, ReadDone

\* What becomes of the table unless a line is parsed.
LEMMA OthersResults ==
    ASSUME IInv, Next
    PROVE  \/ \A id \in DOMAIN results' :
                  \/ id \in DOMAIN results /\ results'[id] = results[id]
                  \/ results'[id] \notin shares
           \/ \E m \in Messages : parse(m)
<1>1. CASE login
  BY <1>1 DEF login
<1>2. ASSUME NEW a \in Diffs, submit(a)
      PROVE  \A id \in DOMAIN results' :
                  \/ id \in DOMAIN results /\ results'[id] = results[id]
                  \/ results'[id] \notin shares
  <2> DEFINE share == [no |-> Cardinality(shares) + 1, diff |-> job.diff, actual |-> a]
  <2>1. /\ job # NoJobYet
        /\ results' = [id \in DOMAIN results \cup {sequence} |->
                          IF id = sequence THEN share ELSE results[id]]
    BY <1>2 DEF submit
  <2>2. share \notin shares
    BY <2>1, NewShare DEF IInv
  <2> HIDE DEF share
  <2> QED
    BY <2>1, <2>2
<1>3. CASE UNCHANGED results
  BY <1>3
<1> QED
  BY <1>1, <1>2, <1>3 DEF Next, ping, Lost, onClose, OtherSends, onRead, onRead_TooLong, parse_Fails, ReadDone

\* A share leaves the table when it is counted, and never comes back.
LEMMA CountedStep == IInv /\ Next => CountedInv'
<1> SUFFICES ASSUME IInv, Next PROVE CountedInv'
  OBVIOUS
<1>0. /\ AskedInv /\ SharesInv /\ ResultsInv /\ CountedInv
      /\ shares \subseteq shares'
  BY SharesStep DEF IInv
<1> DEFINE Answers == [share : shares, ok : BOOLEAN]
<1>1. /\ counted \in Seq(Answers)
      /\ \A i \in DOMAIN counted : counted[i] \in verdicts
      /\ \A i, j \in DOMAIN counted : i # j => counted[i].share # counted[j].share
      /\ \A i \in DOMAIN counted : \A id \in DOMAIN results : counted[i].share # results[id]
  BY <1>0 DEF CountedInv, CountedOnce
<1>2. \A i \in DOMAIN counted : counted[i].share \in shares
  <2>1. \A i \in DOMAIN counted : counted[i] \in Answers
    <3> HIDE DEF Answers
    <3> QED
      BY <1>1
  <2> QED
    BY <2>1
<1>3. Answers \subseteq Answers'
  BY <1>0
<1>4. Seq(Answers) \subseteq Seq(Answers')
  <2> HIDE DEF Answers
  <2> QED
    BY <1>3
<1>5. CASE /\ UNCHANGED <<counted, verdicts>>
           /\ \A id \in DOMAIN results' :
                  \/ id \in DOMAIN results /\ results'[id] = results[id]
                  \/ results'[id] \notin shares
  <2>1. CountedOnce' /\ counted' \in Seq(Answers')
    BY <1>1, <1>4, <1>5 DEF CountedOnce
  <2>2. \A i \in DOMAIN counted' : \A id \in DOMAIN results' : counted'[i].share # results'[id]
    BY <1>1, <1>2, <1>5
  <2> QED
    BY <2>1, <2>2 DEF CountedInv
<1>6. ASSUME NEW m \in Messages, parse(m) PROVE CountedInv'
  <2>1. verdicts \subseteq verdicts' /\ shares' = shares
    BY <1>6 DEF parse
  <2>2. CASE SettlesNone
    <3>1. UNCHANGED <<counted, results>>
      BY <2>2 DEF SettlesNone
    <3>2. CountedOnce' /\ counted' \in Seq(Answers')
      BY <1>1, <1>4, <2>1, <3>1 DEF CountedOnce
    <3> QED
      BY <1>1, <3>1, <3>2 DEF CountedInv
  <2>3. ASSUME NEW id \in DOMAIN results, NEW ok \in BOOLEAN, Settles(id, ok) PROVE CountedInv'
    <3> DEFINE answer == [share |-> results[id], ok |-> ok]
               n == Len(counted) + 1
    <3>1. /\ counted' = Append(counted, answer)
          /\ results' = [x \in DOMAIN results \ {id} |-> results[x]]
          /\ answer \in verdicts'
      BY <2>3 DEF Settles, Restrict
    <3>2. results[id] \in shares /\ \A x \in DOMAIN results : results[x] = results[id] => x = id
      BY <1>0 DEF ResultsInv
    <3>3. answer \in Answers /\ answer.share = results[id]
      BY <3>2
    <3> HIDE DEF answer, Answers
    <3>4. /\ counted' \in Seq(Answers)
          /\ DOMAIN counted = 1 .. n - 1 /\ n \in Nat /\ DOMAIN counted' = 1 .. n
          /\ counted'[n] = answer
          /\ \A i \in 1 .. n - 1 : counted'[i] = counted[i]
      BY <1>1, <3>1, <3>3
    <3> HIDE DEF n
    <3>5. \A i \in DOMAIN counted' : i = n \/ (i \in DOMAIN counted /\ counted'[i] = counted[i])
      BY <3>4
    <3>6. \A i \in DOMAIN counted' : counted'[i] \in verdicts'
      BY <1>1, <2>1, <3>1, <3>4, <3>5
    <3>7. \A i, j \in DOMAIN counted' : i # j => counted'[i].share # counted'[j].share
      BY <1>1, <3>3, <3>4, <3>5
    <3>8. \A i \in DOMAIN counted' : \A x \in DOMAIN results' : counted'[i].share # results'[x]
      BY <1>1, <3>1, <3>2, <3>3, <3>4, <3>5
    <3>9. counted' \in Seq(Answers')
      BY <1>4, <3>4
    <3> QED
      BY <3>6, <3>7, <3>8, <3>9 DEF CountedInv, CountedOnce, Answers
  <2> QED
    BY <1>0, <1>6, <2>2, <2>3, ParseSettles
<1> QED
  BY <1>5, <1>6, OthersCountNothing, OthersResults

\* The history, by its type.
LEMMA CountedTyped == SharesInv /\ CountedInv => counted \in Seq(CountedSet)
<1> DEFINE Answers == [share : shares, ok : BOOLEAN]
<1> SUFFICES ASSUME SharesInv, CountedInv PROVE counted \in Seq(CountedSet)
  OBVIOUS
<1>1. Answers \subseteq CountedSet
  BY DEF SharesInv, CountedSet
<1>2. counted \in Seq(Answers)
  BY DEF CountedInv
<1> HIDE DEF Answers
<1> QED
  BY <1>1, <1>2

\* Only add changes topDiff.
LEMMA TopStep == IInv /\ Next => TopInv'
<1> SUFFICES ASSUME IInv, Next PROVE TopInv'
  OBVIOUS
<1>0. /\ AskedInv /\ SharesInv /\ ResultsInv /\ TopInv
      /\ counted \in Seq(CountedSet)
  BY CountedTyped DEF IInv
<1>1. ASSUME UNCHANGED counted, state' \in StateSet, state'.topDiff = state.topDiff
      PROVE  TopInv'
  <2>1. \A v : Reaching(v)' = Reaching(v)
    BY <1>1 DEF Reaching, Accepted
  <2> QED
    BY <1>0, <1>1, <2>1 DEF TopInv
<1>2. state \in StateSet
  BY <1>0 DEF TopInv
<1>3. CASE UNCHANGED <<counted, state>>
  BY <1>1, <1>2, <1>3
<1>4. CASE onClose /\ UNCHANGED counted
  <2>1. \/ state' = [state EXCEPT !.active = FALSE, !.failures = @ + 1, !.latency = 0]
        \/ state' = state
    BY <1>4 DEF onClose
  <2>2. state' \in StateSet /\ state'.topDiff = state.topDiff
    <3>1. CASE state' = state
      BY <1>2, <3>1
    <3>2. CASE state' = [state EXCEPT !.active = FALSE, !.failures = @ + 1, !.latency = 0]
      <4>1. /\ {state.accepted, state.rejected, state.total, state.failures} \subseteq Nat
            /\ state.topDiff \in [1 .. TopSize -> Nat]
        BY <1>2 DEF StateSet
      <4>2. state' = [accepted |-> state.accepted, rejected |-> state.rejected,
                      total |-> state.total, failures |-> state.failures + 1,
                      topDiff |-> state.topDiff, active |-> FALSE, latency |-> 0]
        BY <1>2, <3>2 DEF StateSet
      <4> QED
        BY <4>1, <4>2 DEF StateSet
    <3> QED
      BY <2>1, <3>1, <3>2
  <2> QED
    BY <1>1, <1>4, <2>2
<1>5. ASSUME NEW m \in Messages, parse(m) PROVE TopInv'
  <2>1. CASE SettlesNone
    <3>1. UNCHANGED counted /\ (state' = state \/ state' = [state EXCEPT !.active = TRUE])
      BY <2>1 DEF SettlesNone
    <3>2. state' \in StateSet /\ state'.topDiff = state.topDiff
      BY <1>2, <3>1 DEF StateSet
    <3> QED
      BY <1>1, <3>1, <3>2
  <2>2. ASSUME NEW id \in DOMAIN results, NEW ok \in BOOLEAN, Settles(id, ok) PROVE TopInv'
    <3>1. results[id] \in ShareSet
      BY <1>0 DEF ResultsInv, SharesInv
    <3> QED
      BY <1>0, <2>2, <3>1, TopAdd DEF Settles
  <2> QED
    BY <1>0, <1>5, <2>1, <2>2, ParseSettles
<1> QED
  BY <1>3, <1>4, <1>5, OthersCountNothing

\* Only a sound job replaces a job.
LEMMA JobStep == IInv /\ Next => JobInv'
<1> SUFFICES ASSUME IInv, Next PROVE JobInv'
  OBVIOUS
<1>1. AskedInv /\ (job # NoJobYet => JobOk(job))
  BY JobInvOk DEF IInv
<1>2. JobInv' <=> (job' # NoJobYet => JobOk(job'))
  BY DEF JobInv, JobSound, JobOk
<1>3. ASSUME NEW m \in Messages, parse(m) PROVE JobInv'
  BY <1>1, <1>2, <1>3, ParseJob
<1>4. CASE UNCHANGED job
  BY <1>1, <1>2, <1>4
<1> QED
  BY <1>3, <1>4 DEF Next, login, ping, Lost, onClose, OtherSends, submit, onRead, onRead_TooLong,
                    parse_Fails, ReadDone

\* A read is cut into lines, and what is kept fits.
LEMMA BufferStep == IInv /\ Next => BufferInv'
<1> SUFFICES ASSUME IInv, Next PROVE BufferInv'
  OBVIOUS
<1> DEFINE Bytes == [0 .. BufSize - 1 -> {"blank", "stale", "newline"}]
           Record(r) == r = [tokens |-> r.tokens, lines |-> r.lines, left |-> r.left,
                             inside |-> r.inside, clean |-> r.clean]
<1>0. BufferInv
  BY DEF IInv
<1>a. /\ buf \in Bytes /\ pos \in 0 .. BufSize - Slack /\ midline \in BOOLEAN
      /\ Record(reading) /\ Parsed(reading)
  BY <1>0, WholeLinesRead DEF BufferInv
<1>b. ASSUME buf' \in Bytes, pos' \in 0 .. BufSize - Slack, midline' \in BOOLEAN,
             Record(reading'), Parsed(reading')
      PROVE  BufferInv'
  <2>1. WholeLinesParsed'
    BY <1>b DEF WholeLinesParsed, Parsed
  <2> QED
    BY <1>b, <2>1 DEF BufferInv
<1>c. BufSize \in Nat /\ Slack \in 1 .. BufSize /\ MaxRead \in Nat
  BY SessionAssumption
<1>d. \A n : Arrives(n) => midline' \in BOOLEAN
  BY Zenon DEF Arrives
<1>e. CASE UNCHANGED <<buf, pos, midline, reading>>
  BY <1>a, <1>b, <1>e
<1>1. CASE login
  <2>1. pos' = 0 /\ midline' = FALSE /\ UNCHANGED <<buf, reading>>
    BY <1>1 DEF login, LoginSent, Connect
  <2>2. pos' \in 0 .. BufSize - Slack
    BY <1>c, <2>1
  <2>3. midline' \in BOOLEAN
    BY <2>1
  <2> QED
    BY <1>a, <1>b, <2>1, <2>2, <2>3
<1>2. ASSUME NEW n \in 1 .. MaxRead, onRead(n) PROVE BufferInv'
  <2> DEFINE t     == Stream(midline, n)
             b     == Filled(buf, pos, t)
             E     == Ends(b, pos, pos + n)
             tail  == After(pos, E)
             clean == pos = 0 \/ "newline" \notin Range(buf)
  <2>1. ~TooLong(n) /\ Arrives(n)
    BY <1>2 DEF onRead
  <2>2. n \in Nat \ {0}
    BY <1>c
  <2>3. PICK behind \in SUBSET Behind(pos, pos + n) :
            LET start == After(tail, behind)
                lines == LinesOf(b, pos, E) \o LinesOf(b, tail, behind)
                rest  == Rest(Consumed(b, pos, start), pos, start, pos + (pos + n) - start)
            IN  /\ buf' = Old(rest.buf) /\ pos' = rest.pos
                /\ reading' = [tokens |-> t, lines |-> lines, left |-> lines,
                                inside |-> Cardinality(E), clean |-> clean]
    BY <1>2 DEF onRead
  <2> DEFINE start == After(tail, behind)
             lines == LinesOf(b, pos, E) \o LinesOf(b, tail, behind)
             rest  == Rest(Consumed(b, pos, start), pos, start, pos + (pos + n) - start)
             r     == [tokens |-> t, lines |-> lines, left |-> lines,
                       inside |-> Cardinality(E), clean |-> clean]
  <2>4. Old(rest.buf) \in Bytes /\ rest.pos \in 0 .. BufSize - Slack
    BY <1>0, <2>1, <2>2, RestSound
  <2>5. clean =>
            /\ Cardinality({k \in DOMAIN lines : lines[k] = <<"text", "newline">>}) = WholeLines(t)
            /\ \A k \in DOMAIN lines : MayBeMessage(lines[k]) =>
                  lines[k] = <<"text", "newline">> \/ k = Cardinality(E) + 1
    BY <1>0, <2>1, <2>2, AllLines
  <2>6. buf' = Old(rest.buf) /\ pos' = rest.pos /\ reading' = r
    BY <2>3
  <2> HIDE DEF t, b, E, tail, start, rest, lines, clean
  <2>7. /\ r.tokens = t /\ r.lines = lines /\ r.left = lines /\ r.clean = clean
        /\ r.inside = Cardinality(E)
    OBVIOUS
  <2>8. Record(r)
    BY <2>7
  <2> HIDE DEF r
  <2>9. Parsed(r)
    BY <2>5, <2>7 DEF Parsed
  <2> QED
    BY <1>b, <1>d, <2>1, <2>4, <2>6, <2>8, <2>9
<1>3. ASSUME NEW n \in 1 .. MaxRead, onRead_TooLong(n) PROVE BufferInv'
  <2> DEFINE t == Stream(midline, n)
             b == Filled(buf, pos, t)
  <2>1. buf' = Old(b) /\ Arrives(n) /\ UNCHANGED <<pos, reading>>
    BY <1>3 DEF onRead_TooLong
  <2>2. n \in Nat
    BY <1>c
  <2>3. Len(t) = n /\ \A j \in 1 .. n : t[j] \in {"text", "newline"}
    BY <1>a, <2>2, StreamAlternates
  <2> HIDE DEF t
  <2>4. Old(b) \in Bytes
    <3>1. DOMAIN b = 0 .. BufSize - 1
      BY <1>a DEF Filled
    <3>2. ASSUME NEW i \in 0 .. BufSize - 1
          PROVE  b[i] \in {"blank", "stale", "newline", "text"}
      <4>1. CASE i \in pos .. pos + n - 1
        <5>1. i - pos + 1 \in 1 .. n /\ b[i] = t[i - pos + 1]
          BY <1>a, <1>c, <2>2, <2>3, <4>1 DEF Filled
        <5> QED
          BY <2>3, <5>1
      <4>2. CASE i \notin pos .. pos + n - 1
        <5>1. b[i] = buf[i]
          BY <1>a, <2>3, <4>2 DEF Filled
        <5> QED
          BY <1>a, <5>1
      <4> QED
        BY <4>1, <4>2
    <3> HIDE DEF b
    <3> QED
      BY <3>1, <3>2 DEF Old
  <2> QED
    BY <1>a, <1>b, <1>d, <2>1, <2>4
<1>4. ASSUME reading' = [reading EXCEPT !.left = Tail(@)], UNCHANGED <<buf, pos, midline>>
      PROVE  BufferInv'
  <2>1. reading' = [tokens |-> reading.tokens, lines |-> reading.lines,
                    left |-> Tail(reading.left), inside |-> reading.inside,
                    clean |-> reading.clean]
    BY <1>a, <1>4
  <2>2. /\ reading'.tokens = reading.tokens /\ reading'.lines = reading.lines
        /\ reading'.left = Tail(reading.left) /\ reading'.clean = reading.clean
        /\ reading'.inside = reading.inside
    BY <2>1
  <2>3. Parsed(reading')
    BY <1>a, <2>2 DEF Parsed
  <2>4. Record(reading')
    BY <2>1, <2>2
  <2> QED
    BY <1>a, <1>b, <1>4, <2>3, <2>4
<1>5. ASSUME NEW m \in Messages, parse(m) PROVE BufferInv'
  BY <1>4, <1>5 DEF parse, poolVars
<1>6. CASE parse_Fails
  BY <1>4, <1>6 DEF parse_Fails, poolVars
<1>7. CASE ReadDone
  <2>1. reading' = NoRead /\ UNCHANGED <<buf, pos, midline>>
    BY <1>7 DEF ReadDone, poolVars
  <2>2. Record(reading') /\ Parsed(reading')
    BY <2>1, NoReadParsed DEF NoRead
  <2> QED
    BY <1>a, <1>b, <2>1, <2>2
<1>8. CASE onClose
  <2>1. midline' = FALSE /\ UNCHANGED <<buf, pos, reading>>
    BY <1>8 DEF onClose
  <2>2. midline' \in BOOLEAN
    BY <2>1
  <2> QED
    BY <1>a, <1>b, <2>1, <2>2
<1> QED
  BY <1>e, <1>1, <1>2, <1>3, <1>5, <1>6, <1>7, <1>8
     DEF Next, ping, Lost, OtherSends, submit, poolVars

-----------------------------------------------------------------------------
(* The theorems *)

\* Every step of the session keeps the invariant.
THEOREM Invariant == Spec => []IInv
<1>1. IInv /\ Next => IInv'
  BY NumberStep, SharesStep, AskedStep, ResultsStep, CountedStep, TopStep, JobStep, BufferStep DEF IInv
<1>2. IInv /\ UNCHANGED vars => IInv'
  <2> SUFFICES ASSUME IInv, UNCHANGED vars PROVE IInv'
    OBVIOUS
  <2> USE DEF vars, poolVars, wire, Written
  <2>1. NumberInv' /\ SharesInv' /\ AskedInv'
    BY DEF IInv, NumberInv, SharesInv, AskedInv, Idle
  <2>2. ResultsInv'
    BY DEF IInv, ResultsInv, Idle
  <2>3. CountedInv'
    BY DEF IInv, CountedInv, CountedOnce
  <2>4. TopInv'
    BY DEF IInv, TopInv, Reaching, Accepted
  <2>5. JobInv'
    BY DEF IInv, JobInv, JobSound
  <2>6. BufferInv'
    BY DEF IInv, BufferInv, WholeLinesParsed
  <2> QED
    BY <2>1, <2>2, <2>3, <2>4, <2>5, <2>6 DEF IInv
<1> QED
  BY <1>1, <1>2, InitInv, PTL DEF Spec

\* onRead hands exactly the whole lines of a read to parse(), for every size of
\* m_buf, and at most the one cut text in front of a newline behind m_buf;
\* m_recvBufPos stays where the next read fits.
THEOREM WholeLinesParsedHolds == Spec => []WholeLinesParsed
<1>1. IInv => WholeLinesParsed
  BY DEF IInv, BufferInv
<1> QED
  BY <1>1, Invariant, PTL

\* A share that waits in m_results was sent over this connection, whole or in
\* part, under its own number, and never under the number of the login.
THEOREM WaitingWasSentHolds == Spec => []WaitingWasSent
<1>1. IInv => WaitingWasSent
  BY DEF IInv, ResultsInv, NumberInv, Written, WaitingWasSent
<1> QED
  BY <1>1, Invariant, PTL

\* NetworkState counts each share at most once, as its pool decided, and topDiff
\* is the list of the best accepted ones, for every length of the list.
THEOREM CountedAsDecidedHolds == Spec => []CountedAsDecided
<1>1. IInv => CountedAsDecided
  <2> SUFFICES ASSUME IInv PROVE CountedAsDecided
    OBVIOUS
  <2>1. CountedOnce
    BY DEF IInv, CountedInv
  <2>2. BestFirst
    BY CountedTyped, TopInvBestFirst DEF IInv
  <2> QED
    BY <2>1, <2>2 DEF CountedAsDecided
<1> QED
  BY <1>1, Invariant, PTL

\* A job that parseJob keeps fits m_blob, and its difficulty is the one of its
\* 32-bit target, whatever the width of the words.
THEOREM JobSoundHolds == Spec => []JobSound
<1>1. IInv => JobSound
  BY DEF IInv, JobInv
<1> QED
  BY <1>1, Invariant, PTL

=============================================================================
