---------------------------- MODULE StartupProofs ----------------------------
(***************************************************************************)
(* What module Startup promises, proved for every command line of any      *)
(* length, every set of arguments and files, and every machine.            *)
(*                                                                         *)
(* A section of a file is parsed by a recursive function.  That it is one, *)
(* and what holds of its last value, follows by induction on its domain;   *)
(* the induction is on sets of numbers, of which a least one that is       *)
(* missing would have a predecessor that is not.                           *)
(*                                                                         *)
(* OwnUser rests on an invariant of its own, UsersInv: as long as          *)
(* arguments are parsed, a pool that has no valid url yet has a user that  *)
(* any host may see, so that the next url cannot part a user from its      *)
(* host.                                                                   *)
(***************************************************************************)
EXTENDS Startup, TLAPS, FiniteSetTheorems, WellFoundedInduction

-----------------------------------------------------------------------------
(* Numbers and induction *)

\* A quotient is the largest number whose product with the divisor fits.
LEMMA DivBounds ==
    ASSUME NEW a \in Nat, NEW b \in Nat \ {0}
    PROVE  /\ a \div b \in Nat
           /\ b * (a \div b) <= a
           /\ a < b * (a \div b) + b
BY SMT

\* A set of naturals that is not empty has a least element.
LEMMA NatMin ==
    ASSUME NEW S \in SUBSET Nat, S # {}
    PROVE  \E x \in S : \A y \in S : x <= y
<1>1. PICK x \in S : \A y \in S : ~(<<y, x>> \in OpToRel(<, Nat))
  BY NatLessThanWellFounded, WFMin, Zenon
<1>2. \A y \in S : ~(y < x)
  BY <1>1 DEF OpToRel
<1> QED
  BY <1>2

\* Induction on the numbers up to n.
LEMMA Steps ==
    ASSUME NEW n \in Nat, NEW P, 0 \in P, \A k \in 1 .. n : k - 1 \in P => k \in P
    PROVE  \A k \in 0 .. n : k \in P
<1> DEFINE Missing == (0 .. n) \ P
<1> SUFFICES ASSUME Missing # {} PROVE FALSE
  OBVIOUS
<1>1. PICK m \in Missing : \A k \in Missing : m <= k
  <2>1. Missing \in SUBSET Nat
    OBVIOUS
  <2> HIDE DEF Missing
  <2> QED
    BY <2>1, NatMin
<1>2. m \in 1 .. n
  BY <1>1
<1>3. m - 1 \in 0 .. n /\ m - 1 \notin Missing
  BY <1>1, <1>2
<1> QED
  BY <1>1, <1>2, <1>3

\* g starts with s0, makes one step after the other and goes through the sets of S.
Runs(g, n, S, s0, step) ==
    /\ g = [k \in 0 .. n |-> g[k]]
    /\ g[0] = s0
    /\ \A k \in 1 .. n : g[k] = step[k][g[k - 1]]
    /\ \A k \in 0 .. n : g[k] \in S[k]

\* Steps that lead from each set to the next make such a function.
LEMMA Iteration ==
    ASSUME NEW n \in Nat, NEW S, NEW s0 \in S[0], NEW step,
           \A k \in 1 .. n : \A x \in S[k - 1] : step[k][x] \in S[k]
    PROVE  \E g : Runs(g, n, S, s0, step)
<1> DEFINE P == {m \in 0 .. n : \E g : Runs(g, m, S, s0, step)}
<1>1. 0 \in P
  <2> DEFINE g == [k \in 0 .. 0 |-> s0]
  <2>1. Runs(g, 0, S, s0, step)
    BY DEF Runs
  <2> HIDE DEF g
  <2> QED
    BY <2>1
<1>2. ASSUME NEW m \in 1 .. n, m - 1 \in P PROVE m \in P
  <2>1. PICK f : Runs(f, m - 1, S, s0, step)
    BY <1>2
  <2> DEFINE g == [k \in 0 .. m |-> IF k = m THEN step[m][f[m - 1]] ELSE f[k]]
  <2>2. f[m - 1] \in S[m - 1] /\ step[m][f[m - 1]] \in S[m]
    BY <2>1 DEF Runs
  <2>3. g[0] = s0
    BY <2>1 DEF Runs
  <2>4. ASSUME NEW k \in 1 .. m PROVE g[k] = step[k][g[k - 1]]
    <3>1. CASE k = m
      BY <3>1
    <3>2. CASE k # m
      <4>1. k \in 1 .. m - 1 /\ g[k] = f[k] /\ g[k - 1] = f[k - 1]
        BY <3>2
      <4> QED
        BY <2>1, <4>1 DEF Runs
    <3> QED
      BY <3>1, <3>2
  <2>5. ASSUME NEW k \in 0 .. m PROVE g[k] \in S[k]
    <3>1. CASE k = m
      BY <2>2, <3>1
    <3>2. CASE k # m
      <4>1. k \in 0 .. m - 1 /\ g[k] = f[k]
        BY <3>2
      <4> QED
        BY <2>1, <4>1 DEF Runs
    <3> QED
      BY <3>1, <3>2
  <2>6. g = [k \in 0 .. m |-> g[k]]
    OBVIOUS
  <2> HIDE DEF g
  <2>7. Runs(g, m, S, s0, step)
    BY <2>3, <2>4, <2>5, <2>6 DEF Runs
  <2> QED
    BY <2>7
<1>3. n \in P
  <2> HIDE DEF P
  <2>1. \A k \in 0 .. n : k \in P
    BY <1>1, <1>2, Steps
  <2> QED
    BY <2>1
<1> QED
  BY <1>3

\* Parsing a section leads through the sets that its options lead through.
LEMMA SectionReaches ==
    ASSUME NEW names, Len(names) \in Nat, NEW object, NEW machine, NEW S, NEW x \in S[0],
           \A k \in 1 .. Len(names) : \A y \in S[k - 1] :
               parseJSON(y, names[k], object, machine) \in S[k]
    PROVE  parseSection(x, names, object, machine) \in S[Len(names)]
<1> DEFINE n == Len(names)
           step == [k \in 1 .. n |-> [y \in S[k - 1] |-> parseJSON(y, names[k], object, machine)]]
           Is(g) == g = [k \in 0 .. n |-> IF k = 0 THEN x
                                          ELSE parseJSON(g[k - 1], names[k], object, machine)]
           h == CHOOSE g : Is(g)
<1>1. \A k \in 1 .. n : \A y \in S[k - 1] : step[k][y] \in S[k]
  <2> SUFFICES ASSUME NEW k \in 1 .. n, NEW y \in S[k - 1] PROVE step[k][y] \in S[k]
    OBVIOUS
  <2>1. step[k][y] = parseJSON(y, names[k], object, machine)
    OBVIOUS
  <2> QED
    BY <2>1
<1>2. PICK g : Runs(g, n, S, x, step)
  <2>1. n \in Nat /\ x \in S[0]
    OBVIOUS
  <2> HIDE DEF n, step
  <2> QED
    BY <1>1, <2>1, Iteration, Zenon
<1>3. ASSUME NEW k \in 1 .. n
      PROVE  g[k] = parseJSON(g[k - 1], names[k], object, machine)
  <2>1. k - 1 \in 0 .. n
    OBVIOUS
  <2> HIDE DEF n
  <2>2. g[k - 1] \in S[k - 1] /\ g[k] = step[k][g[k - 1]]
    BY <1>2, <2>1, Zenon DEF Runs
  <2>3. \A y \in S[k - 1] : step[k][y] = parseJSON(y, names[k], object, machine)
    OBVIOUS
  <2> QED
    BY <2>2, <2>3
<1>4. Is(g)
  <2>1. \A k \in 0 .. n : g[k] = IF k = 0 THEN x
                                  ELSE parseJSON(g[k - 1], names[k], object, machine)
    <3>1. \A k \in 0 .. n : k = 0 \/ k \in 1 .. n
      OBVIOUS
    <3> QED
      BY <1>2, <1>3, <3>1 DEF Runs
  <2> HIDE DEF n
  <2> QED
    BY <1>2, <2>1, Zenon DEF Runs
<1>5. Is(h)
  BY <1>4
<1> HIDE DEF h, step
<1> DEFINE P == {k \in 0 .. n : h[k] \in S[k]}
<1>6. 0 \in P
  BY <1>5
<1>7. ASSUME NEW k \in 1 .. n, k - 1 \in P PROVE k \in P
  <2>1. h[k] = parseJSON(h[k - 1], names[k], object, machine)
    BY <1>5
  <2> QED
    BY <1>7, <2>1
<1>8. n \in P
  <2> HIDE DEF P
  <2>1. \A k \in 0 .. n : k \in P
    BY <1>6, <1>7, Steps
  <2> QED
    BY <2>1
<1>9. parseSection(x, names, object, machine) = h[n]
  BY Zenon DEF parseSection, h
<1> QED
  BY <1>8, <1>9

\* And parsing the pools, through the sets that their sections lead through.
LEMMA PoolsReach ==
    ASSUME NEW pools, Len(pools) \in Nat, NEW machine, NEW S, NEW x \in S[0],
           \A k \in 1 .. Len(pools) : \A y \in S[k - 1] :
               parseSection(y, PoolOptions, pools[k], machine) \in S[k]
    PROVE  parsePools(x, pools, machine) \in S[Len(pools)]
<1> DEFINE n == Len(pools)
           step == [k \in 1 .. n |-> [y \in S[k - 1] |-> parseSection(y, PoolOptions, pools[k], machine)]]
           Is(g) == g = [k \in 0 .. n |-> IF k = 0 THEN x
                                          ELSE parseSection(g[k - 1], PoolOptions, pools[k], machine)]
           h == CHOOSE g : Is(g)
<1>1. \A k \in 1 .. n : \A y \in S[k - 1] : step[k][y] \in S[k]
  <2> SUFFICES ASSUME NEW k \in 1 .. n, NEW y \in S[k - 1] PROVE step[k][y] \in S[k]
    OBVIOUS
  <2>1. step[k][y] = parseSection(y, PoolOptions, pools[k], machine)
    OBVIOUS
  <2> QED
    BY <2>1
<1>2. PICK g : Runs(g, n, S, x, step)
  <2>1. n \in Nat /\ x \in S[0]
    OBVIOUS
  <2> HIDE DEF n, step
  <2> QED
    BY <1>1, <2>1, Iteration, Zenon
<1>3. ASSUME NEW k \in 1 .. n
      PROVE  g[k] = parseSection(g[k - 1], PoolOptions, pools[k], machine)
  <2>1. k - 1 \in 0 .. n
    OBVIOUS
  <2> HIDE DEF n
  <2>2. g[k - 1] \in S[k - 1] /\ g[k] = step[k][g[k - 1]]
    BY <1>2, <2>1, Zenon DEF Runs
  <2>3. \A y \in S[k - 1] : step[k][y] = parseSection(y, PoolOptions, pools[k], machine)
    OBVIOUS
  <2> QED
    BY <2>2, <2>3
<1>4. Is(g)
  <2>1. \A k \in 0 .. n : g[k] = IF k = 0 THEN x
                                  ELSE parseSection(g[k - 1], PoolOptions, pools[k], machine)
    <3>1. \A k \in 0 .. n : k = 0 \/ k \in 1 .. n
      OBVIOUS
    <3> QED
      BY <1>2, <1>3, <3>1 DEF Runs
  <2> HIDE DEF n
  <2> QED
    BY <1>2, <2>1, Zenon DEF Runs
<1>5. Is(h)
  BY <1>4
<1> HIDE DEF h, step
<1> DEFINE P == {k \in 0 .. n : h[k] \in S[k]}
<1>6. 0 \in P
  BY <1>5
<1>7. ASSUME NEW k \in 1 .. n, k - 1 \in P PROVE k \in P
  <2>1. h[k] = parseSection(h[k - 1], PoolOptions, pools[k], machine)
    BY <1>5
  <2> QED
    BY <1>7, <2>1
<1>8. n \in P
  <2> HIDE DEF P
  <2>1. \A k \in 0 .. n : k \in P
    BY <1>6, <1>7, Steps
  <2> QED
    BY <2>1
<1>9. parsePools(x, pools, machine) = h[n]
  BY Zenon DEF parsePools, h
<1> QED
  BY <1>8, <1>9

-----------------------------------------------------------------------------
(* What parsing keeps *)

NumberOK(name, n) ==
    /\ n \in Int
    /\ \/ n = Defaults[name]
       \/ name \in Masks /\ n # 0 /\ n \in -(LongMax + 1) .. LongMax
       \/ name = "cc-update-interval-s" /\ n \in -(IntMax + 1) .. IntMax
       \/ /\ name \notin Masks \cup {"cc-update-interval-s"}
          /\ n \in Limits[name].low .. Limits[name].high

\* The values of options, and the hosts.
Values == Int \cup Strings \cup {NoHost} \cup BOOLEAN \cup Seq(Url)
Hosts  == Strings \cup {NoHost}

\* Options as they may be on a machine, before and after they are completed.
OptionSet(machine) ==
    {x \in [OptionNames -> Values] :
        /\ \A name \in Numbers \ {"threads"} : NumberOK(name, x[name])
        /\ x["threads"] \in Nat
        /\ x["threads"] <= 1024 \/ x["threads"] <= machine.threads
        /\ \A name \in Flags : x[name] \in BOOLEAN
        /\ \A name \in Texts \cup {"algo"} : x[name] \in Strings
        /\ x["cc-host"] \in Hosts
        /\ x["pools"] \in Seq(Url) /\ Len(x["pools"]) > 0}

\* The names of the numbers.
LEMMA NumberNames ==
    Numbers = {"retries", "retry-pause", "threads", "av", "aesni", "multihash-factor",
               "donate-level", "max-cpu-usage", "print-time", "cpu-affinity",
               "cpu-priority", "api-port", "cc-port", "cc-update-interval-s",
               "multihash-thread-mask"}
BY DEF Numbers, Limits

\* Remainders of what is less than twice the divisor.
LEMMA SmallRemainder ==
    ASSUME NEW m \in Nat \ {0}, NEW x \in Int, 0 <= x, x < 2 * m
    PROVE  x % m = IF x < m THEN x ELSE x - m
BY SMT

\* A number in bits that have a sign: in their range, itself if it is in their
\* range, and not 0 unless all of its bits are.
LEMMA SignedFacts ==
    ASSUME NEW n \in Int, NEW max \in Nat
    PROVE  /\ Signed(n, max) \in Int
           /\ -(max + 1) <= Signed(n, max) /\ Signed(n, max) <= max
           /\ 0 <= n /\ n <= max => Signed(n, max) = n
           /\ 0 < n /\ n <= 2 * max + 1 => Signed(n, max) # 0
<1> DEFINE m == 2 * (max + 1)
           x == n + (max + 1)
<1>1. m \in Nat \ {0} /\ x \in Int /\ m = 2 * max + 2
  OBVIOUS
<1>2. Signed(n, max) = (x % m) - (max + 1)
  BY DEF Signed
<1>3. ASSUME 0 <= x, x < 2 * m PROVE x % m = IF x < m THEN x ELSE x - m
  <2> HIDE DEF m, x
  <2> QED
    BY <1>1, <1>3, SmallRemainder
<1>4. x % m \in Int /\ 0 <= x % m /\ x % m < m
  <2> HIDE DEF m, x
  <2> QED
    BY <1>1, SMT
<1> DEFINE rest == x % m
<1> HIDE DEF rest
<1>5. /\ rest \in Int /\ 0 <= rest /\ rest < m
      /\ 0 <= x /\ x < 2 * m => rest = IF x < m THEN x ELSE x - m
  BY <1>3, <1>4 DEF rest
<1>6. Signed(n, max) = rest - (max + 1)
  BY <1>2 DEF rest
<1> QED
  BY <1>1, <1>5, <1>6

\* 64 bits without a sign.
LEMMA UnsignedRange ==
    ASSUME NEW n \in Int PROVE uint64(n) \in Nat /\ uint64(n) <= ULongMax
<1> DEFINE m == 2 * (LongMax + 1)
<1>1. m \in Nat \ {0} /\ m = ULongMax + 1 /\ ULongMax \in Nat
  BY OptionsAssumption DEF ULongMax
<1>2. uint64(n) = n % m
  BY DEF uint64
<1>3. n % m \in Int /\ 0 <= n % m /\ n % m < m
  <2> HIDE DEF m
  <2> QED
    BY <1>1, SMT
<1> HIDE DEF m
<1> QED
  BY <1>1, <1>2, <1>3

\* What the C library makes of a number.
LEMMA TextNumbers ==
    ASSUME NEW n \in Int
    PROVE  strtol(n) \in Int /\ strtoull(n) \in Nat /\ strtoull(n) <= ULongMax
<1>1. LongMax \in Nat /\ ULongMax \in Nat
  BY OptionsAssumption DEF ULongMax
<1>2. strtol(n) \in Int
  BY <1>1 DEF strtol
<1>3. strtoull(n) \in {ULongMax, uint64(n)}
  BY DEF strtoull
<1> QED
  BY <1>1, <1>2, <1>3, UnsignedRange

\* The limits are numbers, and only the masks and an interval have none in 32
\* bits.
LEMMA LimitsFacts ==
    /\ \A name \in Numbers : Limits[name].low \in Nat /\ Limits[name].high \in Nat
    /\ \A name \in Numbers \ (Masks \cup {"cc-update-interval-s"}) :
           Limits[name].high <= IntMax
    /\ \A name \in Masks \cup {"cc-update-interval-s"} :
           Limits[name].low = 1 /\ Limits[name].high = ULongMax
    /\ Limits["threads"].high = 1024
    /\ Limits["aesni"].low = 0 /\ Limits["aesni"].high = 2
    /\ Limits["multihash-factor"].low = 0 /\ Limits["multihash-factor"].high = MaxHashBlocks
    /\ Limits["max-cpu-usage"].low = 1 /\ Limits["max-cpu-usage"].high = 100
    /\ Limits["cc-port"].low = 0 /\ Limits["cc-port"].high = 65536
<1>0. /\ Limits["retries"] = Limit(1, 1000, TRUE) /\ Limits["retry-pause"] = Limit(1, 3600, TRUE)
      /\ Limits["threads"] = Limit(1, 1024, TRUE) /\ Limits["av"] = Limit(0, 1000, TRUE)
      /\ Limits["aesni"] = Limit(0, 2, TRUE)
      /\ Limits["multihash-factor"] = Limit(0, MaxHashBlocks, TRUE)
      /\ Limits["donate-level"] = Limit(1, 99, FALSE)
      /\ Limits["max-cpu-usage"] = Limit(1, 100, TRUE)
      /\ Limits["print-time"] = Limit(0, 1000, TRUE)
      /\ Limits["cpu-affinity"] = Limit(1, ULongMax, FALSE)
      /\ Limits["cpu-priority"] = Limit(0, 5, FALSE)
      /\ Limits["api-port"] = Limit(0, 65536, FALSE) /\ Limits["cc-port"] = Limit(0, 65536, FALSE)
      /\ Limits["cc-update-interval-s"] = Limit(1, ULongMax, TRUE)
      /\ Limits["multihash-thread-mask"] = Limit(1, ULongMax, FALSE)
  BY DEF Limits, NoLimit
<1>1. ASSUME NEW name \in Numbers
      PROVE  /\ Limits[name].low \in {0, 1}
             /\ IF name \in Masks \cup {"cc-update-interval-s"}
                THEN Limits[name].low = 1 /\ Limits[name].high = ULongMax
                ELSE Limits[name].high \in {2, 5, 99, 100, 1000, 1024, 3600, 65536, MaxHashBlocks}
  <2>1. CASE name \in {"retries", "retry-pause", "threads", "av", "aesni"}
    BY <2>1, <1>0 DEF Limit, Masks
  <2>2. CASE name \in {"multihash-factor", "donate-level", "max-cpu-usage", "print-time",
                       "cpu-priority"}
    BY <2>2, <1>0 DEF Limit, Masks
  <2>3. CASE name \in {"api-port", "cc-port"}
    BY <2>3, <1>0 DEF Limit, Masks
  <2>4. CASE name \in {"cpu-affinity", "multihash-thread-mask", "cc-update-interval-s"}
    BY <2>4, <1>0 DEF Limit, Masks
  <2> QED
    BY <2>1, <2>2, <2>3, <2>4, NumberNames
<1>2. /\ Limits["threads"].high = 1024
      /\ Limits["aesni"].low = 0 /\ Limits["aesni"].high = 2
      /\ Limits["multihash-factor"].low = 0 /\ Limits["multihash-factor"].high = MaxHashBlocks
      /\ Limits["max-cpu-usage"].low = 1 /\ Limits["max-cpu-usage"].high = 100
      /\ Limits["cc-port"].low = 0 /\ Limits["cc-port"].high = 65536
  BY DEF Limits, Limit
<1>3. Masks \cup {"cc-update-interval-s"} \subseteq Numbers
  BY NumberNames DEF Masks
<1>4. ULongMax \in Nat /\ IntMax \in Nat /\ IntMax >= 65536 /\ MaxHashBlocks \in Nat /\ MaxHashBlocks <= IntMax
  BY OptionsAssumption DEF ULongMax
<1>5. \A name \in Numbers \ (Masks \cup {"cc-update-interval-s"}) : Limits[name].high \in Nat /\ Limits[name].high <= IntMax
  BY <1>1, <1>4
<1>6. \A name \in Masks \cup {"cc-update-interval-s"} : Limits[name].low = 1 /\ Limits[name].high = ULongMax
  BY <1>1, <1>3
<1>7. \A name \in Numbers : Limits[name].low \in Nat /\ Limits[name].high \in Nat
  BY <1>1, <1>4, <1>5, <1>6
<1> QED
  BY <1>2, <1>5, <1>6, <1>7

\* No name stands for two kinds of options.
LEMMA NamesDiffer ==
    /\ Numbers \cap Texts = {} /\ Numbers \cap Flags = {} /\ Texts \cap Flags = {}
    /\ \A name \in {"algo", "cc-host", "pools"} : name \notin Numbers \cup Texts \cup Flags
<1>1. Numbers \cap Texts = {}
  BY NumberNames DEF Texts
<1>2. Numbers \cap Flags = {}
  BY NumberNames DEF Flags
<1>3. Texts \cap Flags = {}
  BY DEF Texts, Flags
<1>4. \A name \in {"algo", "cc-host", "pools"} : name \notin Numbers
  BY NumberNames
<1>5. \A name \in {"algo", "cc-host", "pools"} : name \notin Texts \cup Flags
  BY DEF Texts, Flags
<1> QED
  BY <1>1, <1>2, <1>3, <1>4, <1>5

\* A url starts as one.
LEMMA NewUrlTyped == NewUrl \in Url
<1>1. \A text \in Strings : \A port \in Int : \A flag \in BOOLEAN :
          [host |-> NoHost, port |-> port, user |-> text, pass |-> text,
           keepAlive |-> flag, nicehash |-> flag] \in Url
  BY DEF Url
<1>2. NoText \in Strings /\ kDefaultPort \in Int /\ FALSE \in BOOLEAN
  BY StringsAssumption DEF kDefaultPort
<1> QED
  BY <1>1, <1>2, Zenon DEF NewUrl

\* The constructor's initial values are options.
LEMMA DefaultsTyped ==
    ASSUME NEW machine \in Machines
    PROVE  Defaults \in OptionSet(machine)
<1> DEFINE Initial(name) ==
               CASE name \in {"retries", "retry-pause"} -> 5
                 [] name = "max-cpu-usage" -> 75
                 [] name = "print-time" -> 60
                 [] name = "cc-update-interval-s" -> 10
                 [] name = "cpu-priority" -> -1
                 [] name \in Masks -> -1
                 [] name \in Texts -> NoText
                 [] name \in Flags -> name \in {"colors", "huge-pages"}
                 [] name = "algo" -> "cryptonight"
                 [] name = "cc-host" -> NoHost
                 [] name = "pools" -> <<NewUrl>>
                 [] OTHER -> 0
<1>0. Defaults = [name \in OptionNames |-> Initial(name)]
  BY Zenon DEF Defaults
<1>1. \A name \in Numbers : Defaults[name] \in Int
  <2> SUFFICES ASSUME NEW name \in Numbers PROVE Defaults[name] \in Int
    OBVIOUS
  <2>1. Defaults[name] = Initial(name)
    BY <1>0 DEF OptionNames
  <2>2. name \notin Texts \cup Flags \cup {"algo", "cc-host", "pools"}
    BY NamesDiffer
  <2>3. Initial(name) \in Int
    BY <2>2, OptionsAssumption
  <2> QED
    BY <2>1, <2>3
<1>2. Defaults["threads"] = 0
  <2>1. "threads" \in Numbers
    BY NumberNames
  <2>2. "threads" \notin Texts \cup Flags
    BY <2>1, NamesDiffer
  <2> QED
    BY <1>0, <2>1, <2>2 DEF OptionNames, Masks
<1>3. \A name \in Flags : Defaults[name] \in BOOLEAN
  <2> SUFFICES ASSUME NEW name \in Flags PROVE Defaults[name] \in BOOLEAN
    OBVIOUS
  <2>1. Defaults[name] = Initial(name)
    BY <1>0 DEF OptionNames
  <2>2. Initial(name) = (name \in {"colors", "huge-pages"})
    BY DEF Flags, Texts
  <2> HIDE DEF Initial
  <2> QED
    BY <2>1, <2>2
<1>4. \A name \in Texts : Defaults[name] = NoText
  <2> SUFFICES ASSUME NEW name \in Texts PROVE Defaults[name] = NoText
    OBVIOUS
  <2>1. Defaults[name] = Initial(name)
    BY <1>0 DEF OptionNames
  <2>2. name \notin Masks \cup {"retries", "retry-pause", "max-cpu-usage", "print-time",
                               "cc-update-interval-s", "cpu-priority"}
    BY DEF Texts, Masks
  <2>3. Initial(name) = NoText
    BY <2>2, NamesDiffer
  <2> QED
    BY <2>1, <2>3
<1>5. Defaults["algo"] = "cryptonight" /\ Defaults["cc-host"] = NoHost /\ Defaults["pools"] = <<NewUrl>>
  <2>1. \A name \in {"algo", "cc-host", "pools"} : Defaults[name] = Initial(name)
    BY <1>0 DEF OptionNames
  <2>2. Initial("algo") = "cryptonight" /\ Initial("cc-host") = NoHost /\ Initial("pools") = <<NewUrl>>
    BY DEF Texts, Flags, Masks
  <2> QED
    BY <2>1, <2>2
<1> HIDE DEF Initial
<1>6. NewUrl \in Url
  BY NewUrlTyped
<1>7. <<NewUrl>> \in Seq(Url) /\ Len(<<NewUrl>>) = 1
  BY <1>6
<1>8. \A name \in OptionNames : Defaults[name] \in Values
  <2> SUFFICES ASSUME NEW name \in OptionNames
               PROVE  Defaults[name] \in Values
    OBVIOUS
  <2>1. CASE name \in Numbers
    BY <1>1, <2>1 DEF Values
  <2>2. CASE name \in Texts
    BY <1>4, <2>2, StringsAssumption DEF Values
  <2>3. CASE name \in Flags
    BY <1>3, <2>3 DEF Values
  <2>4. CASE name \in {"algo", "cc-host", "pools"}
    BY <1>5, <1>7, <2>4, StringsAssumption DEF Values
  <2> QED
    BY <2>1, <2>2, <2>3, <2>4 DEF OptionNames
<1>9. Defaults \in [OptionNames -> Values]
  <2>1. Defaults = [name \in OptionNames |-> Defaults[name]]
    BY <1>0
  <2> QED
    BY <1>8, <2>1
<1>10. machine.threads \in Nat
  BY StartupAssumption
<1>11. \A name \in Numbers \ {"threads"} : NumberOK(name, Defaults[name])
  BY <1>1 DEF NumberOK
<1>12. /\ \A name \in Texts \cup {"algo"} : Defaults[name] \in Strings
       /\ Defaults["cc-host"] \in Hosts
  BY <1>4, <1>5, StringsAssumption DEF Hosts
<1>13. Defaults["threads"] \in Nat /\ Defaults["threads"] <= 1024
  BY <1>2
<1>14. Defaults["pools"] \in Seq(Url) /\ Len(Defaults["pools"]) > 0
  <2> HIDE DEF Initial
  <2> QED
    BY <1>5, <1>7
<1> QED
  BY <1>3, <1>9, <1>11, <1>12, <1>13, <1>14, Zenon DEF OptionSet

\* Setting one option to a value that it may have.
LEMMA SetTyped ==
    ASSUME NEW machine, NEW x \in OptionSet(machine), NEW name \in OptionNames, NEW v,
           name \in Numbers \ {"threads"} => NumberOK(name, v),
           name = "threads" => v \in Nat /\ (v <= 1024 \/ v <= machine.threads),
           name \in Flags => v \in BOOLEAN,
           name \in Texts \cup {"algo"} => v \in Strings,
           name = "cc-host" => v \in Hosts,
           name = "pools" => v \in Seq(Url) /\ Len(v) > 0
    PROVE  [x EXCEPT ![name] = v] \in OptionSet(machine)
<1> DEFINE y == [x EXCEPT ![name] = v]
<1>1. v \in Values
  <2>1. CASE name \in Numbers \ {"threads"}
    BY <2>1 DEF NumberOK, Values
  <2>2. CASE name = "threads"
    BY <2>2 DEF Values
  <2>3. CASE name \in Flags
    BY <2>3 DEF Values
  <2>4. CASE name \in Texts \cup {"algo", "cc-host"}
    BY <2>4 DEF Values, Hosts
  <2>5. CASE name = "pools"
    BY <2>5 DEF Values
  <2> QED
    BY <2>1, <2>2, <2>3, <2>4, <2>5 DEF OptionNames
<1>2. x \in [OptionNames -> Values]
  BY DEF OptionSet
<1>3. y \in [OptionNames -> Values] /\ y[name] = v /\ \A m \in OptionNames \ {name} : y[m] = x[m]
  BY <1>1, <1>2
<1> HIDE DEF y
<1>4. {"threads", "pools", "algo", "cc-host"} \cup Numbers \cup Flags \cup Texts \subseteq OptionNames
  BY NumberNames DEF OptionNames
<1>5. \A m \in Numbers \ {"threads"} : NumberOK(m, y[m])
  <2>1. \A m \in Numbers \ {"threads"} : NumberOK(m, x[m])
    BY DEF OptionSet
  <2> QED
    BY <1>3, <1>4, <2>1, Zenon
<1>6. y["threads"] \in Nat /\ (y["threads"] <= 1024 \/ y["threads"] <= machine.threads)
  <2>1. x["threads"] \in Nat /\ (x["threads"] <= 1024 \/ x["threads"] <= machine.threads)
    BY DEF OptionSet
  <2> QED
    BY <1>3, <1>4, <2>1
<1>7. \A m \in Flags : y[m] \in BOOLEAN
  <2>1. \A m \in Flags : x[m] \in BOOLEAN
    BY DEF OptionSet
  <2> QED
    BY <1>3, <1>4, <2>1, Zenon
<1>8. (\A m \in Texts \cup {"algo"} : y[m] \in Strings) /\ y["cc-host"] \in Hosts
  <2>1. (\A m \in Texts \cup {"algo"} : x[m] \in Strings) /\ x["cc-host"] \in Hosts
    BY DEF OptionSet
  <2> QED
    BY <1>3, <1>4, <2>1
<1>9. y["pools"] \in Seq(Url) /\ Len(y["pools"]) > 0
  <2>1. x["pools"] \in Seq(Url) /\ Len(x["pools"]) > 0
    BY DEF OptionSet
  <2> QED
    BY <1>3, <1>4, <2>1
<1> QED
  BY <1>3, <1>5, <1>6, <1>7, <1>8, <1>9, Zenon DEF OptionSet, y

\* A number that passes its limits may be set.
LEMMA NumberTyped ==
    ASSUME NEW machine, NEW x \in OptionSet(machine), NEW name \in Numbers, NEW n \in Nat
    PROVE  parseNumber(x, name, n).o \in OptionSet(machine)
<1> DEFINE limit == Limits[name]
           v == IF name \in Masks THEN Signed(n, LongMax) ELSE int(n)
<1>1. CASE n < limit.low \/ n > limit.high
  <2>1. parseNumber(x, name, n).o = x
    BY <1>1 DEF parseNumber, Refuse, Accept
  <2> QED
    BY <2>1
<1>2. CASE ~(n < limit.low \/ n > limit.high)
  <2>1. parseNumber(x, name, n) = Set(x, name, v)
    BY <1>2 DEF parseNumber
  <2>2. parseNumber(x, name, n).o = [x EXCEPT ![name] = v]
    BY <2>1 DEF Set, Accept
  <2>3. n \in limit.low .. limit.high /\ limit.low \in Nat /\ limit.high \in Nat
    BY <1>2, LimitsFacts
  <2>4. IntMax \in Nat /\ LongMax \in Nat /\ ULongMax = 2 * LongMax + 1
    BY OptionsAssumption DEF ULongMax
  <2>5. NumberOK(name, v)
    <3>1. CASE name \in Masks
      <4>1. v = Signed(n, LongMax) /\ 0 < n /\ n <= 2 * LongMax + 1
        BY <3>1, <2>3, <2>4, LimitsFacts
      <4> QED
        BY <3>1, <2>4, <4>1, SignedFacts DEF NumberOK
    <3>2. CASE name = "cc-update-interval-s"
      <4>1. v = Signed(n, IntMax)
        BY <3>2 DEF int, Masks
      <4> QED
        BY <3>2, <2>4, <4>1, SignedFacts DEF NumberOK
    <3>3. CASE name \notin Masks \cup {"cc-update-interval-s"}
      <4>1. v = Signed(n, IntMax) /\ n <= IntMax
        BY <3>3, <2>3, <2>4, LimitsFacts DEF int
      <4>2. v = n
        BY <2>4, <4>1, SignedFacts
      <4> QED
        BY <3>3, <2>3, <4>2 DEF NumberOK
    <3> QED
      BY <3>1, <3>2, <3>3
  <2>6. name = "threads" => v \in Nat /\ v <= 1024
    <3> SUFFICES ASSUME name = "threads" PROVE v \in Nat /\ v <= 1024
      OBVIOUS
    <3>1. name \notin Masks \cup {"cc-update-interval-s"}
      BY DEF Masks
    <3>2. v = Signed(n, IntMax) /\ n <= IntMax /\ n <= 1024
      BY <3>1, <2>3, <2>4, LimitsFacts DEF int
    <3>3. v = n
      BY <2>4, <3>2, SignedFacts
    <3> QED
      BY <3>2, <3>3
  <2>7. name \in OptionNames /\ name \notin Flags /\ name \notin Texts \cup {"algo", "cc-host"} /\ name # "pools"
    BY NamesDiffer DEF OptionNames
  <2> HIDE DEF v
  <2>8. [x EXCEPT ![name] = v] \in OptionSet(machine)
    BY <2>5, <2>6, <2>7, SetTyped
  <2> QED
    BY <2>2, <2>8
<1> QED
  BY <1>1, <1>2

\* So may the last pool.
LEMMA BackTyped ==
    ASSUME NEW machine, NEW x \in OptionSet(machine), NEW url \in Url
    PROVE  /\ Back(x) \in Nat \ {0} /\ x["pools"][Back(x)] \in Url
           /\ SetBack(x, url).o \in OptionSet(machine)
           /\ SetBack(x, url).o = [x EXCEPT !["pools"] = [x["pools"] EXCEPT ![Back(x)] = url]]
<1>1. x["pools"] \in Seq(Url) /\ Len(x["pools"]) > 0
  BY DEF OptionSet
<1>2. Back(x) \in 1 .. Len(x["pools"])
  BY <1>1 DEF Back
<1>3. x["pools"][Back(x)] \in Url
  BY <1>1, <1>2
<1> DEFINE pools == [x["pools"] EXCEPT ![Back(x)] = url]
<1>4. pools \in Seq(Url) /\ Len(pools) > 0
  BY <1>1, <1>2
<1>5. SetBack(x, url).o = [x EXCEPT !["pools"] = pools]
  BY DEF SetBack, Accept
<1>6. "pools" \in OptionNames /\ "pools" \notin Numbers \cup Flags \cup Texts
  BY NamesDiffer DEF OptionNames
<1> HIDE DEF pools
<1>7. [x EXCEPT !["pools"] = pools] \in OptionSet(machine)
  BY <1>4, <1>6, SetTyped
<1> QED
  BY <1>2, <1>3, <1>5, <1>7 DEF pools

\* A flag changes options that are flags, or the last pool.
LEMMA BooleanTyped ==
    ASSUME NEW machine, NEW x \in OptionSet(machine), NEW enable \in BOOLEAN,
           NEW name \in {"keepalive", "nicehash", "background", "syslog", "colors", "no-color",
                         "huge-pages", "no-huge-pages", "safe"}
    PROVE  parseBoolean(x, name, enable).o \in OptionSet(machine)
<1>1. CASE name \in {"keepalive", "nicehash"}
  <2> DEFINE url == x["pools"][Back(x)]
             kept == [url EXCEPT !.keepAlive = enable]
             nice == [url EXCEPT !.nicehash = enable]
  <2>1. url \in Url
    BY BackTyped, NewUrlTyped
  <2> HIDE DEF url
  <2>2. kept \in Url /\ nice \in Url
    BY <2>1 DEF Url
  <2> USE DEF url
  <2>3. parseBoolean(x, name, enable) \in {SetBack(x, kept), SetBack(x, nice)}
    BY <1>1 DEF parseBoolean
  <2> HIDE DEF kept, nice
  <2> QED
    BY <2>2, <2>3, BackTyped
<1>2. CASE name \in {"background", "syslog"}
  <2> DEFINE y == [x EXCEPT ![name] = enable]
  <2>1. name \in Flags /\ "colors" \in Flags /\ name # "colors"
    BY <1>2 DEF Flags
  <2>2. name \in OptionNames /\ "colors" \in OptionNames
    BY <2>1 DEF OptionNames
  <2>3. \A m \in {name, "colors"} : m \notin Numbers \cup Texts \cup {"algo", "cc-host", "pools", "threads"}
    BY <2>1, NamesDiffer, NumberNames
  <2>4. y \in OptionSet(machine)
    BY <2>2, <2>3, SetTyped
  <2>5. DOMAIN x = OptionNames /\ x["colors"] \in BOOLEAN
    BY <2>1 DEF OptionSet
  <2>6. parseBoolean(x, name, enable).o = [y EXCEPT !["colors"] = x["colors"] /\ ~enable]
    BY <1>2, <2>1, <2>2, <2>5 DEF parseBoolean, Accept
  <2> HIDE DEF y
  <2>7. [y EXCEPT !["colors"] = x["colors"] /\ ~enable] \in OptionSet(machine)
    BY <2>2, <2>3, <2>4, <2>5, SetTyped
  <2> QED
    BY <2>6, <2>7
<1>3. CASE name \in {"colors", "no-color", "huge-pages", "no-huge-pages", "safe"}
  <2>1. PICK m \in {"colors", "huge-pages", "safe"} : parseBoolean(x, name, enable).o = [x EXCEPT ![m] = enable]
    BY <1>3 DEF parseBoolean, Set, Accept
  <2>2. m \in Flags
    BY DEF Flags
  <2>3. m \in OptionNames /\ m \notin Numbers \cup Texts \cup {"algo", "cc-host", "pools", "threads"}
    BY <2>2, NamesDiffer, NumberNames DEF OptionNames
  <2> QED
    BY <2>1, <2>3, SetTyped
<1> QED
  BY <1>1, <1>2, <1>3

\* Ports have 16 bits.
LEMMA PortRange == ASSUME NEW n \in Int PROVE uint16(n) \in Nat /\ uint16(n) < 65536
BY SMT DEF uint16

\* Parsing a text leaves a url a url.
LEMMA UrlTyped ==
    ASSUME NEW url \in Url, NEW text \in UrlText
    PROVE  /\ parseUrl(url, text) \in Url
           /\ parseUrl(url, text).user = url.user
<1>1. text.host \in Strings /\ text.port \in Int \cup {NoPort}
  BY DEF UrlText
<1>2. text.port # NoPort => uint16(strtol(text.port)) \in Int
  BY <1>1, PortRange, TextNumbers
<1> DEFINE port == uint16(strtol(text.port))
           one  == [url EXCEPT !.host = text.host]
           two  == [url EXCEPT !.host = text.host, !.port = port]
<1>3. parseUrl(url, text) \in {url, one} \/ (text.port # NoPort /\ parseUrl(url, text) = two)
  BY DEF parseUrl
<1>4. one \in Url /\ one.user = url.user
  BY <1>1 DEF Url
<1>5. text.port # NoPort => two \in Url /\ two.user = url.user
  <2> HIDE DEF port
  <2> QED
    BY <1>1, <1>2 DEF Url, port
<1> HIDE DEF one, two
<1> QED
  BY <1>3, <1>4, <1>5

\* The pools after a url: one more, the same, or the first one with another host.
LEMMA PoolUrlTyped ==
    ASSUME NEW machine, NEW x \in OptionSet(machine), NEW text \in UrlText
    PROVE  parsePoolUrl(x, text).o \in OptionSet(machine)
<1> DEFINE pools == IF Len(x["pools"]) > 1 \/ isValid(x["pools"][1])
                    THEN IF isValid(parseUrl(NewUrl, text))
                         THEN Append(x["pools"], parseUrl(NewUrl, text)) ELSE x["pools"]
                    ELSE <<parseUrl(x["pools"][1], text)>>
<1>1. x["pools"] \in Seq(Url) /\ Len(x["pools"]) > 0
  BY DEF OptionSet
<1>2. x["pools"][1] \in Url
  BY <1>1
<1>3. parseUrl(NewUrl, text) \in Url /\ parseUrl(x["pools"][1], text) \in Url
  BY <1>2, UrlTyped, NewUrlTyped
<1>4. pools \in Seq(Url) /\ Len(pools) > 0
  BY <1>1, <1>3
<1>5. parsePoolUrl(x, text).o = [x EXCEPT !["pools"] = pools]
  BY DEF parsePoolUrl
<1>6. "pools" \in OptionNames /\ "pools" \notin Numbers \cup Flags \cup Texts
  BY NamesDiffer DEF OptionNames
<1> HIDE DEF pools
<1> QED
  BY <1>4, <1>5, <1>6, SetTyped

\* The url of the server sets a host and a port.
LEMMA CCUrlTyped ==
    ASSUME NEW machine, NEW x \in OptionSet(machine), NEW text \in UrlText
    PROVE  parseCCUrl(x, text).o \in OptionSet(machine)
<1> DEFINE host == IF text.scheme = NoText THEN text.host ELSE text.scheme
           y    == [x EXCEPT !["cc-host"] = host]
           port == IF text.scheme # NoText THEN 0
                   ELSE IF text.port = NoPort THEN kDefaultCCPort ELSE uint16(strtol(text.port))
<1>1. "cc-host" \in OptionNames /\ "cc-host" \notin Numbers \cup Flags \cup Texts
  BY NamesDiffer DEF OptionNames
<1>2. "cc-port" \in Numbers /\ "cc-port" \in OptionNames /\ "cc-port" \notin Flags \cup Texts
  BY NamesDiffer, NumberNames DEF OptionNames
<1>3. host \in Hosts /\ text.port \in Int \cup {NoPort}
  BY DEF UrlText, Hosts
<1>4. y \in OptionSet(machine)
  <2> HIDE DEF host
  <2> QED
    BY <1>1, <1>3, SetTyped
<1>5. port \in Int /\ 0 <= port /\ port <= 65536
  <2>1. text.port # NoPort =>
            uint16(strtol(text.port)) \in Nat /\ uint16(strtol(text.port)) < 65536
    BY <1>3, PortRange, TextNumbers
  <2> QED
    BY <2>1 DEF kDefaultCCPort
<1>6. NumberOK("cc-port", port)
  <2> HIDE DEF port
  <2>1. Limits["cc-port"].low = 0 /\ Limits["cc-port"].high = 65536
    BY LimitsFacts
  <2>2. /\ Limits["cc-port"].low \in Int /\ Limits["cc-port"].high \in Int
        /\ Limits["cc-port"].low <= port /\ port <= Limits["cc-port"].high
    BY <1>5, <2>1
  <2>3. port \in Int /\ port \in Limits["cc-port"].low .. Limits["cc-port"].high
    BY <1>5, <2>2
  <2>4. "cc-port" \notin Masks \cup {"cc-update-interval-s"}
    BY DEF Masks
  <2> QED
    BY <2>3, <2>4, Zenon DEF NumberOK
<1>7. parseCCUrl(x, text).o = [y EXCEPT !["cc-port"] = port]
  BY DEF parseCCUrl, Accept
<1> HIDE DEF y, port, host
<1> QED
  BY <1>2, <1>4, <1>6, <1>7, SetTyped

\* An option that is given as a text.
LEMMA TextTyped ==
    ASSUME NEW machine \in Machines, NEW x \in OptionSet(machine), NEW name \in Names, NEW v,
           IsArgument(name, v)
    PROVE  parseText(x, name, v, machine).o \in OptionSet(machine)
<1> DEFINE r == parseText(x, name, v, machine)
           back == x["pools"][Back(x)]
<1> DEFINE Others == {"algo", "url", "userpass", "user", "pass", "cc-url", "daemonized", "threads-all",
                      "background", "keepalive", "syslog", "safe", "nicehash", "no-color",
                      "no-huge-pages", "version", "help", "unknown"}
<1>a. \A m \in Others : m \notin Numbers /\ m \notin Texts
  <2>1. \A m \in Others : m \notin Numbers
    BY NumberNames
  <2>2. \A m \in Others : m \notin Texts
    BY DEF Texts
  <2> QED
    BY <2>1, <2>2
<1>0. back \in Url
  BY BackTyped, NewUrlTyped
<1>1. CASE name = "algo"
  <2>1. r = setAlgo(x, v)
    BY <1>1, <1>a DEF parseText
  <2>2. r.o = x \/ \E algo \in {"cryptonight", "cryptonight-lite"} : r.o = [x EXCEPT !["algo"] = algo]
    <3>1. CASE v = "cryptonight"
      <4>1. r.o = [x EXCEPT !["algo"] = "cryptonight"]
        <5>1. setAlgo(x, v) = Set(x, "algo", v)
          BY <3>1 DEF setAlgo
        <5>2. Set(x, "algo", v).o = [x EXCEPT !["algo"] = v]
          BY DEF Set, Accept
        <5> HIDE DEF r
        <5> QED
          BY <2>1, <3>1, <5>1, <5>2
      <4> HIDE DEF r
      <4> QED
        BY <4>1
    <3>2. CASE v \in {"cryptonight-lite", "cryptonight-light"}
      BY <2>1, <3>2 DEF setAlgo, Set, Accept
    <3>3. CASE v \notin {"cryptonight", "cryptonight-lite", "cryptonight-light"}
      BY <2>1, <3>3 DEF setAlgo, Refuse
    <3> QED
      BY <3>1, <3>2, <3>3
  <2>3. \A algo \in {"cryptonight", "cryptonight-lite"} : algo \in Strings
    BY StringsAssumption
  <2>4. "algo" \in OptionNames /\ "algo" \notin Numbers \cup Flags \cup Texts
    BY NamesDiffer DEF OptionNames
  <2>5. ASSUME NEW algo \in {"cryptonight", "cryptonight-lite"}
        PROVE  [x EXCEPT !["algo"] = algo] \in OptionSet(machine)
    BY <2>3, <2>4, SetTyped
  <2> QED
    BY <2>2, <2>5
<1>2. CASE name = "url"
  <2>1. r = parsePoolUrl(x, v) /\ v \in UrlText
    BY <1>2, <1>a DEF parseText, IsArgument
  <2> QED
    BY <2>1, PoolUrlTyped
<1>3. CASE name = "userpass"
  <2> DEFINE url == [back EXCEPT !.user = v.user, !.pass = v.pass]
  <2> HIDE DEF back
  <2>1. v.user \in Strings /\ v.pass \in Strings
    BY <1>3 DEF IsArgument
  <2>2. url \in Url
    BY <1>0, <2>1 DEF Url
  <2> USE DEF back
  <2>3. r.o \in {x, SetBack(x, url).o}
    BY <1>3, <1>a DEF parseText, Refuse
  <2> HIDE DEF url
  <2> QED
    BY <2>2, <2>3, BackTyped
<1>4. CASE name \in {"user", "pass"}
  <2> DEFINE user == [back EXCEPT !.user = v]
             pass == [back EXCEPT !.pass = v]
  <2>1. user \in Url /\ pass \in Url
    <3> HIDE DEF back
    <3>1. v \in Strings
      BY <1>4 DEF IsArgument
    <3> QED
      BY <1>0, <3>1 DEF Url
  <2>2. r \in {SetBack(x, user), SetBack(x, pass)}
    BY <1>4, <1>a DEF parseText
  <2> HIDE DEF user, pass
  <2> QED
    BY <2>1, <2>2, BackTyped
<1>5. CASE name = "log-file"
  <2> DEFINE y == [x EXCEPT !["log-file"] = v]
  <2>1. "log-file" \in Texts /\ "colors" \in Flags
    BY DEF Texts, Flags
  <2>2. {"log-file", "colors"} \subseteq OptionNames
    BY <2>1 DEF OptionNames
  <2>3. "log-file" \notin Numbers \cup Flags /\ "log-file" \notin {"pools", "threads"}
    BY <2>1, NamesDiffer, NumberNames
  <2>4. "colors" \notin Numbers \cup Texts /\ "colors" \notin {"pools", "threads", "algo", "cc-host"}
    BY <2>1, NamesDiffer, NumberNames
  <2>5. v \in Strings
    BY <1>5, <2>1 DEF IsArgument
  <2>6. y \in OptionSet(machine)
    BY <2>2, <2>3, <2>5, SetTyped
  <2>7. r.o = [y EXCEPT !["colors"] = FALSE]
    <3>1. name \notin Others /\ name \notin Numbers /\ name \in Texts
      BY <1>5, <2>1, <2>3
    <3> QED
      BY <1>5, <2>2, <3>1 DEF parseText, Accept, OptionSet
  <2> HIDE DEF y
  <2>8. [y EXCEPT !["colors"] = FALSE] \in OptionSet(machine)
    BY <2>2, <2>4, <2>6, SetTyped
  <2> QED
    BY <2>7, <2>8
<1>6. CASE name \in Texts \ {"log-file"}
  <2>1. name \notin Others /\ name # "log-file" /\ name # "threads" /\ name # "pools"
    BY <1>6, <1>a DEF Texts
  <2>2. name \notin Numbers /\ name \notin Flags
    BY <1>6, NamesDiffer
  <2>3. r.o = [x EXCEPT ![name] = v]
    BY <1>6, <2>1, <2>2 DEF parseText, Set, Accept
  <2>4. name \in OptionNames /\ v \in Strings
    BY <1>6 DEF IsArgument, OptionNames
  <2>5. name # "cc-host"
    BY <1>6, NamesDiffer
  <2> QED
    BY <2>1, <2>2, <2>3, <2>4, <2>5, SetTyped
<1>7. CASE name = "cc-url"
  <2>1. r = parseCCUrl(x, v) /\ v \in UrlText
    BY <1>7, <1>a DEF parseText, IsArgument
  <2> QED
    BY <2>1, CCUrlTyped
<1>8. CASE name = "daemonized"
  <2>1. "daemonized" \in Flags
    BY DEF Flags
  <2>2. "daemonized" \in OptionNames
    BY <2>1 DEF OptionNames
  <2>3. "daemonized" \notin Numbers \cup Texts \cup {"algo", "cc-host", "pools", "threads"}
    BY <2>1, NamesDiffer
  <2>4. r.o = [x EXCEPT !["daemonized"] = TRUE]
    BY <1>8, <1>a DEF parseText, Set, Accept
  <2>5. [x EXCEPT !["daemonized"] = TRUE] \in OptionSet(machine)
    BY <2>2, <2>3, SetTyped
  <2> HIDE DEF Others
  <2> QED
    BY <2>4, <2>5
<1>9. CASE name \in Numbers
  <2>1. v \in Int /\ uint64(strtol(v)) \in Nat /\ strtoull(v) \in Nat
        /\ uint64(strtol(v)) <= ULongMax /\ strtoull(v) <= ULongMax
    BY <1>9, TextNumbers, UnsignedRange DEF IsArgument
  <2>2. name \notin Others /\ name # "log-file"
    BY <1>9, <1>a, NumberNames
  <2>3. name \notin Texts
    BY <1>9, NamesDiffer
  <2>4. r = parseNumber(x, name, IF name \in Masks THEN strtoull(v) ELSE uint64(strtol(v)))
    BY <1>9, <2>2, <2>3 DEF parseText
  <2> QED
    BY <1>9, <2>1, <2>4, NumberTyped
<1>10. CASE name = "threads-all"
  <2>1. name \notin Numbers /\ name \notin Texts
    BY <1>10, <1>a
  <2>2. r.o = [x EXCEPT !["threads"] = machine.threads]
    BY <1>10, <2>1 DEF parseText, Set, Accept
  <2>3. "threads" \in Numbers
    BY NumberNames
  <2>4. "threads" \in OptionNames /\ "threads" \notin Texts \cup Flags
    BY <2>3, NamesDiffer DEF OptionNames
  <2>5. machine.threads \in Nat /\ machine.threads <= machine.threads
    BY StartupAssumption
  <2>6. [x EXCEPT !["threads"] = machine.threads] \in OptionSet(machine)
    <3> HIDE DEF Others
    <3>1. "threads" \notin Numbers \ {"threads"} /\ "threads" \notin Texts \cup {"algo", "cc-host"}
      BY <2>4
    <3>2. "threads" \notin Flags /\ "threads" # "pools"
      BY <2>4
    <3> QED
      BY <2>4, <2>5, <3>1, <3>2, SetTyped, Zenon
  <2> QED
    BY <2>2, <2>6
<1>11. CASE name \in {"background", "keepalive", "syslog", "safe", "nicehash", "no-color", "no-huge-pages"}
  <2>1. name \notin Numbers /\ name \notin Texts
    BY <1>11, <1>a
  <2>2. \E enable \in BOOLEAN : r = parseBoolean(x, name, enable)
    BY <1>11, <2>1 DEF parseText
  <2> QED
    BY <1>11, <2>2, BooleanTyped
<1>12. CASE name \in {"version", "help", "unknown"}
  <2>1. name \notin Numbers /\ name \notin Texts
    BY <1>12, <1>a
  <2>2. r.o = x
    BY <1>12, <2>1 DEF parseText, Refuse
  <2> QED
    BY <2>2
<1> QED
  BY <1>1, <1>2, <1>3, <1>4, <1>5, <1>6, <1>7, <1>8, <1>9, <1>10, <1>11, <1>12 DEF Names

\* A member of an object; a value of the wrong type changes nothing.
LEMMA JSONTyped ==
    ASSUME NEW machine \in Machines, NEW x \in OptionSet(machine), NEW object, IsObject(object),
           NEW name \in Names \cup Switches
    PROVE  parseJSON(x, name, object, machine) \in OptionSet(machine)
<1> DEFINE v == object[name]
           r == parseJSON(x, name, object, machine)
<1>1. CASE name \notin DOMAIN object
  BY <1>1 DEF parseJSON
<1>2. ASSUME name \in DOMAIN object PROVE r \in OptionSet(machine)
  <2>1. /\ v.type = "text" => IsArgument(name, v.value)
        /\ v.type = "number" => v.value \in Nat
        /\ v.type = "flag" => v.value \in BOOLEAN
    BY <1>2 DEF IsObject
  <2>2. CASE v.type = "text" /\ name \notin Switches
    <3>1. r = parseText(x, name, v.value, machine).o
      BY <1>2, <2>2 DEF parseJSON
    <3> QED
      BY <2>1, <2>2, <3>1, TextTyped
  <2>3. CASE v.type = "number" /\ name \in Numbers
    <3>1. r = parseNumber(x, name, v.value).o
      BY <1>2, <2>3 DEF parseJSON
    <3> QED
      BY <2>1, <2>3, <3>1, NumberTyped
  <2>4. CASE v.type = "flag" /\ name \in Switches
    <3>1. r = parseBoolean(x, name, v.value).o
      BY <1>2, <2>4 DEF parseJSON
    <3>2. name \in {"keepalive", "nicehash", "background", "syslog", "colors", "no-color",
                    "huge-pages", "no-huge-pages", "safe"}
      BY <2>4 DEF Switches
    <3> QED
      BY <2>1, <2>4, <3>1, <3>2, BooleanTyped
  <2>5. CASE /\ ~(v.type = "text" /\ name \notin Switches)
             /\ ~(v.type = "number" /\ name \in Numbers)
             /\ ~(v.type = "flag" /\ name \in Switches)
    <3>1. r = x
      BY <1>2, <2>5, Zenon DEF parseJSON
    <3> QED
      BY <3>1
  <2> QED
    BY <2>2, <2>3, <2>4, <2>5
<1> QED
  BY <1>1, <1>2

\* A list of names of options.
IsSection(names) ==
    Len(names) \in Nat /\ \A k \in 1 .. Len(names) : names[k] \in Names \cup Switches

\* A section.
LEMMA SectionTyped ==
    ASSUME NEW machine \in Machines, NEW x \in OptionSet(machine), NEW object, IsObject(object),
           NEW names, IsSection(names)
    PROVE  parseSection(x, names, object, machine) \in OptionSet(machine)
<1>0. Len(names) \in Nat /\ \A k \in 1 .. Len(names) : names[k] \in Names \cup Switches
  BY DEF IsSection
<1> DEFINE S == [k \in 0 .. Len(names) |-> OptionSet(machine)]
<1>1. x \in S[0] /\ S[Len(names)] = OptionSet(machine)
  BY <1>0
<1>2. ASSUME NEW k \in 1 .. Len(names), NEW y \in S[k - 1]
      PROVE  parseJSON(y, names[k], object, machine) \in S[k]
  <2>1. S[k - 1] = OptionSet(machine) /\ S[k] = OptionSet(machine)
    BY <1>0
  <2> HIDE DEF S
  <2>2. y \in OptionSet(machine) /\ names[k] \in Names \cup Switches
    BY <1>0, <2>1
  <2> QED
    BY <2>1, <2>2, JSONTyped
<1> HIDE DEF S
<1>3. parseSection(x, names, object, machine) \in S[Len(names)]
  BY <1>0, <1>1, <1>2, SectionReaches
<1> QED
  BY <1>1, <1>3

\* The sections of the program are sections.
LEMMA SectionNames ==
    /\ IsSection(ConfigOptions)
    /\ IsSection(PoolOptions)
    /\ IsSection(ApiOptions)
    /\ IsSection(CCClientOptions)
    /\ IsSection(CCServerOptions)
<1>1. IsSection(ConfigOptions)
  <2>1. Len(ConfigOptions) = 20 /\ \A k \in 1 .. 20 : ConfigOptions[k] \in Names \cup Switches
    BY NumberNames DEF ConfigOptions, Names, Switches, Texts
  <2>2. 20 \in Nat
    OBVIOUS
  <2> QED
    BY <2>1, <2>2, Zenon DEF IsSection
<1>2. IsSection(PoolOptions)
  <2>1. Len(PoolOptions) = 6 /\ \A k \in 1 .. 6 : PoolOptions[k] \in Names \cup Switches
    BY DEF PoolOptions, Names, Switches
  <2>2. 6 \in Nat
    OBVIOUS
  <2> QED
    BY <2>1, <2>2, Zenon DEF IsSection
<1>3. IsSection(ApiOptions)
  <2>1. Len(ApiOptions) = 3 /\ \A k \in 1 .. 3 : ApiOptions[k] \in Names \cup Switches
    BY NumberNames DEF ApiOptions, Names, Texts
  <2>2. 3 \in Nat
    OBVIOUS
  <2> QED
    BY <2>1, <2>2, Zenon DEF IsSection
<1>4. IsSection(CCClientOptions)
  <2>1. Len(CCClientOptions) = 4 /\ \A k \in 1 .. 4 : CCClientOptions[k] \in Names \cup Switches
    BY NumberNames DEF CCClientOptions, Names, Texts
  <2>2. 4 \in Nat
    OBVIOUS
  <2> QED
    BY <2>1, <2>2, Zenon DEF IsSection
<1>5. IsSection(CCServerOptions)
  <2>1. Len(CCServerOptions) = 6 /\ \A k \in 1 .. 6 : CCServerOptions[k] \in Names \cup Switches
    BY NumberNames DEF CCServerOptions, Names, Texts
  <2>2. 6 \in Nat
    OBVIOUS
  <2> QED
    BY <2>1, <2>2, Zenon DEF IsSection
<1> QED
  BY <1>1, <1>2, <1>3, <1>4, <1>5

\* All pools of a file.
LEMMA PoolsTyped ==
    ASSUME NEW machine \in Machines, NEW x \in OptionSet(machine), NEW pools, Len(pools) \in Nat,
           \A k \in 1 .. Len(pools) : IsObject(pools[k])
    PROVE  parsePools(x, pools, machine) \in OptionSet(machine)
<1> DEFINE S == [k \in 0 .. Len(pools) |-> OptionSet(machine)]
<1>1. x \in S[0] /\ S[Len(pools)] = OptionSet(machine)
  OBVIOUS
<1>2. ASSUME NEW k \in 1 .. Len(pools), NEW y \in S[k - 1]
      PROVE  parseSection(y, PoolOptions, pools[k], machine) \in S[k]
  <2>1. S[k - 1] = OptionSet(machine) /\ S[k] = OptionSet(machine)
    OBVIOUS
  <2> HIDE DEF S
  <2>2. y \in OptionSet(machine) /\ IsObject(pools[k])
    BY <2>1
  <2> QED
    BY <2>1, <2>2, SectionNames, SectionTyped
<1> HIDE DEF S
<1>3. parsePools(x, pools, machine) \in S[Len(pools)]
  BY <1>1, <1>2, PoolsReach
<1> QED
  BY <1>1, <1>3

\* A whole file.
LEMMA ConfigTyped ==
    ASSUME NEW machine \in Machines, NEW x \in OptionSet(machine), NEW file, IsFile(file)
    PROVE  parseConfig(x, file, machine) \in OptionSet(machine)
<1>1. CASE ~file.readable
  BY <1>1 DEF parseConfig
<1>2. CASE file.readable
  <2> DEFINE a == parseSection(x, ConfigOptions, file.options, machine)
             b == parsePools(a, file.pools, machine)
             c == parseSection(b, ApiOptions, file.api, machine)
             d == parseSection(c, CCClientOptions, file.client, machine)
             e == parseSection(d, CCServerOptions, file.server, machine)
  <2>1. /\ IsObject(file.options) /\ IsObject(file.api) /\ IsObject(file.client)
        /\ IsObject(file.server) /\ Len(file.pools) \in Nat
        /\ \A k \in 1 .. Len(file.pools) : IsObject(file.pools[k])
    BY <1>2 DEF IsFile
  <2>2. a \in OptionSet(machine)
    BY <2>1, SectionNames, SectionTyped
  <2> HIDE DEF a
  <2>3. b \in OptionSet(machine)
    BY <2>1, <2>2, PoolsTyped
  <2> HIDE DEF b
  <2>4. c \in OptionSet(machine)
    BY <2>1, <2>3, SectionNames, SectionTyped
  <2> HIDE DEF c
  <2>5. d \in OptionSet(machine)
    BY <2>1, <2>4, SectionNames, SectionTyped
  <2> HIDE DEF d
  <2>6. e \in OptionSet(machine)
    BY <2>1, <2>5, SectionNames, SectionTyped
  <2> HIDE DEF e
  <2>7. parseConfig(x, file, machine) = e
    BY <1>2 DEF parseConfig, a, b, c, d, e
  <2> QED
    BY <2>6, <2>7
<1> QED
  BY <1>1, <1>2

\* One argument of the command line.
LEMMA ArgTyped ==
    ASSUME NEW machine \in Machines, NEW x \in OptionSet(machine), NEW arg \in Args
    PROVE  parseArg(x, arg, machine).o \in OptionSet(machine)
<1>1. CASE arg.name = "config"
  <2>1. IsFile(arg.value)
    BY <1>1, InputsAssumption
  <2>2. parseArg(x, arg, machine).o = parseConfig(x, arg.value, machine)
    BY <1>1 DEF parseArg, Accept
  <2> QED
    BY <2>1, <2>2, ConfigTyped
<1>2. CASE arg.name # "config"
  <2>1. arg.name \in Names /\ IsArgument(arg.name, arg.value)
    BY <1>2, InputsAssumption
  <2>2. parseArg(x, arg, machine) = parseText(x, arg.name, arg.value, machine)
    BY <1>2 DEF parseArg
  <2> QED
    BY <2>1, <2>2, TextTyped
<1> QED
  BY <1>1, <1>2

-----------------------------------------------------------------------------
(* Threads and hashes per thread *)

\* The smaller and the greater of two numbers.
LEMMA MinMax ==
    ASSUME NEW a \in Int, NEW b \in Int
    PROVE  /\ Min({a, b}) \in {a, b} /\ Min({a, b}) <= a /\ Min({a, b}) <= b
           /\ Max({a, b}) \in {a, b} /\ Max({a, b}) >= a /\ Max({a, b}) >= b
<1>1. \E x \in {a, b} : \A y \in {a, b} : x <= y
  BY SMT
<1>2. \E x \in {a, b} : \A y \in {a, b} : x >= y
  BY SMT
<1>3. Min({a, b}) \in {a, b} /\ \A y \in {a, b} : Min({a, b}) <= y
  BY <1>1, Zenon DEF Min
<1>4. Max({a, b}) \in {a, b} /\ \A y \in {a, b} : Max({a, b}) >= y
  BY <1>2, Zenon DEF Max
<1> QED
  BY <1>3, <1>4, Zenon

\* The smallest of three numbers.
LEMMA MinThree ==
    ASSUME NEW a \in Int, NEW b \in Int, NEW c \in Int
    PROVE  /\ Min({a, b, c}) \in {a, b, c}
           /\ Min({a, b, c}) <= a /\ Min({a, b, c}) <= b /\ Min({a, b, c}) <= c
<1>1. \E x \in {a, b, c} : \A y \in {a, b, c} : x <= y
  BY SMT
<1>2. Min({a, b, c}) \in {a, b, c} /\ \A y \in {a, b, c} : Min({a, b, c}) <= y
  BY <1>1, Zenon DEF Min
<1> QED
  BY <1>2, Zenon

\* The greatest of three numbers.
LEMMA MaxThree ==
    ASSUME NEW a \in Int, NEW b \in Int, NEW c \in Int
    PROVE  /\ Max({a, b} \cup {c}) \in {a, b, c}
           /\ Max({a, b} \cup {c}) >= a /\ Max({a, b} \cup {c}) >= b /\ Max({a, b} \cup {c}) >= c
<1> DEFINE S == {a, b} \cup {c}
<1>1. \E x \in S : \A y \in S : x >= y
  BY SMT
<1>2. a \in S /\ b \in S /\ c \in S /\ S = {a, b, c}
  OBVIOUS
<1> HIDE DEF S
<1>3. Max(S) \in S /\ \A y \in S : Max(S) >= y
  BY <1>1, Zenon DEF Max
<1>4. Max(S) \in {a, b, c} /\ Max(S) >= a /\ Max(S) >= b /\ Max(S) >= c
  BY <1>2, <1>3, Zenon
<1> QED
  BY <1>4 DEF S

\* What fits is at least one scratchpad.
LEMMA ReasonableOK ==
    ASSUME NEW machine \in Machines, NEW x
    PROVE  Reasonable(x, machine) \in Nat \ {0}
<1>1. availableCache(machine) \in Nat
  BY StartupAssumption DEF availableCache
<1>2. BlockSize(x["algo"]) \in Nat \ {0}
  BY DEF BlockSize
<1> DEFINE n == availableCache(machine) \div BlockSize(x["algo"])
<1>3. n \in Nat
  BY <1>1, <1>2, DivBounds
<1> HIDE DEF n
<1>4. Max({n, 1}) \in {n, 1} /\ Max({n, 1}) >= 1
  <2>1. n \in Int /\ 1 \in Int
    BY <1>3
  <2> QED
    BY <2>1, MinMax, Zenon
<1>5. Max({n, 1}) \in Nat \ {0}
  BY <1>3, <1>4
<1> QED
  BY <1>5 DEF Reasonable, n

\* A part of a number, times the parts, fits.
LEMMA PartsFit ==
    ASSUME NEW most \in Nat, NEW t \in Nat \ {0}, NEW f \in Nat, f <= most \div t
    PROVE  t * f <= most
<1> DEFINE q == most \div t
<1>1. q \in Nat /\ t * q <= most
  BY DivBounds
<1> HIDE DEF q
<1>2. f <= q
  BY DEF q
<1>3. t * f <= t * q
  BY <1>1, <1>2
<1> QED
  BY <1>1, <1>3

\* And is at least one, unless there are more parts than there is.
LEMMA PartPositive ==
    ASSUME NEW most \in Nat, NEW t \in Nat \ {0}, t <= most
    PROVE  most \div t \in Nat \ {0}
<1> DEFINE q == most \div t
<1>1. q \in Nat /\ most < t * q + t
  BY DivBounds
<1> HIDE DEF q
<1>2. q # 0
  <2>1. CASE q = 0
    <3>1. t * q = 0
      BY <2>1
    <3> QED
      BY <1>1, <3>1
  <2> QED
    BY <2>1
<1> QED
  BY <1>1, <1>2 DEF q

\* Safe mode leaves at least one thread, and what it leaves fits.
LEMMA SafelyFits ==
    ASSUME NEW machine \in Machines, NEW most \in Nat \ {0}, NEW threads \in Nat \ {0},
           NEW factor \in Nat, factor <= MaxHashBlocks
    PROVE  LET s == Safely(threads, factor, most, machine)
           IN  /\ s.threads \in Nat \ {0} /\ s.threads <= threads
               /\ s.threads <= most /\ s.threads <= machine.threads
               /\ s.factor \in 0 .. MaxHashBlocks
               /\ s.threads * s.factor <= most
<1> DEFINE t == Min({threads, most, machine.threads})
           q == most \div t
           m == Min({q, most, MaxHashBlocks})
           f == IF factor > q THEN Max({m, 1}) ELSE factor
<1>1. machine.threads \in Nat \ {0} /\ MaxHashBlocks \in Nat \ {0}
  BY StartupAssumption, OptionsAssumption
<1>2. t \in Nat \ {0} /\ t <= threads /\ t <= most /\ t <= machine.threads
  <2>1. t \in {threads, most, machine.threads} /\ t <= threads /\ t <= most /\ t <= machine.threads
    <3>1. threads \in Int /\ most \in Int /\ machine.threads \in Int
      BY <1>1
    <3> QED
      BY <3>1, MinThree, Zenon
  <2> HIDE DEF t
  <2> QED
    BY <1>1, <2>1
<1> HIDE DEF t
<1>3. q \in Nat \ {0}
  BY <1>2, PartPositive
<1>4. f <= q /\ f \in 0 .. MaxHashBlocks
  <2> HIDE DEF q
  <2>1. m \in {q, most, MaxHashBlocks} /\ m <= q /\ m <= MaxHashBlocks
    <3>1. q \in Int /\ most \in Int /\ MaxHashBlocks \in Int
      BY <1>1, <1>3
    <3> QED
      BY <3>1, MinThree, Zenon
  <2>2. m \in Nat \ {0}
    BY <1>1, <1>3, <2>1
  <2> HIDE DEF m
  <2>3. Max({m, 1}) \in {m, 1} /\ Max({m, 1}) >= 1
    <3>1. m \in Int /\ 1 \in Int
      BY <2>2
    <3> QED
      BY <3>1, MinMax, Zenon
  <2>4. CASE factor > q
    BY <1>1, <1>3, <2>1, <2>2, <2>3, <2>4
  <2>5. CASE ~(factor > q)
    BY <1>1, <1>3, <2>5
  <2> QED
    BY <2>4, <2>5
<1>5. Safely(threads, factor, most, machine) = [threads |-> t, factor |-> f]
  BY DEF Safely, t
<1>6. t * f <= most
  <2> HIDE DEF f
  <2>1. f \in Nat /\ f <= most \div t
    BY <1>1, <1>4 DEF q
  <2> QED
    BY <1>2, <2>1, PartsFit
<1> HIDE DEF f
<1> QED
  BY <1>2, <1>4, <1>5, <1>6

\* Threads that are chosen fit next to each other, unless there is only one.
LEMMA ChosenThreadsFit ==
    ASSUME NEW machine \in Machines, NEW most \in Nat \ {0}, NEW factor \in Nat, NEW usage \in Nat,
           usage <= 100
    PROVE  LET n == ChooseThreads(factor, most, usage, machine)
           IN  /\ n \in Nat \ {0} /\ n <= machine.threads /\ n <= most
               /\ n = 1 \/ n * factor <= most
               /\ n <= Max({1, (machine.threads * usage) \div 100})
<1> DEFINE t == IF factor = 0 THEN Min({most, machine.threads})
                ELSE Min({most, machine.threads, most \div factor})
           share == (machine.threads * usage) \div 100
           u == IF usage < 100 THEN Min({t, share}) ELSE t
           n == Max({u, 1})
<1>1. machine.threads \in Nat \ {0}
  BY StartupAssumption
<1>2. t \in Nat /\ t <= most /\ t <= machine.threads /\ (factor # 0 => t <= most \div factor)
  <2>1. CASE factor = 0
    <3>1. t = Min({most, machine.threads})
      BY <2>1
    <3> HIDE DEF t
    <3>2. t \in {most, machine.threads} /\ t <= most /\ t <= machine.threads
      <4>1. most \in Int /\ machine.threads \in Int
        BY <1>1
      <4> QED
        BY <3>1, <4>1, MinMax, Zenon
    <3> QED
      BY <1>1, <2>1, <3>2
  <2>2. CASE factor # 0
    <3> DEFINE q == most \div factor
    <3>1. q \in Nat
      BY <2>2, DivBounds
    <3>2. t = Min({most, machine.threads, q})
      BY <2>2
    <3> HIDE DEF t, q
    <3>3. t \in {most, machine.threads, q} /\ t <= most /\ t <= machine.threads /\ t <= q
      <4>1. most \in Int /\ machine.threads \in Int /\ q \in Int
        BY <1>1, <3>1
      <4> QED
        BY <3>2, <4>1, MinThree, Zenon
    <3> QED
      BY <1>1, <3>1, <3>3 DEF q
  <2> QED
    BY <2>1, <2>2
<1>3. share \in Nat /\ (usage = 100 => share = machine.threads)
  <2>1. machine.threads * usage \in Nat
    BY <1>1
  <2>2. share \in Nat
    BY <2>1, DivBounds
  <2>3. ASSUME usage = 100 PROVE share = machine.threads
    <3>1. \A k \in Nat : (k * 100) \div 100 = k
      BY SMT
    <3> QED
      BY <1>1, <2>3, <3>1
  <2> QED
    BY <2>2, <2>3
<1> HIDE DEF t, share
<1>4. u \in Nat /\ u <= t /\ u <= share
  <2>1. CASE usage < 100
    <3>1. Min({t, share}) \in {t, share} /\ Min({t, share}) <= t /\ Min({t, share}) <= share
      <4>1. t \in Int /\ share \in Int
        BY <1>2, <1>3
      <4> QED
        BY <4>1, MinMax, Zenon
    <3> QED
      BY <1>2, <1>3, <2>1, <3>1
  <2>2. CASE ~(usage < 100)
    BY <1>1, <1>2, <1>3, <2>2
  <2> QED
    BY <2>1, <2>2
<1> HIDE DEF u
<1>5. n \in {u, 1} /\ n >= u /\ n >= 1
  <2>1. u \in Int /\ 1 \in Int
    BY <1>4
  <2> QED
    BY <2>1, MinMax, Zenon
<1>6. Max({1, share}) >= 1 /\ Max({1, share}) >= share /\ Max({1, share}) \in {1, share}
  <2>1. 1 \in Int /\ share \in Int
    BY <1>3
  <2> QED
    BY <2>1, MinMax, Zenon
<1> HIDE DEF n
<1>7. n \in Nat \ {0} /\ n <= machine.threads /\ n <= most
  BY <1>1, <1>2, <1>4, <1>5
<1>8. n <= Max({1, share})
  <2> DEFINE m == Max({1, share})
  <2>1. m \in Nat
    BY <1>3, <1>6
  <2> HIDE DEF m
  <2> QED
    BY <1>3, <1>4, <1>5, <1>6, <2>1 DEF m
<1>9. n = 1 \/ n * factor <= most
  <2>1. CASE factor = 0
    BY <1>7, <2>1
  <2>2. CASE factor # 0 /\ n # 1
    <3>1. n = u /\ n <= t
      BY <1>4, <1>5, <2>2
    <3>2. n <= most \div factor
      <4>1. most \div factor \in Nat
        BY <2>2, DivBounds
      <4> QED
        BY <1>2, <1>7, <2>2, <3>1, <4>1
    <3>3. factor * n <= most
      BY <1>7, <2>2, <3>2, PartsFit
    <3> QED
      BY <1>7, <3>3
  <2> QED
    BY <2>1, <2>2
<1>10. ChooseThreads(factor, most, usage, machine) = n
  BY DEF ChooseThreads, n, u, t, share
<1> QED
  BY <1>7, <1>8, <1>9, <1>10 DEF share

\* So do the hashes per thread that are chosen.
LEMMA ChosenFactorFits ==
    ASSUME NEW most \in Nat \ {0}, NEW threads \in Nat \ {0}
    PROVE  LET f == ChooseFactor(threads, most)
           IN  /\ f \in 1 .. MaxHashBlocks
               /\ f = 1 \/ threads * f <= most
               /\ threads <= most => threads * f <= most
<1> DEFINE q == most \div threads
           m == Min({most, MaxHashBlocks, q})
           f == Max({m, 1})
<1>1. MaxHashBlocks \in Nat \ {0}
  BY OptionsAssumption
<1>2. q \in Nat
  BY DivBounds
<1>3. threads <= most => q # 0
  BY PartPositive
<1>4. \A k \in Nat : k <= q => threads * k <= most
  BY PartsFit
<1>5. ChooseFactor(threads, most) = f
  BY DEF ChooseFactor
<1> HIDE DEF q
<1>6. m \in {most, MaxHashBlocks, q} /\ m <= most /\ m <= MaxHashBlocks /\ m <= q
  <2>1. most \in Int /\ MaxHashBlocks \in Int /\ q \in Int
    BY <1>1, <1>2
  <2> QED
    BY <2>1, MinThree, Zenon
<1>7. m \in Nat
  BY <1>1, <1>2, <1>6
<1> HIDE DEF m
<1>8. f \in {m, 1} /\ f >= m /\ f >= 1
  <2>1. m \in Int /\ 1 \in Int
    BY <1>7
  <2> QED
    BY <2>1, MinMax, Zenon
<1> HIDE DEF f
<1>9. f \in 1 .. MaxHashBlocks
  BY <1>1, <1>6, <1>7, <1>8
<1>10. f = 1 \/ threads * f <= most
  BY <1>4, <1>6, <1>7, <1>8
<1>11. ASSUME threads <= most PROVE threads * f <= most
  <2>1. f <= q
    BY <1>2, <1>3, <1>6, <1>7, <1>8, <1>11
  <2> QED
    BY <1>4, <1>9, <2>1
<1> QED
  BY <1>5, <1>9, <1>10, <1>11

\* What is not chosen is 0.
LEMMA DefaultNumbers ==
    /\ Defaults["aesni"] = 0 /\ Defaults["multihash-factor"] = 0 /\ Defaults["threads"] = 0
    /\ Defaults["max-cpu-usage"] = 75
<1>1. {"aesni", "multihash-factor", "threads", "max-cpu-usage"} \subseteq Numbers
  BY NumberNames
<1>2. \A name \in {"aesni", "multihash-factor", "threads", "max-cpu-usage"} :
          name \in OptionNames /\ name \notin Texts \cup Flags \cup Masks
  BY <1>1, NamesDiffer DEF OptionNames, Masks
<1> QED
  BY <1>2, Zenon DEF Defaults

\* The settings that the number of threads depends on.
LEMMA SettingsTyped ==
    ASSUME NEW machine, NEW x \in OptionSet(machine)
    PROVE  /\ x["threads"] \in Nat
           /\ x["threads"] <= 1024 \/ x["threads"] <= machine.threads
           /\ x["multihash-factor"] \in Nat /\ x["multihash-factor"] <= MaxHashBlocks
           /\ x["max-cpu-usage"] \in Nat /\ x["max-cpu-usage"] <= 100
           /\ x["aesni"] \in {0, 1, 2}
           /\ x["safe"] \in BOOLEAN
<1>1. \A name \in {"aesni", "multihash-factor", "max-cpu-usage"} : NumberOK(name, x[name])
  BY NumberNames DEF OptionSet
<1>2. "safe" \in Flags
  BY DEF Flags
<1>3. x["safe"] \in BOOLEAN
  BY <1>2 DEF OptionSet
<1>a. \A name \in {"aesni", "multihash-factor", "max-cpu-usage"} :
          /\ x[name] \in Int
          /\ x[name] = Defaults[name] \/ x[name] \in Limits[name].low .. Limits[name].high
  BY <1>1 DEF NumberOK, Masks
<1>4. x["aesni"] \in {0, 1, 2}
  BY <1>a, DefaultNumbers, LimitsFacts
<1>5. x["multihash-factor"] \in Nat /\ x["multihash-factor"] <= MaxHashBlocks
  BY <1>a, DefaultNumbers, LimitsFacts, OptionsAssumption
<1>6. x["max-cpu-usage"] \in Nat /\ x["max-cpu-usage"] <= 100
  BY <1>a, DefaultNumbers, LimitsFacts
<1>7. x["threads"] \in Nat /\ (x["threads"] <= 1024 \/ x["threads"] <= machine.threads)
  BY DEF OptionSet
<1> QED
  BY <1>3, <1>4, <1>5, <1>6, <1>7

\* Setting a factor and an AES variant that there are.
LEMMA KernelTyped ==
    ASSUME NEW machine, NEW x \in OptionSet(machine),
           NEW f \in Nat, f <= MaxHashBlocks, NEW a \in {0, 1, 2}
    PROVE  /\ [x EXCEPT !["multihash-factor"] = f] \in OptionSet(machine)
           /\ [x EXCEPT !["aesni"] = a] \in OptionSet(machine)
<1>1. {"aesni", "multihash-factor"} \subseteq Numbers \ {"threads"}
  BY NumberNames
<1>2. \A name \in {"aesni", "multihash-factor"} :
          name \in OptionNames /\ name \notin Texts \cup Flags \cup {"algo", "cc-host", "pools"}
  BY <1>1, NamesDiffer DEF OptionNames
<1>3. NumberOK("multihash-factor", f)
  BY LimitsFacts, OptionsAssumption DEF NumberOK
<1>4. NumberOK("aesni", a)
  BY LimitsFacts DEF NumberOK
<1>5. [x EXCEPT !["multihash-factor"] = f] \in OptionSet(machine)
  BY <1>1, <1>2, <1>3, SetTyped
<1>6. [x EXCEPT !["aesni"] = a] \in OptionSet(machine)
  BY <1>1, <1>2, <1>4, SetTyped
<1> QED
  BY <1>5, <1>6

\* What the variant and the processor settle leaves the rest as it is.
LEMMA ChosenTyped ==
    ASSUME NEW machine, NEW x \in OptionSet(machine)
    PROVE  LET y == FromCpu(FromVariant(x), machine)
           IN  /\ y \in OptionSet(machine)
               /\ y["aesni"] \in {1, 2}
               /\ y["pools"] = x["pools"]
<1> DEFINE factor == CASE x["av"] \in {1, 3} -> 1 [] x["av"] \in {2, 4} -> 2
                       [] OTHER -> x["multihash-factor"]
           aesni  == CASE x["av"] \in {1, 2} -> 1 [] x["av"] \in {3, 4} -> 2 [] OTHER -> x["aesni"]
           f == IF x["multihash-factor"] = 0 THEN factor ELSE x["multihash-factor"]
           a == IF x["aesni"] = 0 THEN aesni ELSE x["aesni"]
           u == [x EXCEPT !["multihash-factor"] = f]
           v == [u EXCEPT !["aesni"] = a]
           b == IF a = 0 \/ v["safe"] THEN (IF machine.aes THEN 1 ELSE 2) ELSE a
<1>1. /\ x["multihash-factor"] \in Nat /\ x["multihash-factor"] <= MaxHashBlocks
      /\ x["aesni"] \in {0, 1, 2} /\ DOMAIN x = OptionNames
  BY SettingsTyped DEF OptionSet
<1>2. "multihash-factor" \in OptionNames /\ "aesni" \in OptionNames /\ "pools" \in OptionNames
  BY NumberNames DEF OptionNames
<1>3. factor \in Nat /\ factor <= MaxHashBlocks
  BY <1>1, OptionsAssumption
<1>4. aesni \in {0, 1, 2}
  BY <1>1
<1> HIDE DEF factor, aesni
<1>5. f \in Nat /\ f <= MaxHashBlocks /\ a \in {0, 1, 2}
  BY <1>1, <1>3, <1>4
<1>6. DOMAIN u = OptionNames /\ u["aesni"] = x["aesni"] /\ u["pools"] = x["pools"]
  BY <1>1, <1>2
<1>7. FromVariant(x) = v
  BY <1>1, <1>2 DEF FromVariant, factor, aesni
<1> HIDE DEF f, a
<1>8. DOMAIN v = OptionNames /\ v["aesni"] = a /\ v["pools"] = x["pools"]
  BY <1>2, <1>6
<1>9. u \in OptionSet(machine)
  BY <1>5, KernelTyped
<1> HIDE DEF u
<1>10. v \in OptionSet(machine)
  BY <1>5, <1>9, KernelTyped
<1> HIDE DEF v
<1>11. FromCpu(v, machine) = [v EXCEPT !["aesni"] = b]
  BY <1>8 DEF FromCpu
<1>12. b \in {1, 2}
  BY <1>5
<1> HIDE DEF b
<1>13. [v EXCEPT !["aesni"] = b] \in OptionSet(machine)
  BY <1>5, <1>10, <1>12, KernelTyped
<1>14. [v EXCEPT !["aesni"] = b]["aesni"] = b /\ [v EXCEPT !["aesni"] = b]["pools"] = x["pools"]
  BY <1>2, <1>8
<1> QED
  BY <1>7, <1>11, <1>12, <1>13, <1>14

\* Hosts with settings of their own keep their hosts and users.
LEMMA ExceptionsTyped ==
    ASSUME NEW url \in Url
    PROVE  /\ applyExceptions(url) \in Url
           /\ applyExceptions(url).host = url.host
           /\ applyExceptions(url).user = url.user
           /\ applyExceptions(url).port = url.port
<1>1. applyExceptions(url) \in {url, [url EXCEPT !.keepAlive = FALSE, !.nicehash = TRUE],
                                [url EXCEPT !.keepAlive = FALSE]}
  BY DEF applyExceptions
<1>2. \A other \in {url, [url EXCEPT !.keepAlive = FALSE, !.nicehash = TRUE],
                    [url EXCEPT !.keepAlive = FALSE]} :
          /\ other \in Url
          /\ other.host = url.host /\ other.user = url.user /\ other.port = url.port
  BY DEF Url
<1> QED
  BY <1>1, <1>2

Excepted(pools) == [i \in DOMAIN pools |-> applyExceptions(pools[i])]

\* So the pools with these settings are pools still, and as many.
LEMMA ExceptedTyped ==
    ASSUME NEW machine, NEW x \in OptionSet(machine)
    PROVE  /\ [x EXCEPT !["pools"] = Excepted(x["pools"])] \in OptionSet(machine)
           /\ Len(Excepted(x["pools"])) = Len(x["pools"])
<1>1. x["pools"] \in Seq(Url) /\ Len(x["pools"]) > 0
  BY DEF OptionSet
<1>2. \A i \in DOMAIN x["pools"] : applyExceptions(x["pools"][i]) \in Url
  BY <1>1, ExceptionsTyped
<1>3. Excepted(x["pools"]) \in Seq(Url) /\ Len(Excepted(x["pools"])) = Len(x["pools"])
  BY <1>1, <1>2 DEF Excepted
<1>4. "pools" \in OptionNames /\ "pools" \notin Numbers \cup Flags \cup Texts
  BY NamesDiffer DEF OptionNames
<1> QED
  BY <1>1, <1>3, <1>4, SetTyped

(***************************************************************************)
(* What optimizeParameters chooses, and what that has to do with what it   *)
(* was given.                                                              *)
(***************************************************************************)
Optimal(n, f, g, machine) ==
    LET most  == Reasonable(g, machine)
        asked == {g["threads"], g["multihash-factor"]}
    IN  /\ n \in Nat \ {0} /\ f \in 1 .. MaxHashBlocks
        /\ n <= 1024 \/ n <= machine.threads
        /\ g["safe"] => n * f <= most /\ n <= machine.threads
        /\ 0 \in asked => n * f <= Max(asked \cup {most})
        /\ g["threads"] = 0 => n <= Max({1, (machine.threads * g["max-cpu-usage"]) \div 100})

With(g, n, f) == [g EXCEPT !["threads"] = n, !["multihash-factor"] = f]

\* Where nothing is divided by zero, what optimizeParameters sets is optimal.
LEMMA Optimized ==
    ASSUME NEW machine \in Machines, NEW g \in OptionSet(machine), ~DividesByZero(g, machine)
    PROVE  \E n, f : /\ Optimal(n, f, g, machine)
                     /\ optimizeParameters(g, machine) = With(g, n, f)
<1> DEFINE most == Reasonable(g, machine)
           factor == Min({g["multihash-factor"], MaxHashBlocks})
           s == IF g["safe"] THEN Safely(g["threads"], factor, most, machine)
                ELSE [threads |-> g["threads"], factor |-> factor]
           n == IF s.threads = 0
                THEN ChooseThreads(s.factor, most, g["max-cpu-usage"], machine) ELSE s.threads
           f == IF s.factor = 0 THEN ChooseFactor(n, most) ELSE s.factor
           asked == {g["threads"], g["multihash-factor"]}
           share == (machine.threads * g["max-cpu-usage"]) \div 100
<1>1. /\ g["threads"] \in Nat /\ (g["threads"] <= 1024 \/ g["threads"] <= machine.threads)
      /\ g["multihash-factor"] \in Nat /\ g["multihash-factor"] <= MaxHashBlocks
      /\ g["max-cpu-usage"] \in Nat /\ g["max-cpu-usage"] <= 100 /\ g["safe"] \in BOOLEAN
  BY SettingsTyped
<1>2. machine.threads \in Nat \ {0} /\ MaxHashBlocks \in Nat \ {0}
  BY StartupAssumption, OptionsAssumption
<1>3. most \in Nat \ {0}
  BY ReasonableOK
<1>4. factor = g["multihash-factor"]
  <2>1. g["multihash-factor"] \in Int /\ MaxHashBlocks \in Int
    BY <1>1, <1>2
  <2>2. factor \in {g["multihash-factor"], MaxHashBlocks} /\ factor <= g["multihash-factor"]
        /\ factor <= MaxHashBlocks
    BY <2>1, MinMax, Zenon
  <2> HIDE DEF factor
  <2> QED
    BY <1>1, <1>2, <2>2
<1>5. optimizeParameters(g, machine) = With(g, n, f)
  BY DEF optimizeParameters, With
<1> HIDE DEF most, factor
<1>6. g["safe"] => g["threads"] # 0
  BY <1>2 DEF DividesByZero
<1>7. /\ s.threads \in Nat /\ (s.threads <= 1024 \/ s.threads <= machine.threads)
      /\ s.factor \in Nat /\ s.factor <= MaxHashBlocks
      /\ g["safe"] => /\ s.threads # 0 /\ s.threads <= machine.threads /\ s.threads <= most
                      /\ s.threads * s.factor <= most
      /\ ~g["safe"] => s.threads = g["threads"] /\ s.factor = g["multihash-factor"]
  <2>1. CASE g["safe"]
    <3> DEFINE r == Safely(g["threads"], factor, most, machine)
    <3>1. g["threads"] \in Nat \ {0} /\ factor \in Nat /\ factor <= MaxHashBlocks
      BY <1>1, <1>4, <1>6, <2>1
    <3>2. /\ r.threads \in Nat \ {0} /\ r.threads <= g["threads"]
          /\ r.threads <= most /\ r.threads <= machine.threads
          /\ r.factor \in 0 .. MaxHashBlocks
          /\ r.threads * r.factor <= most
      BY <1>3, <3>1, SafelyFits, Zenon
    <3>3. s = r
      BY <2>1
    <3> HIDE DEF r, s
    <3> QED
      BY <1>1, <1>2, <2>1, <3>2, <3>3
  <2>2. CASE ~g["safe"]
    <3>1. s = [threads |-> g["threads"], factor |-> factor]
      BY <2>2
    <3> HIDE DEF s
    <3> QED
      BY <1>1, <1>4, <2>2, <3>1
  <2> QED
    BY <2>1, <2>2
<1> HIDE DEF s
<1>8. CASE s.threads # 0
  <2>1. n = s.threads
    BY <1>8
  <2> HIDE DEF n
  <2>2. n \in Nat \ {0}
    BY <1>7, <1>8, <2>1
  <2>3. /\ ChooseFactor(n, most) \in 1 .. MaxHashBlocks
        /\ ChooseFactor(n, most) = 1 \/ n * ChooseFactor(n, most) <= most
        /\ n <= most => n * ChooseFactor(n, most) <= most
    BY <1>3, <2>2, ChosenFactorFits
  <2>4. f \in 1 .. MaxHashBlocks
    BY <1>7, <2>3
  <2>5. g["safe"] => n * f <= most /\ n <= machine.threads
    BY <1>7, <2>1, <2>3
  <2>6. ASSUME 0 \in asked PROVE n * f <= Max(asked \cup {most})
    <3>1. g["threads"] \in Int /\ g["multihash-factor"] \in Int /\ most \in Int
      BY <1>1, <1>3
    <3>2. /\ Max(asked \cup {most}) \in {g["threads"], g["multihash-factor"], most}
          /\ Max(asked \cup {most}) >= g["threads"] /\ Max(asked \cup {most}) >= most
      BY <3>1, MaxThree, Zenon
    <3> DEFINE m == Max(asked \cup {most})
    <3>3. m \in Nat /\ m >= most /\ m >= g["threads"]
      BY <1>1, <1>3, <3>2
    <3> HIDE DEF m
    <3>4. CASE g["safe"]
      <4> DEFINE p == n * f
      <4>1. f \in Nat
        BY <2>4
      <4>2. p \in Nat
        BY <2>2, <4>1
      <4>3. p <= most
        BY <2>5, <3>4
      <4> HIDE DEF p
      <4>4. p <= m
        BY <1>3, <3>3, <4>2, <4>3
      <4> QED
        BY <4>4 DEF m, p
    <3>5. CASE ~g["safe"]
      <4>0. s.threads = g["threads"] /\ s.factor = g["multihash-factor"]
        BY <1>7, <3>5
      <4>1. n = g["threads"] /\ s.factor = 0
        BY <1>8, <2>1, <2>6, <4>0, Zenon
      <4>2. f = ChooseFactor(n, most)
        BY <4>1
      <4> HIDE DEF f
      <4>3. CASE f = 1
        BY <2>2, <3>3, <4>1, <4>3 DEF m
      <4>4. CASE n * f <= most
        BY <1>3, <2>2, <2>4, <3>3, <4>4 DEF m
      <4> QED
        BY <2>3, <4>2, <4>3, <4>4
    <3> QED
      BY <1>1, <3>4, <3>5
  <2>7. g["threads"] # 0
    BY <1>1, <1>6, <1>7, <1>8
  <2> HIDE DEF f
  <2>8. n <= 1024 \/ n <= machine.threads
    BY <1>7, <2>1
  <2>9. Optimal(n, f, g, machine)
    BY <2>2, <2>4, <2>5, <2>6, <2>7, <2>8, Zenon DEF Optimal, most
  <2> QED
    BY <1>5, <2>9
<1>9. CASE s.threads = 0
  <2>1. ~g["safe"] /\ g["threads"] = 0 /\ s.factor = g["multihash-factor"]
    BY <1>1, <1>7, <1>9
  <2>2. n = ChooseThreads(s.factor, most, g["max-cpu-usage"], machine)
    BY <1>9
  <2>3. /\ n \in Nat \ {0} /\ n <= machine.threads /\ n <= most
        /\ n = 1 \/ n * s.factor <= most
        /\ n <= Max({1, share})
    <3> HIDE DEF n
    <3> QED
      BY <1>1, <1>3, <1>7, <2>2, ChosenThreadsFit
  <2> HIDE DEF n
  <2>4. /\ ChooseFactor(n, most) \in 1 .. MaxHashBlocks
        /\ n <= most => n * ChooseFactor(n, most) <= most
    BY <1>3, <2>3, ChosenFactorFits
  <2>5. f \in 1 .. MaxHashBlocks
    BY <1>7, <2>4
  <2>6. n * f <= Max(asked \cup {most})
    <3>1. g["threads"] \in Int /\ g["multihash-factor"] \in Int /\ most \in Int
      BY <1>1, <1>3
    <3>2. /\ Max(asked \cup {most}) \in {g["threads"], g["multihash-factor"], most}
          /\ Max(asked \cup {most}) >= g["multihash-factor"] /\ Max(asked \cup {most}) >= most
      BY <3>1, MaxThree, Zenon
    <3> DEFINE m == Max(asked \cup {most})
    <3>3. m \in Nat /\ m >= most /\ m >= g["multihash-factor"]
      BY <1>1, <1>3, <3>2
    <3> HIDE DEF m
    <3>4. ASSUME s.factor = 0 PROVE n * f <= m
      <4>1. n * f <= most
        BY <2>3, <2>4, <3>4
      <4> HIDE DEF f
      <4> QED
        BY <1>3, <2>3, <2>5, <3>3, <4>1
    <3>5. ASSUME s.factor # 0 PROVE n * f <= m
      <4>1. f = s.factor
        BY <3>5
      <4> HIDE DEF f
      <4>2. CASE n = 1
        BY <1>1, <2>1, <2>5, <3>3, <4>1, <4>2
      <4>3. CASE n * f <= most
        BY <1>3, <2>3, <2>5, <3>3, <4>3
      <4> QED
        BY <2>3, <4>1, <4>2, <4>3
    <3>6. n * f <= m
      BY <3>4, <3>5
    <3> QED
      BY <3>6 DEF m
  <2> HIDE DEF f
  <2>7. Optimal(n, f, g, machine)
    BY <2>1, <2>3, <2>5, <2>6, Zenon DEF Optimal, most
  <2> QED
    BY <1>5, <2>7
<1> QED
  BY <1>8, <1>9

\* Options that are completed are options still.
LEMMA OptimizedTyped ==
    ASSUME NEW machine \in Machines, NEW g \in OptionSet(machine), NEW n, NEW f,
           Optimal(n, f, g, machine)
    PROVE  With(g, n, f) \in OptionSet(machine)
<1> DEFINE h == [g EXCEPT !["multihash-factor"] = f]
<1>1. /\ n \in Nat \ {0} /\ f \in 1 .. MaxHashBlocks
      /\ n <= 1024 \/ n <= machine.threads
  BY DEF Optimal
<1>2. f \in Nat /\ f <= MaxHashBlocks
  BY <1>1, OptionsAssumption
<1>3. {"threads", "multihash-factor"} \subseteq Numbers
  BY NumberNames
<1>4. \A name \in {"threads", "multihash-factor"} :
          name \in OptionNames /\ name \notin Texts \cup Flags \cup {"algo", "cc-host", "pools"}
  BY <1>3, NamesDiffer DEF OptionNames
<1>5. h \in OptionSet(machine)
  BY <1>2, KernelTyped
<1>6. [h EXCEPT !["threads"] = n] \in OptionSet(machine)
  <2> HIDE DEF h
  <2> QED
    BY <1>1, <1>3, <1>4, <1>5, SetTyped
<1>7. DOMAIN g = OptionNames
  BY DEF OptionSet
<1>8. With(g, n, f) = [h EXCEPT !["threads"] = n]
  BY <1>4, <1>7 DEF With
<1> QED
  BY <1>6, <1>8, Zenon

-----------------------------------------------------------------------------
(* What threads need, as functions of the options *)

Factor(x, i) ==
    IF All(x["multihash-thread-mask"]) \/ Bit(x["multihash-thread-mask"], i)
    THEN x["multihash-factor"] ELSE 1

Bytes(x, i) == CtxSize + BlockSize(x["algo"]) * Factor(x, i)

Total(x, n) ==
    LET sum[k \in 0 .. n] == IF k = 0 THEN 0 ELSE sum[k - 1] + Bytes(x, k - 1)
    IN  sum[n]

\* The definitions of the specification, applied to the current options.
LEMMA SizesNow ==
    /\ SumOfSizes(o["threads"]) = Total(o, o["threads"])
    /\ \A i : getThreadHashFactor(i) = Factor(o, i) /\ SizeOf(i) = Bytes(o, i)
    /\ \A i : create(i).ctx = Total(o, i) /\ create(i).memory = Total(o, i) + CtxSize
<1>1. \A i : getThreadHashFactor(i) = Factor(o, i)
  BY Zenon DEF getThreadHashFactor, Factor
<1>2. \A i : SizeOf(i) = Bytes(o, i)
  BY Zenon DEF getThreadHashFactor, Factor, SizeOf, Bytes
<1>3. \A n : SumOfSizes(n) = Total(o, n)
  BY Zenon DEF getThreadHashFactor, Factor, SizeOf, Bytes, SumOfSizes, Total
<1>4. \A i : create(i) = [ctx |-> SumOfSizes(i), memory |-> SumOfSizes(i) + CtxSize]
  BY Zenon DEF create
<1>5. \A i : create(i) = [ctx |-> Total(o, i), memory |-> Total(o, i) + CtxSize]
  BY <1>3, <1>4, Zenon
<1>6. \A i : create(i).ctx = Total(o, i) /\ create(i).memory = Total(o, i) + CtxSize
  BY <1>5
<1> QED
  BY <1>1, <1>2, <1>3, <1>6, Zenon

\* And to the next ones.
LEMMA SizesNext == SumOfSizes(o["threads"])' = Total(o', o'["threads"])
BY Zenon DEF getThreadHashFactor, Factor, SizeOf, Bytes, SumOfSizes, Total

-----------------------------------------------------------------------------
(* The invariant *)

Completed(g, x, machine) ==
    /\ g["aesni"] \in {1, 2}
    /\ Optimal(x["threads"], x["multihash-factor"], g, machine)
    /\ \A name \in OptionNames \ {"threads", "multihash-factor", "pools"} : x[name] = g[name]

IInv ==
    /\ phase \in {"args", "failed", "crashed", "ready", "allocated", "running", "exited"}
    /\ cpu \in Machines
    /\ o \in OptionSet(cpu)
    /\ Settled => Completed(given, o, cpu)
    /\ phase \in {"allocated", "running"} => mem.size = SumOfSizes(o["threads"])

\* The program starts with the constructor's initial values.
LEMMA InitIInv == Init => IInv
<1> SUFFICES ASSUME Init PROVE IInv
  OBVIOUS
<1>1. cpu \in Machines /\ phase = "args"
  BY DEF Init
<1>2. Defaults \in OptionSet(cpu)
  BY <1>1, DefaultsTyped
<1>3. [Defaults EXCEPT !["daemonized"] = TRUE] \in OptionSet(cpu)
  <2>1. "daemonized" \in Flags
    BY DEF Flags
  <2>2. /\ "daemonized" \in OptionNames /\ "daemonized" \notin Numbers \cup Texts
        /\ "daemonized" \notin {"algo", "cc-host", "pools", "threads"}
    BY <2>1, NamesDiffer, NumberNames DEF OptionNames
  <2> QED
    BY <1>2, <2>1, <2>2, SetTyped
<1>4. o \in OptionSet(cpu)
  BY <1>2, <1>3 DEF Init
<1> QED
  BY <1>1, <1>4 DEF IInv, Settled

\* The end of the constructor completes the options, or crashes.
LEMMA FinishIInv ==
    ASSUME NEW x \in OptionSet(cpu), cpu \in Machines, Finish(x), cpu' = cpu
    PROVE  IInv'
<1> DEFINE chosen == FromCpu(FromVariant(x), cpu)
           best == optimizeParameters(chosen, cpu)
<1>1. chosen \in OptionSet(cpu) /\ chosen["aesni"] \in {1, 2}
  BY ChosenTyped
<1>2. cpu' \in Machines
  OBVIOUS
<1>3. CASE ~isValid(x["pools"][1]) /\ (x["cc-host"] = NoHost \/ x["cc-port"] = 0)
  <2>1. phase' = "failed" /\ o' = x
    BY <1>3 DEF Finish
  <2>2. o' \in OptionSet(cpu')
    BY <2>1
  <2> QED
    BY <1>2, <2>1, <2>2 DEF IInv, Settled
<1>4. CASE ~(~isValid(x["pools"][1]) /\ (x["cc-host"] = NoHost \/ x["cc-port"] = 0))
  <2>1. /\ given' = chosen
        /\ IF DividesByZero(chosen, cpu)
           THEN phase' = "crashed" /\ o' = chosen
           ELSE phase' = "ready" /\ o' = [best EXCEPT !["pools"] = Excepted(best["pools"])]
    BY <1>4, Zenon DEF Finish, Excepted
  <2> HIDE DEF chosen
  <2>2. CASE DividesByZero(chosen, cpu)
    <3>1. phase' = "crashed" /\ o' = chosen /\ given' = chosen
      BY <2>1, <2>2
    <3>2. o' \in OptionSet(cpu')
      BY <1>1, <3>1
    <3> QED
      BY <1>2, <3>1, <3>2 DEF IInv, Settled
  <2>3. CASE ~DividesByZero(chosen, cpu)
    <3>1. PICK n, f : Optimal(n, f, chosen, cpu) /\ best = With(chosen, n, f)
      BY <1>1, <2>3, Optimized
    <3>2. /\ best \in OptionSet(cpu) /\ best["threads"] = n /\ best["multihash-factor"] = f
          /\ \A name \in OptionNames \ {"threads", "multihash-factor"} : best[name] = chosen[name]
      <4> HIDE DEF best
      <4>1. Optimal(n, f, chosen, cpu) /\ chosen \in OptionSet(cpu)
        BY <1>1, <3>1
      <4>2. best = With(chosen, n, f)
        BY <3>1
      <4>3. With(chosen, n, f) \in OptionSet(cpu)
        BY <4>1, OptimizedTyped, Zenon
      <4>4. DOMAIN chosen = OptionNames
        BY <4>1 DEF OptionSet
      <4>5. {"threads", "multihash-factor"} \subseteq OptionNames
        BY NumberNames DEF OptionNames
      <4>6. /\ best["threads"] = n /\ best["multihash-factor"] = f
            /\ \A name \in OptionNames \ {"threads", "multihash-factor"} : best[name] = chosen[name]
        BY <4>2, <4>4, <4>5 DEF With
      <4> QED
        BY <4>2, <4>3, <4>6, Zenon
    <3> HIDE DEF best
    <3> DEFINE y == [best EXCEPT !["pools"] = Excepted(best["pools"])]
    <3>3. y \in OptionSet(cpu)
      BY <3>2, ExceptedTyped
    <3>4. "pools" \in OptionNames /\ "pools" \notin {"threads", "multihash-factor"}
      BY DEF OptionNames
    <3>5. {"threads", "multihash-factor"} \subseteq OptionNames
      BY NumberNames DEF OptionNames
    <3>6. DOMAIN best = OptionNames
      BY <3>2 DEF OptionSet
    <3>7. \A name \in OptionNames \ {"pools"} : y[name] = best[name]
      BY <3>6
    <3>8. phase' = "ready" /\ o' = y /\ given' = chosen
      BY <2>1, <2>3
    <3> HIDE DEF y
    <3>9. Completed(chosen, y, cpu)
      BY <1>1, <3>1, <3>2, <3>4, <3>5, <3>7, Zenon DEF Completed
    <3>10. Completed(given, o, cpu)'
      BY <3>8, <3>9
    <3>11. o' \in OptionSet(cpu')
      BY <3>3, <3>8
    <3> QED
      BY <1>2, <3>8, <3>10, <3>11 DEF IInv, Settled
  <2> QED
    BY <2>2, <2>3
<1> QED
  BY <1>3, <1>4

\* Everything that changes neither options nor machine.
LEMMA KeptIInv ==
    ASSUME IInv, UNCHANGED <<cpu, o, given>>
    PROVE  /\ cpu' \in Machines /\ o' \in OptionSet(cpu')
           /\ Completed(given, o, cpu) => Completed(given, o, cpu)'
           /\ SumOfSizes(o["threads"])' = SumOfSizes(o["threads"])
<1>1. cpu' = cpu /\ o' = o /\ given' = given
  OBVIOUS
<1>2. cpu' \in Machines /\ o' \in OptionSet(cpu')
  BY <1>1 DEF IInv
<1>3. Completed(given, o, cpu) => Completed(given, o, cpu)'
  BY <1>1
<1>4. SumOfSizes(o["threads"])' = SumOfSizes(o["threads"])
  BY <1>1, SizesNow, SizesNext
<1> QED
  BY <1>2, <1>3, <1>4

\* Every step keeps the invariant.
LEMMA NextIInv == IInv /\ [Next]_vars => IInv'
<1> SUFFICES ASSUME IInv, [Next]_vars PROVE IInv'
  OBVIOUS
<1>0. cpu \in Machines /\ o \in OptionSet(cpu)
  BY DEF IInv
<1>1. ASSUME NEW arg \in Args, parse(arg) PROVE IInv'
  <2>1. /\ o' = parseArg(o, arg, cpu).o /\ cpu' = cpu
        /\ phase' \in {"args", "failed"}
    BY <1>1 DEF parse
  <2>2. o' \in OptionSet(cpu')
    BY <1>0, <2>1, ArgTyped
  <2> QED
    BY <1>0, <2>1, <2>2 DEF IInv, Settled
<1>2. CASE parse_NonOption
  <2>1. phase' = "failed" /\ UNCHANGED <<cpu, o, given>>
    BY <1>2 DEF parse_NonOption
  <2> QED
    BY <2>1, KeptIInv DEF IInv, Settled
<1>3. CASE construct
  <2>1. cpu' = cpu
    BY <1>3 DEF construct
  <2>2. CASE ~o["daemonized"]
    <3>1. phase' = "failed" /\ UNCHANGED o
      BY <1>3, <2>2 DEF construct
    <3>2. o' \in OptionSet(cpu')
      BY <1>0, <2>1, <3>1
    <3> QED
      BY <1>0, <2>1, <3>1, <3>2 DEF IInv, Settled
  <2>3. CASE o["daemonized"] /\ isValid(o["pools"][1])
    <3>1. Finish(o)
      BY <1>3, <2>3 DEF construct
    <3> QED
      BY <1>0, <2>1, <3>1, FinishIInv
  <2>4. CASE o["daemonized"] /\ ~isValid(o["pools"][1])
    <3>1. PICK file \in Files : Finish(parseConfig(o, file, cpu))
      BY <1>3, <2>4 DEF construct
    <3>2. parseConfig(o, file, cpu) \in OptionSet(cpu)
      BY <1>0, ConfigTyped, InputsAssumption
    <3> QED
      BY <1>0, <2>1, <3>1, <3>2, FinishIInv
  <2> QED
    BY <2>2, <2>3, <2>4
<1>4. CASE start_SelfTestFails
  <2>1. phase' = "failed" /\ UNCHANGED <<cpu, o, given>>
    BY <1>4 DEF start_SelfTestFails
  <2> QED
    BY <2>1, KeptIInv DEF IInv, Settled
<1>5. CASE start_Allocate
  <2>1. phase = "ready" /\ UNCHANGED <<cpu, o, given>>
    BY <1>5 DEF start_Allocate
  <2>2. Completed(given, o, cpu)'
    BY <2>1, KeptIInv DEF IInv, Settled
  <2>3. CASE \E i \in Threads : Throws(i)
    <3>1. phase' = "crashed"
      BY <1>5, <2>3 DEF start_Allocate
    <3> QED
      BY <2>1, <3>1, KeptIInv DEF IInv, Settled
  <2>4. CASE ~\E i \in Threads : Throws(i)
    <3>1. phase' = "allocated" /\ mem' \in Allocated(SumOfSizes(o["threads"]))
      BY <1>5, <2>4 DEF start_Allocate
    <3>2. mem'.size = SumOfSizes(o["threads"])
      BY <3>1 DEF Allocated, NoMemory
    <3> QED
      BY <2>1, <2>2, <3>1, <3>2, KeptIInv DEF IInv, Settled
  <2> QED
    BY <2>3, <2>4
<1>6. CASE start_Run
  <2>1. phase = "allocated" /\ phase' \in {"crashed", "running"} /\ UNCHANGED <<cpu, o, given, mem>>
    BY <1>6 DEF start_Run
  <2> QED
    BY <2>1, KeptIInv DEF IInv, Settled
<1>7. CASE start_Ends \/ destroy
  <2>1. phase' = "exited" /\ UNCHANGED <<cpu, o, given>>
    BY <1>7 DEF start_Ends, destroy
  <2> QED
    BY <2>1, KeptIInv DEF IInv, Settled
<1>8. CASE UNCHANGED vars
  <2>1. UNCHANGED <<phase, cpu, o, given, mem>>
    BY <1>8 DEF vars
  <2> QED
    BY <2>1, KeptIInv DEF IInv, Settled
<1> QED
  BY <1>1, <1>2, <1>3, <1>4, <1>5, <1>6, <1>7, <1>8 DEF Next

-----------------------------------------------------------------------------
(* Theorems *)

\* So it holds always.
LEMMA Invariance == Spec => []IInv
<1>1. Init => IInv
  BY InitIInv
<1>2. IInv /\ [Next]_vars => IInv'
  BY NextIInv
<1> QED
  BY <1>1, <1>2, PTL DEF Spec

(***************************************************************************)
(* The options are what their limits allow, from whatever arguments and    *)
(* files they came, and what was left automatic has been chosen            *)
(* (Options.cpp parseArg, Cpu.cpp optimizeParameters).                     *)
(***************************************************************************)
THEOREM TypeCorrect == Spec => []TypeOK
<1>1. ASSUME IInv PROVE TypeOK
  <2>1. /\ phase \in {"args", "failed", "crashed", "ready", "allocated", "running", "exited"}
        /\ cpu \in Machines
    BY <1>1 DEF IInv
  <2>2. ASSUME NEW name \in Numbers \ {"threads", "multihash-factor"}
        PROVE  \/ o[name] = Defaults[name]
               \/ name \in Masks /\ o[name] # 0 /\ o[name] \in -(LongMax + 1) .. LongMax
               \/ name = "cc-update-interval-s" /\ o[name] \in -(IntMax + 1) .. IntMax
               \/ /\ name \notin Masks \cup {"cc-update-interval-s"}
                  /\ o[name] \in Limits[name].low .. Limits[name].high
    <3>1. NumberOK(name, o[name])
      BY <1>1 DEF IInv, OptionSet
    <3> QED
      BY <3>1, Zenon DEF NumberOK
  <2>3. Len(o["pools"]) > 0
    BY <1>1 DEF IInv, OptionSet
  <2>4. ASSUME Settled PROVE o["threads"] > 0 /\ o["aesni"] \in {1, 2}
    <3>1. Completed(given, o, cpu)
      BY <1>1, <2>4 DEF IInv
    <3>2. o["threads"] \in Nat \ {0}
      BY <3>1 DEF Completed, Optimal
    <3>3. "aesni" \in OptionNames /\ "aesni" \notin {"threads", "multihash-factor", "pools"}
      BY NumberNames DEF OptionNames
    <3>4. o["aesni"] = given["aesni"]
      BY <3>1, <3>3, Zenon DEF Completed
    <3> QED
      BY <3>1, <3>2, <3>4 DEF Completed
  <2> QED
    BY <2>1, <2>2, <2>3, <2>4, Zenon DEF TypeOK
<1> QED
  BY <1>1, Invariance, PTL

(***************************************************************************)
(* The scratchpads fit, except those that were asked for explicitly, and   *)
(* automatic threads leave the share of the processor free that they were  *)
(* told to leave (Cpu.cpp optimizeParameters).                             *)
(***************************************************************************)
THEOREM FitsCacheHolds == Spec => []FitsCache
<1>1. ASSUME IInv PROVE FitsCache
  <2> SUFFICES ASSUME Settled
               PROVE  LET most  == Reasonable(o, cpu)
                          pads  == o["threads"] * o["multihash-factor"]
                          asked == {given["threads"], given["multihash-factor"]}
                      IN  /\ o["multihash-factor"] \in 1 .. MaxHashBlocks
                          /\ given["safe"] => pads <= most /\ o["threads"] <= cpu.threads
                          /\ 0 \in asked => pads <= Max(asked \cup {most})
                          /\ given["threads"] = 0 =>
                                 o["threads"] <= Max({1, (cpu.threads * o["max-cpu-usage"]) \div 100})
    BY DEF FitsCache
  <2>1. Completed(given, o, cpu)
    BY <1>1 DEF IInv
  <2>2. {"algo", "max-cpu-usage"} \subseteq OptionNames
    BY NumberNames DEF OptionNames
  <2>3. o["algo"] = given["algo"] /\ o["max-cpu-usage"] = given["max-cpu-usage"]
    BY <2>1, <2>2 DEF Completed
  <2>4. Reasonable(o, cpu) = Reasonable(given, cpu)
    BY <2>3, Zenon DEF Reasonable
  <2>5. Optimal(o["threads"], o["multihash-factor"], given, cpu)
    BY <2>1 DEF Completed
  <2> QED
    BY <2>3, <2>4, <2>5, Zenon DEF Optimal
<1> QED
  BY <1>1, Invariance, PTL

-----------------------------------------------------------------------------
(* Memory and nonces of the threads *)

IsSums(g, x, n) == g = [k \in 0 .. n |-> IF k = 0 THEN 0 ELSE g[k - 1] + Bytes(x, k - 1)]

Sums(x, n) == CHOOSE g : IsSums(g, x, n)

\* There are such sums, and they are what Total looks at.
LEMMA SumsExist ==
    ASSUME NEW x, NEW n \in Nat, \A k \in Nat : Bytes(x, k) \in Nat
    PROVE  IsSums(Sums(x, n), x, n) /\ Total(x, n) = Sums(x, n)[n]
<1> DEFINE S == [k \in 0 .. n |-> Nat]
           step == [k \in 1 .. n |-> [y \in Nat |-> y + Bytes(x, k - 1)]]
<1>1. \A k \in 1 .. n : \A y \in S[k - 1] : step[k][y] \in S[k]
  <2> SUFFICES ASSUME NEW k \in 1 .. n, NEW y \in Nat PROVE step[k][y] \in Nat
    OBVIOUS
  <2>1. k - 1 \in Nat /\ step[k][y] = y + Bytes(x, k - 1)
    OBVIOUS
  <2>2. Bytes(x, k - 1) \in Nat
    BY <2>1
  <2> QED
    BY <2>1, <2>2
<1>2. PICK g : Runs(g, n, S, 0, step)
  <2>1. 0 \in S[0]
    OBVIOUS
  <2> HIDE DEF S, step
  <2> QED
    BY <1>1, <2>1, Iteration, Zenon
<1>3. ASSUME NEW k \in 1 .. n PROVE g[k] = g[k - 1] + Bytes(x, k - 1)
  <2>1. k - 1 \in 0 .. n /\ S[k - 1] = Nat
    OBVIOUS
  <2>2. g[k - 1] \in Nat /\ g[k] = step[k][g[k - 1]]
    <3> HIDE DEF S, step
    <3> QED
      BY <1>2, <2>1 DEF Runs
  <2>3. \A y \in Nat : step[k][y] = y + Bytes(x, k - 1)
    OBVIOUS
  <2> QED
    BY <2>2, <2>3
<1> HIDE DEF S, step
<1>4. \A k \in 0 .. n : g[k] = IF k = 0 THEN 0 ELSE g[k - 1] + Bytes(x, k - 1)
  <2>1. \A k \in 0 .. n : k = 0 \/ k \in 1 .. n
    OBVIOUS
  <2>2. g[0] = 0
    BY <1>2 DEF Runs
  <2> QED
    BY <1>3, <2>1, <2>2
<1>5. g = [k \in 0 .. n |-> g[k]]
  BY <1>2 DEF Runs
<1>6. IsSums(g, x, n)
  BY <1>4, <1>5, Zenon DEF IsSums
<1>7. IsSums(Sums(x, n), x, n)
  BY <1>6, Zenon DEF Sums
<1>8. Total(x, n) = Sums(x, n)[n]
  BY Zenon DEF Total, Sums, IsSums
<1> QED
  BY <1>7, <1>8

\* The memory of the next thread begins where that of one ends.
LEMMA TotalGrows ==
    ASSUME NEW x, NEW n \in Nat, \A k \in Nat : Bytes(x, k) \in Nat
    PROVE  Total(x, n) \in Nat /\ Total(x, n + 1) = Total(x, n) + Bytes(x, n)
<1> DEFINE g == Sums(x, n)
           h == Sums(x, n + 1)
           P == {k \in 0 .. n : g[k] = h[k] /\ g[k] \in Nat}
<1>1. n + 1 \in Nat
  OBVIOUS
<1>2. /\ \A k \in 0 .. n : g[k] = IF k = 0 THEN 0 ELSE g[k - 1] + Bytes(x, k - 1)
      /\ Total(x, n) = g[n]
  <2>1. IsSums(g, x, n) /\ Total(x, n) = g[n]
    BY SumsExist
  <2> HIDE DEF g
  <2> QED
    BY <2>1 DEF IsSums
<1>3. /\ \A k \in 0 .. n + 1 : h[k] = IF k = 0 THEN 0 ELSE h[k - 1] + Bytes(x, k - 1)
      /\ Total(x, n + 1) = h[n + 1]
  <2>1. IsSums(h, x, n + 1) /\ Total(x, n + 1) = h[n + 1]
    BY <1>1, SumsExist
  <2> HIDE DEF h
  <2> QED
    BY <1>1, <2>1 DEF IsSums
<1> HIDE DEF g, h
<1>4. 0 \in P
  BY <1>2, <1>3
<1>5. ASSUME NEW k \in 1 .. n, k - 1 \in P PROVE k \in P
  <2>1. k \in 0 .. n /\ k \in 0 .. n + 1 /\ k # 0 /\ k - 1 \in Nat
    OBVIOUS
  <2>2. g[k] = g[k - 1] + Bytes(x, k - 1) /\ h[k] = h[k - 1] + Bytes(x, k - 1)
    BY <1>2, <1>3, <2>1
  <2>3. Bytes(x, k - 1) \in Nat
    BY <2>1
  <2> QED
    BY <1>5, <2>1, <2>2, <2>3
<1>6. n \in P
  <2> HIDE DEF P
  <2>1. \A k \in 0 .. n : k \in P
    BY <1>4, <1>5, Steps
  <2> QED
    BY <2>1
<1>7. n + 1 \in 0 .. n + 1 /\ n + 1 # 0 /\ (n + 1) - 1 = n
  OBVIOUS
<1>8. h[n + 1] = h[n] + Bytes(x, n)
  BY <1>3, <1>7
<1> QED
  BY <1>2, <1>3, <1>6, <1>8

\* Multiples of T have different remainders below it.
LEMMA LanesDiffer ==
    ASSUME NEW T \in Nat \ {0}, NEW a \in 0 .. T - 1, NEW b \in 0 .. T - 1, NEW i \in Nat, NEW j \in Nat,
           a + i * T = b + j * T
    PROVE  a = b /\ i = j
<1>1. CASE i < j
  <2>1. i + 1 <= j
    BY <1>1
  <2>2. (i + 1) * T <= j * T
    BY <2>1
  <2>3. (i + 1) * T = i * T + T
    OBVIOUS
  <2>4. i * T \in Nat /\ j * T \in Nat
    OBVIOUS
  <2> QED
    BY <2>2, <2>3, <2>4
<1>2. CASE j < i
  <2>1. j + 1 <= i
    BY <1>2
  <2>2. (j + 1) * T <= i * T
    BY <2>1
  <2>3. (j + 1) * T = j * T + T
    OBVIOUS
  <2>4. i * T \in Nat /\ j * T \in Nat
    OBVIOUS
  <2> QED
    BY <2>2, <2>3, <2>4
<1>3. CASE i = j
  <2>1. i * T \in Nat
    OBVIOUS
  <2> QED
    BY <1>3, <2>1
<1> QED
  BY <1>1, <1>2, <1>3

\* The k-th slice of W nonces from base on ends within max, and no nonce of it
\* is wrapped around in N.
LEMMA SliceEnds ==
    ASSUME NEW W \in Nat \ {0}, NEW n \in Nat, NEW max \in Nat, NEW base \in Nat,
           NEW N \in Nat, W * n <= max, base + max < N, NEW k \in Nat, k < n
    PROVE  /\ W * k \in Nat /\ base + W * k + W <= base + max
           /\ \A r \in 0 .. W : (base + W * k + r) % N = base + W * k + r
<1>1. W * (k + 1) <= W * n /\ W * (k + 1) = W * k + W /\ W * k \in Nat /\ W * n \in Nat
  <2>1. k + 1 <= n
    OBVIOUS
  <2> QED
    BY <2>1
<1> DEFINE p == W * k
           q == W * n
<1>2. p \in Nat /\ q \in Nat /\ p + W <= q /\ q <= max
  BY <1>1
<1> HIDE DEF p, q
<1>3. base + p + W <= base + max
  BY <1>2
<1>4. ASSUME NEW r \in 0 .. W PROVE (base + p + r) % N = base + p + r
  <2> DEFINE x == base + p + r
  <2>1. x \in Int /\ 0 <= x /\ x < N /\ N \in Nat \ {0} /\ x < 2 * N
    BY <1>2
  <2> HIDE DEF x
  <2>2. x % N = x
    BY <2>1, SmallRemainder
  <2> QED
    BY <2>2 DEF x
<1> QED
  BY <1>2, <1>3, <1>4 DEF p

\* Of two slices one ends before the other begins.
LEMMA SlicesApart ==
    ASSUME NEW W \in Nat \ {0}, NEW base \in Nat, NEW k \in Nat, NEW l \in Nat, k < l
    PROVE  base + W * k + W < base + W * l + 1
<1>1. W * (k + 1) <= W * l /\ W * (k + 1) = W * k + W /\ W * k \in Nat /\ W * l \in Nat
  <2>1. k + 1 <= l
    OBVIOUS
  <2> QED
    BY <2>1
<1> DEFINE p == W * k
           q == W * l
<1>2. p \in Nat /\ q \in Nat /\ p + W <= q
  BY <1>1
<1> HIDE DEF p, q
<1>3. base + p + W < base + q + 1
  BY <1>2
<1> QED
  BY <1>3 DEF p, q

\* Lanes of F hashes at most, for T threads: each has a number of its own
\* below T * F.
LEMMA LaneNumbers ==
    ASSUME NEW T \in Nat \ {0}, NEW F \in Nat, NEW a \in (0 .. T - 1) \X (0 .. F - 1)
    PROVE  /\ a[1] + a[2] * T \in Nat /\ a[1] + a[2] * T < T * F
           /\ \A b \in (0 .. T - 1) \X (0 .. F - 1) :
                  a[1] + a[2] * T = b[1] + b[2] * T => a = b
<1> DEFINE id == a[1]
           i  == a[2]
<1>1. id \in 0 .. T - 1 /\ i \in Nat /\ i + 1 <= F
  OBVIOUS
<1> HIDE DEF id, i
<1>2. (i + 1) * T <= F * T
  BY <1>1
<1>3. (i + 1) * T = i * T + T /\ F * T = T * F /\ i * T \in Nat /\ T * F \in Nat
  BY <1>1
<1>4. id + i * T \in Nat /\ id + i * T < T * F
  BY <1>1, <1>2, <1>3
<1>5. ASSUME NEW b \in (0 .. T - 1) \X (0 .. F - 1), a[1] + a[2] * T = b[1] + b[2] * T
      PROVE  a = b
  <2>1. /\ a[1] \in 0 .. T - 1 /\ b[1] \in 0 .. T - 1
        /\ a[2] \in Nat /\ b[2] \in Nat
    OBVIOUS
  <2>2. a[1] = b[1] /\ a[2] = b[2]
    <3> DEFINE p == a[1]
               q == a[2]
               u == b[1]
               v == b[2]
    <3>1. /\ p \in 0 .. T - 1 /\ u \in 0 .. T - 1 /\ q \in Nat /\ v \in Nat
          /\ p + q * T = u + v * T
      BY <1>5, <2>1
    <3> HIDE DEF p, q, u, v
    <3>2. p = u /\ q = v
      BY <3>1, LanesDiffer
    <3> QED
      BY <3>2 DEF p, q, u, v
  <2>3. a = <<a[1], a[2]>> /\ b = <<b[1], b[2]>>
    OBVIOUS
  <2> QED
    BY <2>2, <2>3, Zenon
<1> QED
  BY <1>4, <1>5 DEF id, i

\* A job leaves its threads a stretch of the nonces.
LEMMA JobsTyped ==
    ASSUME NEW job \in Jobs
    PROVE  /\ job.max \in Nat /\ job.base \in Nat /\ NonceMax \in Nat
           /\ job.base + job.max < NonceMax + 1 /\ NiceMax <= job.max
<1> DEFINE M == NiceMax + 1
<1>1. FirstBytes \in Nat \ {0} /\ NiceMax \in Nat /\ M \in Nat \ {0} /\ NonceMax = FirstBytes * M - 1
  BY StartupAssumption DEF NonceMax
<1> HIDE DEF M
<1>2. FirstBytes * M \in Nat /\ 1 * M <= FirstBytes * M
  BY <1>1
<1>3. NonceMax \in Nat /\ NiceMax <= NonceMax
  <2> DEFINE f == FirstBytes * M
  <2>1. f \in Nat /\ M <= f /\ NonceMax = f - 1 /\ M = NiceMax + 1
    BY <1>1, <1>2 DEF M
  <2> HIDE DEF f
  <2> QED
    BY <1>1, <2>1
<1>4. CASE job \in [max : {NonceMax}, base : {0}]
  BY <1>3, <1>4
<1>5. CASE job \in [max : {NiceMax}, base : {p * (NiceMax + 1) : p \in 0 .. FirstBytes - 1}]
  <2>1. PICK p \in 0 .. FirstBytes - 1 : job.base = p * M
    BY <1>5 DEF M
  <2>2. job.max = NiceMax
    BY <1>5
  <2>3. (p + 1) * M <= FirstBytes * M /\ (p + 1) * M = p * M + M /\ p * M \in Nat
    BY <1>1, <2>1
  <2> DEFINE f == FirstBytes * M
             b == p * M
  <2>4. f \in Nat /\ b \in Nat /\ b + M <= f /\ NonceMax = f - 1 /\ job.base = b /\ M = NiceMax + 1
    BY <1>1, <1>2, <2>1, <2>3 DEF M
  <2> HIDE DEF f, b
  <2> QED
    BY <1>1, <1>3, <2>2, <2>4
<1> QED
  BY <1>4, <1>5 DEF Jobs

\* The lanes of all threads on a job.
Apart(job) ==
    LET lanes       == Lanes
        slice       == Width(job.max)
        first(lane) == Nonce(job, lane, 1)
        last(lane)  == Nonce(job, lane, slice)
    IN  \A a \in lanes :
            /\ last(a) = first(a) + (slice - 1)
            /\ job.base <= first(a) /\ last(a) <= job.base + job.max
            /\ \A b \in lanes \ {a} : last(a) < first(b) \/ last(b) < first(a)

(***************************************************************************)
(* Threads do not share work or memory: every thread has its context and   *)
(* its scratchpads to itself (Mem::create, Mem::allocate); and as long as  *)
(* no lane has hashed more rounds than its slice has nonces, no nonce of a *)
(* job is tried twice, on either side of the wrap or of the byte that      *)
(* nicehash keeps (MultiWorker::consumeJob, start).                        *)
(***************************************************************************)
THEOREM ThreadsDisjointHolds == Spec => []ThreadsDisjoint
<1>1. ASSUME IInv PROVE ThreadsDisjoint
  <2> SUFFICES ASSUME phase = "running"
               PROVE  /\ \A i \in Threads :
                             LET end == create(i).memory + BlockSize(o["algo"]) * getThreadHashFactor(i)
                             IN  /\ create(i).memory >= create(i).ctx + CtxSize
                                 /\ end <= IF i + 1 \in Threads THEN create(i + 1).ctx ELSE mem.size
                      /\ \A job \in Jobs : Apart(job)
    BY Zenon DEF ThreadsDisjoint, Apart
  <2> DEFINE T == o["threads"]
             F == o["multihash-factor"]
             n == T * F
  <2>1. /\ T \in Nat \ {0} /\ F \in 1 .. MaxHashBlocks
        /\ T <= 1024 \/ T <= cpu.threads
    BY <1>1 DEF IInv, Settled, Completed, Optimal
  <2>2. mem.size = Total(o, T)
    BY <1>1, SizesNow DEF IInv
  <2> HIDE DEF T, F
  <2>3. F \in Nat \ {0} /\ F <= MaxHashBlocks /\ MaxHashBlocks \in Nat
    BY <2>1, OptionsAssumption
  <2>4. \A i : Factor(o, i) \in 1 .. F
    BY <2>3 DEF Factor, F
  <2>5. \A i : Bytes(o, i) = CtxSize + BlockSize(o["algo"]) * Factor(o, i)
    BY DEF Bytes
  <2>6. CtxSize \in Nat /\ BlockSize(o["algo"]) \in Nat
    BY StartupAssumption DEF BlockSize
  <2>7. \A i \in Nat : Bytes(o, i) \in Nat
    BY <2>3, <2>4, <2>5, <2>6
  <2>8. ASSUME NEW i \in Threads
        PROVE  LET end == create(i).memory + BlockSize(o["algo"]) * getThreadHashFactor(i)
               IN  /\ create(i).memory >= create(i).ctx + CtxSize
                   /\ end <= IF i + 1 \in Threads THEN create(i + 1).ctx ELSE mem.size
    <3>1. i \in Nat /\ (i + 1 \notin Threads => i + 1 = T)
      BY <2>1 DEF Threads, T
    <3>2. Total(o, i) \in Nat /\ Total(o, i + 1) = Total(o, i) + Bytes(o, i)
      BY <2>7, <3>1, TotalGrows
    <3>3. /\ create(i).ctx = Total(o, i) /\ create(i).memory = Total(o, i) + CtxSize
          /\ create(i + 1).ctx = Total(o, i + 1) /\ getThreadHashFactor(i) = Factor(o, i)
      BY SizesNow, Zenon
    <3> DEFINE b == BlockSize(o["algo"]) * Factor(o, i)
    <3>4. b \in Nat
      BY <2>3, <2>4, <2>6
    <3>5. Bytes(o, i) = CtxSize + b
      BY <2>5
    <3>6. create(i).memory + BlockSize(o["algo"]) * getThreadHashFactor(i) = Total(o, i) + CtxSize + b
      BY <3>3
    <3> HIDE DEF b
    <3>7. Total(o, i) + CtxSize + b = Total(o, i + 1)
      BY <2>6, <3>2, <3>4, <3>5
    <3>8. Total(o, i + 1) \in Nat
      BY <2>6, <3>2, <3>4, <3>5
    <3>9. IF i + 1 \in Threads THEN create(i + 1).ctx = Total(o, i + 1) ELSE mem.size = Total(o, i + 1)
      BY <2>2, <3>1, <3>3
    <3> QED
      BY <2>6, <3>2, <3>3, <3>6, <3>7, <3>8, <3>9
  <2>9. n \in Nat \ {0} /\ n <= NiceMax /\ NiceMax \in Nat
    <3>1. PICK t \in {1024} \cup {machine.threads : machine \in Machines} : T <= t /\ t \in Nat
      <4>1. CASE T <= 1024
        BY <4>1
      <4>2. CASE T <= cpu.threads
        BY <1>1, <4>2, StartupAssumption DEF IInv
      <4> QED
        BY <2>1, <4>1, <4>2
    <3>2. NiceMax >= t * MaxHashBlocks /\ NiceMax \in Nat
      BY StartupAssumption
    <3>3. T * F <= t * F /\ t * F <= t * MaxHashBlocks
      BY <2>1, <2>3, <3>1
    <3>4. T * F \in Nat \ {0} /\ t * F \in Nat /\ t * MaxHashBlocks \in Nat
      BY <2>1, <2>3, <3>1
    <3> QED
      BY <3>2, <3>3, <3>4
  <2>10. Lanes \subseteq (0 .. T - 1) \X (0 .. F - 1)
    <3> SUFFICES ASSUME NEW lane \in Lanes PROVE lane \in (0 .. T - 1) \X (0 .. F - 1)
      OBVIOUS
    <3>1. PICK id \in Threads : lane \in {<<id, i>> : i \in 0 .. getThreadHashFactor(id) - 1}
      BY DEF Lanes
    <3>2. PICK i \in 0 .. getThreadHashFactor(id) - 1 : lane = <<id, i>>
      BY <3>1
    <3>3. getThreadHashFactor(id) \in 1 .. F
      BY <2>4, SizesNow
    <3>4. i \in 0 .. F - 1
      BY <2>3, <3>2, <3>3
    <3>5. id \in 0 .. T - 1
      BY <3>1 DEF Threads, T
    <3> QED
      BY <3>2, <3>4, <3>5
  <2>11. ASSUME NEW job \in Jobs PROVE Apart(job)
    <3> DEFINE W == job.max \div n
               N == NonceMax + 1
               K(lane) == lane[1] + lane[2] * T
               At(lane, r) == (job.base + W * K(lane) + r) % N
    <3>1. /\ job.max \in Nat /\ job.base \in Nat /\ N \in Nat
          /\ job.base + job.max < N /\ n <= job.max
      BY <2>9, JobsTyped
    <3>2. Width(job.max) = W
      BY DEF Width, n, T, F
    <3>3. \A lane, r : Nonce(job, lane, r) = At(lane, r)
      BY <3>2 DEF Nonce, FirstNonce, T
    <3>4. W \in Nat \ {0} /\ W * n <= job.max
      <4> HIDE DEF n
      <4>1. job.max \div n \in Nat \ {0}
        BY <2>9, <3>1, PartPositive
      <4>2. n * (job.max \div n) <= job.max
        BY <2>9, <3>1, DivBounds
      <4>3. n * (job.max \div n) = (job.max \div n) * n
        BY <2>9, <4>1
      <4> QED
        BY <4>1, <4>2, <4>3
    <3>5. \A a \in Lanes :
              /\ K(a) \in Nat /\ K(a) < n
              /\ \A b \in Lanes : K(a) = K(b) => a = b
      <4> SUFFICES ASSUME NEW a \in Lanes
                   PROVE  /\ K(a) \in Nat /\ K(a) < n
                          /\ \A b \in Lanes : K(a) = K(b) => a = b
        OBVIOUS
      <4>1. a \in (0 .. T - 1) \X (0 .. F - 1)
        BY <2>10
      <4>2. /\ K(a) \in Nat /\ K(a) < T * F
            /\ \A b \in (0 .. T - 1) \X (0 .. F - 1) : K(a) = K(b) => a = b
        BY <2>1, <2>3, <4>1, LaneNumbers
      <4> HIDE DEF K
      <4> QED
        BY <2>10, <4>2 DEF n
    <3> HIDE DEF W, N, K, n
    <3>6. ASSUME NEW a \in Lanes
          PROVE  /\ At(a, 1) = job.base + W * K(a) + 1
                 /\ At(a, W) = job.base + W * K(a) + W
                 /\ W * K(a) \in Nat
                 /\ job.base + W * K(a) + W <= job.base + job.max
      <4>1. K(a) \in Nat /\ K(a) < n
        BY <3>5
      <4>2. 1 \in 0 .. W /\ W \in 0 .. W
        BY <3>4
      <4>3. n \in Nat
        BY <2>9
      <4> DEFINE k    == K(a)
                 max  == job.max
                 base == job.base
      <4>4. /\ k \in Nat /\ k < n /\ max \in Nat /\ base \in Nat /\ N \in Nat
            /\ W * n <= max /\ base + max < N /\ W \in Nat \ {0}
        BY <3>1, <3>4, <4>1
      <4> HIDE DEF k, max, base, At
      <4>5. /\ W * k \in Nat /\ base + W * k + W <= base + max
            /\ \A r \in 0 .. W : (base + W * k + r) % N = base + W * k + r
        BY <4>3, <4>4, SliceEnds
      <4>6. \A r : At(a, r) = (base + W * k + r) % N
        BY Zenon DEF At, k, base
      <4> QED
        BY <4>2, <4>5, <4>6 DEF k, base, max
    <3>7. ASSUME NEW a \in Lanes, NEW b \in Lanes, a # b
          PROVE  At(a, W) < At(b, 1) \/ At(b, W) < At(a, 1)
      <4>1. K(a) \in Nat /\ K(b) \in Nat /\ K(a) # K(b)
        BY <3>5, <3>7
      <4>2. CASE K(a) < K(b)
        <5>1. job.base + W * K(a) + W < job.base + W * K(b) + 1
          BY <3>1, <3>4, <4>1, <4>2, SlicesApart
        <5> QED
          BY <3>6, <5>1
      <4>3. CASE K(b) < K(a)
        <5>1. job.base + W * K(b) + W < job.base + W * K(a) + 1
          BY <3>1, <3>4, <4>1, <4>3, SlicesApart
        <5> QED
          BY <3>6, <5>1
      <4> QED
        BY <4>1, <4>2, <4>3
    <3>8. ASSUME NEW a \in Lanes
          PROVE  /\ At(a, W) = At(a, 1) + (W - 1)
                 /\ job.base <= At(a, 1) /\ At(a, W) <= job.base + job.max
      <4> DEFINE p == W * K(a)
      <4>1. /\ At(a, 1) = job.base + p + 1 /\ At(a, W) = job.base + p + W
            /\ p \in Nat /\ job.base + p + W <= job.base + job.max
        BY <3>6
      <4> HIDE DEF p, At
      <4> QED
        BY <3>1, <3>4, <4>1
    <3> HIDE DEF At
    <3>9. \A a \in Lanes :
              /\ At(a, W) = At(a, 1) + (W - 1)
              /\ job.base <= At(a, 1) /\ At(a, W) <= job.base + job.max
              /\ \A b \in Lanes \ {a} : At(a, W) < At(b, 1) \/ At(b, W) < At(a, 1)
      BY <3>7, <3>8
    <3> QED
      BY <3>2, <3>3, <3>9, Zenon DEF Apart
  <2> QED
    BY <2>8, <2>11
<1> QED
  BY <1>1, Invariance, PTL

-----------------------------------------------------------------------------
(* Users and hosts *)

\* A pool with this host may have this user; and any pool may.
Good(host, user) ==
    \A entry \in AllEntries :
        NamesUser(entry, user) /\ UsesUrl(entry) => entry["url"].value.host = host

Free(user) == \A entry \in AllEntries : ~(NamesUser(entry, user) /\ UsesUrl(entry))

\* A pool whose next url cannot part its user from its host.
Kept(pool) ==
    /\ pool.port > 0
    /\ Good(pool.host, pool.user)
    /\ isValid(pool) \/ Free(pool.user)

KeptSet(machine) ==
    {x \in OptionSet(machine) : \A i \in 1 .. Len(x["pools"]) : Kept(x["pools"][i])}

LastPool(x) == x["pools"][Back(x)]

\* What the assumption on users says of them.
LEMMA UsersFree ==
    /\ Free(NoText)
    /\ \A arg \in Args : /\ arg.name = "user" => Free(arg.value)
                         /\ arg.name = "userpass" => Free(arg.value.user)
    /\ \A entry \in AllEntries :
           /\ GivesText(entry, "userpass") => Free(entry["userpass"].value.user)
           /\ GivesText(entry, "user") /\ ~UsesUrl(entry) => Free(entry["user"].value)
           /\ GivesText(entry, "user") /\ UsesUrl(entry) =>
                  Good(entry["url"].value.host, entry["user"].value)
<1>1. ASSUME NEW entry \in AllEntries, NEW user, NamesUser(entry, user), UsesUrl(entry)
      PROVE  /\ user # NoText
             /\ \A arg \in Args : /\ arg.name = "user" => arg.value # user
                                  /\ arg.name = "userpass" => arg.value.user # user
             /\ \A other \in AllEntries :
                    /\ NamesUser(other, user) =>
                           UsesUrl(other) /\ other["url"].value.host = entry["url"].value.host
                    /\ GivesText(other, "userpass") => other["userpass"].value.user # user
  <2>1. GivesText(entry, "user") /\ entry["user"].value = user
    BY <1>1 DEF NamesUser
  <2> QED
    BY <1>1, <2>1, UsersAssumption, Zenon
<1>2. Free(NoText)
  BY <1>1, Zenon DEF Free
<1>3. ASSUME NEW arg \in Args, arg.name = "user" PROVE Free(arg.value)
  BY <1>1, <1>3, Zenon DEF Free
<1>4. ASSUME NEW arg \in Args, arg.name = "userpass" PROVE Free(arg.value.user)
  <2> SUFFICES ASSUME NEW entry \in AllEntries, NamesUser(entry, arg.value.user), UsesUrl(entry)
               PROVE  FALSE
    BY DEF Free
  <2>1. arg.value.user # arg.value.user
    BY <1>1, <1>4
  <2> QED
    BY <2>1
<1>5. ASSUME NEW entry \in AllEntries, GivesText(entry, "userpass")
      PROVE  Free(entry["userpass"].value.user)
  <2> SUFFICES ASSUME NEW e \in AllEntries, NamesUser(e, entry["userpass"].value.user), UsesUrl(e)
               PROVE  FALSE
    BY DEF Free
  <2>1. entry["userpass"].value.user # entry["userpass"].value.user
    BY <1>1, <1>5
  <2> QED
    BY <2>1
<1>6. ASSUME NEW entry \in AllEntries, GivesText(entry, "user"), ~UsesUrl(entry)
      PROVE  Free(entry["user"].value)
  <2>1. NamesUser(entry, entry["user"].value)
    BY <1>6 DEF NamesUser
  <2> QED
    BY <1>1, <1>6, <2>1, Zenon DEF Free
<1>7. ASSUME NEW entry \in AllEntries, GivesText(entry, "user"), UsesUrl(entry)
      PROVE  Good(entry["url"].value.host, entry["user"].value)
  <2>1. NamesUser(entry, entry["user"].value)
    BY <1>7 DEF NamesUser
  <2> QED
    <3> SUFFICES ASSUME NEW e \in AllEntries, NamesUser(e, entry["user"].value), UsesUrl(e)
                 PROVE  e["url"].value.host = entry["url"].value.host
      BY DEF Good
    <3>1. entry["url"].value.host = e["url"].value.host
      BY <1>1, <1>7, <2>1
    <3> QED
      BY <3>1
<1> QED
  BY <1>2, <1>3, <1>4, <1>5, <1>6, <1>7, Zenon

\* A user that any pool may have.
LEMMA FreeGood == \A user, host : Free(user) => Good(host, user)
BY Zenon DEF Free, Good

\* The entries of all files are objects.
LEMMA EntriesTyped ==
    ASSUME NEW entry \in AllEntries
    PROVE  IsObject(entry)
<1>1. PICK file \in Files \cup {arg.value : arg \in {a \in Args : a.name = "config"}} :
          entry \in EntriesOf(file)
  BY DEF AllEntries
<1>2. IsFile(file)
  BY <1>1, InputsAssumption
<1>3. file.readable /\ \E k \in 1 .. Len(file.pools) : entry = file.pools[k]
  BY <1>1 DEF EntriesOf
<1> QED
  BY <1>2, <1>3 DEF IsFile

\* What a url makes of another one.
LEMMA ParsedUrl ==
    ASSUME NEW url \in Url, NEW text \in UrlText
    PROVE  LET u == parseUrl(url, text)
           IN  /\ u \in Url /\ u.user = url.user
               /\ url.port > 0 /\ ~ZeroPort(text) => u.port > 0
               /\ url.port > 0 /\ isValid(parseUrl(NewUrl, text)) =>
                      isValid(u) /\ u.host = text.host /\ ~ZeroPort(text)
<1> DEFINE u == parseUrl(url, text)
           n == parseUrl(NewUrl, text)
           bad == text.scheme \notin {NoText, "stratum+tcp"} \/ (text.host = NoText /\ text.port = NoPort)
           port == uint16(strtol(text.port))
<1>1. u \in Url /\ u.user = url.user
  BY UrlTyped
<1>2. NewUrl \in Url /\ NewUrl.host = NoHost /\ NewUrl.port = 3333
  BY NewUrlTyped DEF NewUrl, kDefaultPort
<1>3. text.port \in Int \cup {NoPort} /\ (text.port # NoPort => port \in Nat)
  <2>1. text.port \in Int \cup {NoPort}
    BY DEF UrlText
  <2> QED
    BY <2>1, PortRange, TextNumbers
<1>4. ASSUME NEW v \in Url
      PROVE  /\ bad => parseUrl(v, text) = v
             /\ ~bad => /\ parseUrl(v, text).host = text.host
                        /\ parseUrl(v, text).port = IF text.port = NoPort THEN v.port ELSE port
  BY DEF parseUrl, Url
<1>5. text.host # NoHost
  BY StringsAssumption DEF UrlText
<1>a. ZeroPort(text) <=> text.port # NoPort /\ port = 0
  BY DEF ZeroPort
<1> HIDE DEF bad, u, n, port
<1>6. /\ bad => u = url /\ n = NewUrl
      /\ ~bad => /\ u.host = text.host /\ n.host = text.host
                 /\ u.port = IF text.port = NoPort THEN url.port ELSE port
                 /\ n.port = IF text.port = NoPort THEN 3333 ELSE port
  BY <1>2, <1>4 DEF u, n
<1>7. ASSUME url.port > 0, ~ZeroPort(text) PROVE u.port > 0
  BY <1>3, <1>6, <1>7, <1>a
<1>8. ASSUME url.port > 0, isValid(n) PROVE isValid(u) /\ u.host = text.host /\ ~ZeroPort(text)
  <2>1. ~bad
    BY <1>2, <1>6, <1>8 DEF isValid
  <2>2. n.port > 0
    BY <1>8 DEF isValid
  <2>3. ~ZeroPort(text) /\ u.port > 0
    BY <1>3, <1>6, <1>8, <1>a, <2>1, <2>2
  <2> QED
    BY <1>5, <1>6, <2>1, <2>3 DEF isValid
<1> QED
  BY <1>1, <1>7, <1>8 DEF u, n

\* Another last pool that is kept.
LEMMA BackKept ==
    ASSUME NEW machine, NEW x \in KeptSet(machine), NEW url \in Url, Kept(url)
    PROVE  SetBack(x, url).o \in KeptSet(machine) /\ LastPool(SetBack(x, url).o) = url
<1>1. x \in OptionSet(machine) /\ \A i \in 1 .. Len(x["pools"]) : Kept(x["pools"][i])
  BY DEF KeptSet
<1> DEFINE y == SetBack(x, url).o
           pools == [x["pools"] EXCEPT ![Back(x)] = url]
<1>2. y \in OptionSet(machine) /\ y = [x EXCEPT !["pools"] = pools]
  BY <1>1, BackTyped
<1>3. "pools" \in DOMAIN x
  BY <1>1 DEF OptionSet, OptionNames
<1> HIDE DEF y
<1>4. y["pools"] = pools
  <2> HIDE DEF pools
  <2> QED
    BY <1>2, <1>3
<1>5. x["pools"] \in Seq(Url) /\ Len(x["pools"]) > 0
  BY <1>1 DEF OptionSet
<1>6. Back(x) \in 1 .. Len(x["pools"]) /\ Back(x) = Len(x["pools"])
  BY <1>5 DEF Back
<1>7. /\ Len(pools) = Len(x["pools"]) /\ pools[Back(x)] = url
      /\ \A i \in 1 .. Len(x["pools"]) : i # Back(x) => pools[i] = x["pools"][i]
  BY <1>5, <1>6
<1> HIDE DEF pools
<1>8. \A i \in 1 .. Len(y["pools"]) : Kept(y["pools"][i])
  BY <1>1, <1>4, <1>7
<1>9. LastPool(y) = url
  BY <1>4, <1>6, <1>7 DEF LastPool, Back
<1> QED
  BY <1>2, <1>8, <1>9 DEF KeptSet, y

\* The last pool of pools that are kept.
LEMMA LastKept ==
    ASSUME NEW machine, NEW x \in KeptSet(machine)
    PROVE  LastPool(x) \in Url /\ Kept(LastPool(x))
<1>1. x \in OptionSet(machine) /\ \A i \in 1 .. Len(x["pools"]) : Kept(x["pools"][i])
  BY DEF KeptSet
<1>2. x["pools"] \in Seq(Url) /\ Len(x["pools"]) > 0
  BY <1>1 DEF OptionSet
<1>3. Back(x) \in 1 .. Len(x["pools"])
  BY <1>2 DEF Back
<1> QED
  BY <1>1, <1>2, <1>3 DEF LastPool

(***************************************************************************)
(* A url makes a pool of its own, or gives the only pool a host, or is     *)
(* refused.  Only a port that is 0 in 16 bits leaves a pool that is not    *)
(* kept, and then the url is refused.                                      *)
(***************************************************************************)
LEMMA UrlKept ==
    ASSUME NEW machine, NEW x \in KeptSet(machine), NEW text \in UrlText
    PROVE  LET r == parsePoolUrl(x, text)
           IN  /\ \A i \in 1 .. Len(r.o["pools"]) : Good(r.o["pools"][i].host, r.o["pools"][i].user)
               /\ r.ok \/ ~ZeroPort(text) => r.o \in KeptSet(machine)
               /\ isValid(parseUrl(NewUrl, text)) =>
                      /\ r.o \in KeptSet(machine)
                      /\ LastPool(r.o).host = text.host /\ isValid(LastPool(r.o))
<1> DEFINE r == parsePoolUrl(x, text)
           y == r.o
           old == x["pools"]
           url == parseUrl(NewUrl, text)
           first == parseUrl(old[1], text)
           pools == IF Len(old) > 1 \/ isValid(old[1])
                    THEN IF isValid(url) THEN Append(old, url) ELSE old
                    ELSE <<first>>
<1>1. x \in OptionSet(machine) /\ \A i \in 1 .. Len(old) : Kept(old[i])
  BY DEF KeptSet
<1>2. old \in Seq(Url) /\ Len(old) > 0 /\ Len(old) \in Nat
  BY <1>1 DEF OptionSet
<1>3. old[1] \in Url /\ Kept(old[1])
  BY <1>1, <1>2
<1>4. y \in OptionSet(machine)
  BY <1>1, PoolUrlTyped
<1>5. y = [x EXCEPT !["pools"] = pools] /\ r.ok = isValid(Last(pools))
  BY DEF parsePoolUrl
<1>6. "pools" \in DOMAIN x
  BY <1>1 DEF OptionSet, OptionNames
<1> HIDE DEF r
<1>7. y["pools"] = pools
  <2> HIDE DEF pools
  <2> QED
    BY <1>5, <1>6
<1> HIDE DEF y
<1>8. ASSUME \A i \in 1 .. Len(pools) : Kept(pools[i]) PROVE y \in KeptSet(machine)
  <2> HIDE DEF pools
  <2> QED
    BY <1>4, <1>7, <1>8 DEF KeptSet
<1>9. Len(pools) > 0 => LastPool(y) = pools[Len(pools)] /\ Last(pools) = pools[Len(pools)]
  <2> HIDE DEF pools
  <2> QED
    BY <1>7 DEF LastPool, Back, Last
<1>10. NewUrl \in Url /\ NewUrl.port > 0 /\ NewUrl.user = NoText
  BY NewUrlTyped DEF NewUrl, kDefaultPort
<1>11. /\ url \in Url /\ url.user = NoText
       /\ isValid(url) => url.host = text.host /\ ~ZeroPort(text)
  BY <1>10, ParsedUrl
<1>12. /\ first \in Url /\ first.user = old[1].user
       /\ old[1].port > 0
       /\ ~ZeroPort(text) => first.port > 0
       /\ isValid(url) => isValid(first) /\ first.host = text.host
  BY <1>3, ParsedUrl DEF Kept
<1>13. isValid(url) => Kept(url)
  BY <1>11, UsersFree, FreeGood DEF Kept, isValid
<1> HIDE DEF url, first
<1>14. CASE (Len(old) > 1 \/ isValid(old[1])) /\ isValid(url)
  <2>1. pools = Append(old, url)
    BY <1>14
  <2> HIDE DEF pools, old
  <2>2. /\ Len(pools) = Len(old) + 1 /\ pools[Len(pools)] = url
        /\ \A i \in 1 .. Len(pools) : pools[i] = url \/ (i \in 1 .. Len(old) /\ pools[i] = old[i])
    BY <1>2, <1>11, <2>1
  <2>3. \A i \in 1 .. Len(pools) : Kept(pools[i])
    BY <1>1, <1>13, <1>14, <2>2
  <2>4. LastPool(y) = url
    BY <1>2, <1>9, <2>2
  <2>5. y \in KeptSet(machine) /\ LastPool(y).host = text.host /\ isValid(LastPool(y))
    BY <1>8, <1>11, <1>14, <2>3, <2>4
  <2>6. \A i \in 1 .. Len(y["pools"]) : Good(y["pools"][i].host, y["pools"][i].user)
    BY <1>7, <2>3 DEF Kept
  <2> QED
    BY <2>5, <2>6, Zenon DEF y, r
<1>15. CASE (Len(old) > 1 \/ isValid(old[1])) /\ ~isValid(url)
  <2>1. pools = old
    BY <1>15
  <2> HIDE DEF pools, old
  <2>2. \A i \in 1 .. Len(pools) : Kept(pools[i])
    BY <1>1, <2>1
  <2>3. y \in KeptSet(machine)
    BY <1>8, <2>2
  <2>4. \A i \in 1 .. Len(y["pools"]) : Good(y["pools"][i].host, y["pools"][i].user)
    BY <1>7, <2>2 DEF Kept
  <2> QED
    BY <1>15, <2>3, <2>4, Zenon DEF y, r, url
<1>16. CASE ~(Len(old) > 1 \/ isValid(old[1]))
  <2>1. pools = <<first>>
    BY <1>16
  <2>2. Free(old[1].user)
    BY <1>3, <1>16 DEF Kept
  <2>3. Free(first.user)
    BY <1>12, <2>2
  <2>4. \A host : Good(host, first.user)
    BY <2>3, FreeGood
  <2> HIDE DEF pools, old
  <2>5. Len(pools) = 1 /\ pools[1] = first /\ \A i \in 1 .. Len(pools) : i = 1
    BY <2>1
  <2>6. LastPool(y) = first /\ Last(pools) = first
    BY <1>9, <2>5
  <2>7. ASSUME r.ok \/ ~ZeroPort(text) PROVE y \in KeptSet(machine)
    <3>1. first.port > 0
      BY <1>5, <1>12, <2>6, <2>7 DEF isValid
    <3>2. Kept(first)
      BY <2>3, <2>4, <3>1 DEF Kept
    <3> QED
      BY <1>8, <2>5, <3>2
  <2>8. \A i \in 1 .. Len(y["pools"]) : Good(y["pools"][i].host, y["pools"][i].user)
    BY <1>7, <2>4, <2>5
  <2>9. isValid(url) => y \in KeptSet(machine) /\ LastPool(y).host = text.host /\ isValid(LastPool(y))
    BY <1>11, <1>12, <2>6, <2>7
  <2> QED
    BY <2>7, <2>8, <2>9 DEF y, url, r
<1> QED
  BY <1>14, <1>15, <1>16

\* How the settings of the last pool are parsed: its url,
LEMMA PoolUrlText ==
    ASSUME NEW machine, NEW x, NEW v
    PROVE  parseText(x, "url", v, machine) =
               parsePoolUrl(x, v)
<1>1. "url" \notin Numbers /\ "url" \notin Texts
  BY NumberNames DEF Texts
<1> QED
  BY <1>1 DEF parseText, LastPool

\* its user,
LEMMA UserText ==
    ASSUME NEW machine, NEW x, NEW v
    PROVE  parseText(x, "user", v, machine) =
               SetBack(x, [LastPool(x) EXCEPT !.user = v])
<1>1. "user" \notin Numbers /\ "user" \notin Texts
  BY NumberNames DEF Texts
<1> QED
  BY <1>1 DEF parseText, LastPool

\* its password,
LEMMA PassText ==
    ASSUME NEW machine, NEW x, NEW v
    PROVE  parseText(x, "pass", v, machine) =
               SetBack(x, [LastPool(x) EXCEPT !.pass = v])
<1>1. "pass" \notin Numbers /\ "pass" \notin Texts
  BY NumberNames DEF Texts
<1> QED
  BY <1>1 DEF parseText, LastPool

\* and both in one.
LEMMA UserpassText ==
    ASSUME NEW machine, NEW x, NEW v
    PROVE  parseText(x, "userpass", v, machine) =
               IF v.colon THEN SetBack(x, [LastPool(x) EXCEPT !.user = v.user, !.pass = v.pass])
               ELSE Refuse(x)
<1>1. "userpass" \notin Numbers /\ "userpass" \notin Texts
  BY NumberNames DEF Texts
<1> QED
  BY <1>1 DEF parseText, LastPool

\* The same settings in an entry of a file.
LEMMA PoolJSON ==
    ASSUME NEW machine, NEW x, NEW object, NEW name \in {"url", "user", "pass", "userpass"}
    PROVE  parseJSON(x, name, object, machine) =
               IF GivesText(object, name) THEN parseText(x, name, object[name].value, machine).o
               ELSE x
<1>1. name \notin Numbers /\ name \notin Switches
  BY NumberNames DEF Switches
<1>2. CASE name \notin DOMAIN object
  BY <1>2, Zenon DEF parseJSON, GivesText
<1>3. CASE name \in DOMAIN object /\ object[name].type = "text"
  BY <1>1, <1>3 DEF parseJSON, GivesText
<1>4. CASE name \in DOMAIN object /\ object[name].type # "text"
  BY <1>1, <1>4 DEF parseJSON, GivesText
<1> QED
  BY <1>2, <1>3, <1>4

\* And the flags of the last pool.
LEMMA PoolFlags ==
    ASSUME NEW machine, NEW x, NEW object, IsObject(object), NEW name \in {"keepalive", "nicehash"}
    PROVE  \/ parseJSON(x, name, object, machine) = x
           \/ \E enable \in BOOLEAN :
                  parseJSON(x, name, object, machine) \in
                      {SetBack(x, [LastPool(x) EXCEPT !.keepAlive = enable]).o,
                       SetBack(x, [LastPool(x) EXCEPT !.nicehash = enable]).o}
<1>1. name \notin Numbers /\ name \in Switches
  BY NumberNames DEF Switches
<1>2. CASE name \notin DOMAIN object
  BY <1>2, Zenon DEF parseJSON
<1>3. CASE name \in DOMAIN object /\ object[name].type = "flag"
  <2>1. parseJSON(x, name, object, machine) = parseBoolean(x, name, object[name].value).o
    BY <1>1, <1>3 DEF parseJSON
  <2>2. object[name].value \in BOOLEAN
    BY <1>3 DEF IsObject
  <2>3. \A enable \in BOOLEAN :
            parseBoolean(x, name, enable) \in
                {SetBack(x, [LastPool(x) EXCEPT !.keepAlive = enable]),
                 SetBack(x, [LastPool(x) EXCEPT !.nicehash = enable])}
    BY DEF parseBoolean, LastPool
  <2> QED
    BY <2>1, <2>2, <2>3
<1>4. CASE name \in DOMAIN object /\ object[name].type # "flag"
  <2>1. parseJSON(x, name, object, machine) = x
    BY <1>1, <1>4 DEF parseJSON
  <2> QED
    BY <2>1
<1> QED
  BY <1>2, <1>3, <1>4

(***************************************************************************)
(* After the url of an entry has been parsed, the last pool is the entry's *)
(* own, if the entry has a url that can be used.                           *)
(***************************************************************************)
After(entry, machine) ==
    {x \in KeptSet(machine) :
        UsesUrl(entry) => LastPool(x).host = entry["url"].value.host /\ isValid(LastPool(x))}

\* Parsing the url of the entry establishes it,
LEMMA EntryUrl ==
    ASSUME NEW machine, NEW x \in KeptSet(machine), NEW entry \in AllEntries,
           ~(GivesText(entry, "url") /\ ZeroPort(entry["url"].value))
    PROVE  parseJSON(x, "url", entry, machine) \in After(entry, machine)
<1>1. CASE GivesText(entry, "url")
  <2> DEFINE text == entry["url"].value
             y == parsePoolUrl(x, text).o
  <2>1. parseJSON(x, "url", entry, machine) = y
    <3>1. parseJSON(x, "url", entry, machine) = parseText(x, "url", text, machine).o
      BY <1>1, PoolJSON
    <3>2. parseText(x, "url", text, machine) = parsePoolUrl(x, text)
      BY PoolUrlText, Zenon
    <3> QED
      BY <3>1, <3>2
  <2>2. text \in UrlText
    <3>1. "url" \in DOMAIN entry /\ entry["url"].type = "text"
      BY <1>1 DEF GivesText
    <3>2. IsArgument("url", entry["url"].value)
      BY <3>1, EntriesTyped DEF IsObject
    <3> QED
      BY <3>2 DEF IsArgument
  <2>3. y \in KeptSet(machine)
    BY <1>1, <2>2, UrlKept
  <2>4. isValid(parseUrl(NewUrl, text)) => LastPool(y).host = text.host /\ isValid(LastPool(y))
    BY <2>2, UrlKept
  <2>5. UsesUrl(entry) => isValid(parseUrl(NewUrl, text))
    BY DEF UsesUrl
  <2> HIDE DEF y
  <2>6. y \in After(entry, machine)
    BY <2>3, <2>4, <2>5 DEF After
  <2> QED
    BY <2>1, <2>6
<1>2. CASE ~GivesText(entry, "url")
  <2>1. parseJSON(x, "url", entry, machine) = x
    BY <1>2, PoolJSON
  <2>2. ~UsesUrl(entry)
    BY <1>2 DEF UsesUrl
  <2> QED
    BY <2>1, <2>2 DEF After
<1> QED
  BY <1>1, <1>2

\* Other settings of that pool leave its host and port.
LEMMA BackAfter ==
    ASSUME NEW machine, NEW entry, NEW x \in After(entry, machine), NEW url \in Url,
           url.host = LastPool(x).host, url.port = LastPool(x).port,
           url.user = LastPool(x).user \/ Free(url.user)
               \/ (Good(url.host, url.user) /\ UsesUrl(entry))
    PROVE  SetBack(x, url).o \in After(entry, machine)
<1> DEFINE last == LastPool(x)
<1>1. /\ x \in KeptSet(machine)
      /\ UsesUrl(entry) => last.host = entry["url"].value.host /\ isValid(last)
  BY DEF After
<1>2. last \in Url /\ Kept(last)
  BY <1>1, LastKept
<1>3. isValid(url) <=> isValid(last)
  BY DEF isValid
<1> HIDE DEF last
<1>4. Kept(url)
  <2>1. url.host = last.host /\ url.port = last.port
    BY DEF last
  <2>2. last.port > 0 /\ Good(last.host, last.user) /\ (isValid(last) \/ Free(last.user))
    BY <1>2 DEF Kept
  <2>3. url.port > 0
    BY <2>1, <2>2
  <2>4. CASE url.user = last.user
    BY <1>3, <2>1, <2>2, <2>4, Zenon DEF Kept
  <2>5. CASE Free(url.user)
    BY <2>3, <2>5, FreeGood, Zenon DEF Kept
  <2>6. CASE Good(url.host, url.user) /\ UsesUrl(entry)
    BY <1>1, <1>3, <2>3, <2>6, Zenon DEF Kept
  <2> QED
    BY <2>4, <2>5, <2>6 DEF last
<1> DEFINE y == SetBack(x, url).o
<1>5. y \in KeptSet(machine) /\ LastPool(y) = url
  BY <1>1, <1>4, BackKept
<1> HIDE DEF y
<1>6. y \in After(entry, machine)
  BY <1>1, <1>3, <1>5 DEF After, last
<1> QED
  BY <1>6 DEF y

\* and parsing its other settings keeps it.
LEMMA EntryRest ==
    ASSUME NEW machine, NEW entry \in AllEntries, NEW x \in After(entry, machine),
           NEW name \in {"pass", "user", "userpass", "keepalive", "nicehash"}
    PROVE  parseJSON(x, name, entry, machine) \in After(entry, machine)
<1> DEFINE last == LastPool(x)
           v == entry[name].value
           y == parseJSON(x, name, entry, machine)
<1>0. x \in KeptSet(machine) /\ (UsesUrl(entry) => last.host = entry["url"].value.host)
  BY DEF After
<1>1. last \in Url
  BY <1>0, LastKept
<1>2. ASSUME GivesText(entry, name), name \notin {"keepalive", "nicehash"}
      PROVE  IsArgument(name, v)
  <2>1. name \in DOMAIN entry /\ entry[name].type = "text"
    BY <1>2 DEF GivesText
  <2> QED
    BY <2>1, EntriesTyped DEF IsObject
<1>3. CASE name \in {"keepalive", "nicehash"}
  <2>1. \/ y = x
        \/ \E enable \in BOOLEAN : y \in {SetBack(x, [last EXCEPT !.keepAlive = enable]).o,
                                          SetBack(x, [last EXCEPT !.nicehash = enable]).o}
    BY <1>3, EntriesTyped, PoolFlags
  <2> HIDE DEF last, y
  <2>2. ASSUME NEW enable \in BOOLEAN,
               NEW url \in {[last EXCEPT !.keepAlive = enable], [last EXCEPT !.nicehash = enable]}
        PROVE  SetBack(x, url).o \in After(entry, machine)
    <3>1. url \in Url /\ url.host = last.host /\ url.port = last.port /\ url.user = last.user
      BY <1>1 DEF Url
    <3> QED
      BY <3>1, BackAfter DEF last
  <2>3. y \in After(entry, machine)
    BY <2>1, <2>2
  <2> QED
    BY <2>3 DEF y
<1>4. CASE name \notin {"keepalive", "nicehash"} /\ ~GivesText(entry, name)
  BY <1>4, PoolJSON
<1>5. CASE name = "pass" /\ GivesText(entry, name)
  <2> DEFINE url == [last EXCEPT !.pass = v]
  <2>1. y = SetBack(x, url).o
    <3>1. y = parseText(x, "pass", v, machine).o
      BY <1>5, PoolJSON
    <3>2. parseText(x, "pass", v, machine) = SetBack(x, url)
      BY PassText, Zenon
    <3> QED
      BY <3>1, <3>2
  <2>2. v \in Strings
    BY <1>2, <1>5 DEF IsArgument
  <2> HIDE DEF last, v, y
  <2>3. url \in Url /\ url.host = last.host /\ url.port = last.port /\ url.user = last.user
    BY <1>1, <2>2 DEF Url
  <2> HIDE DEF url
  <2>4. SetBack(x, url).o \in After(entry, machine)
    BY <2>3, BackAfter DEF last
  <2> QED
    BY <2>1, <2>4 DEF y
<1>6. CASE name = "user" /\ GivesText(entry, name)
  <2> DEFINE url == [last EXCEPT !.user = v]
  <2>1. y = SetBack(x, url).o
    <3>1. y = parseText(x, "user", v, machine).o
      BY <1>6, PoolJSON
    <3>2. parseText(x, "user", v, machine) = SetBack(x, url)
      BY UserText, Zenon
    <3> QED
      BY <3>1, <3>2
  <2>2. v \in Strings
    BY <1>2, <1>6 DEF IsArgument
  <2>3. Free(v) \/ (Good(last.host, v) /\ UsesUrl(entry))
    BY <1>0, <1>6, UsersFree
  <2> HIDE DEF last, v, y
  <2>4. url \in Url /\ url.host = last.host /\ url.port = last.port /\ url.user = v
    BY <1>1, <2>2 DEF Url
  <2> HIDE DEF url
  <2>5. SetBack(x, url).o \in After(entry, machine)
    BY <2>3, <2>4, BackAfter DEF last
  <2> QED
    BY <2>1, <2>5 DEF y
<1>7. CASE name = "userpass" /\ GivesText(entry, name)
  <2> DEFINE url == [last EXCEPT !.user = v.user, !.pass = v.pass]
  <2>1. y = (IF v.colon THEN SetBack(x, url) ELSE Refuse(x)).o
    <3>1. y = parseText(x, "userpass", v, machine).o
      BY <1>7, PoolJSON
    <3>2. parseText(x, "userpass", v, machine) = IF v.colon THEN SetBack(x, url) ELSE Refuse(x)
      BY UserpassText
    <3> QED
      BY <3>1, <3>2
  <2>2. v.user \in Strings /\ v.pass \in Strings
    BY <1>2, <1>7 DEF IsArgument
  <2>3. Free(v.user)
    BY <1>7, UsersFree
  <2> HIDE DEF last, v, y
  <2>4. url \in Url /\ url.host = last.host /\ url.port = last.port /\ url.user = v.user
    BY <1>1, <2>2 DEF Url
  <2> HIDE DEF url
  <2>5. SetBack(x, url).o \in After(entry, machine)
    BY <2>3, <2>4, BackAfter DEF last
  <2>6. Refuse(x).o = x
    BY DEF Refuse
  <2> QED
    BY <2>1, <2>5, <2>6 DEF y
<1> QED
  BY <1>3, <1>4, <1>5, <1>6, <1>7

\* A whole entry.
LEMMA EntryKept ==
    ASSUME NEW machine, NEW x \in KeptSet(machine), NEW entry \in AllEntries,
           ~(GivesText(entry, "url") /\ ZeroPort(entry["url"].value))
    PROVE  parseSection(x, PoolOptions, entry, machine) \in KeptSet(machine)
<1> DEFINE S == [k \in 0 .. 6 |-> IF k = 0 THEN KeptSet(machine) ELSE After(entry, machine)]
<1>1. Len(PoolOptions) = 6
  BY DEF PoolOptions
<1>2. /\ PoolOptions[1] = "url" /\ PoolOptions[2] = "pass" /\ PoolOptions[3] = "user"
      /\ PoolOptions[4] = "userpass" /\ PoolOptions[5] = "keepalive" /\ PoolOptions[6] = "nicehash"
  BY DEF PoolOptions
<1>3. /\ S[0] = KeptSet(machine) /\ S[1] = After(entry, machine) /\ S[2] = After(entry, machine)
      /\ S[3] = After(entry, machine) /\ S[4] = After(entry, machine)
      /\ S[5] = After(entry, machine) /\ S[6] = After(entry, machine)
  OBVIOUS
<1> HIDE DEF S
<1>4. \A y \in S[0] : parseJSON(y, PoolOptions[1], entry, machine) \in S[1]
  BY <1>2, <1>3, EntryUrl
<1>5. \A name \in {"pass", "user", "userpass", "keepalive", "nicehash"} :
          \A y \in After(entry, machine) : parseJSON(y, name, entry, machine) \in After(entry, machine)
  BY EntryRest
<1>6. /\ \A y \in S[1] : parseJSON(y, PoolOptions[2], entry, machine) \in S[2]
      /\ \A y \in S[2] : parseJSON(y, PoolOptions[3], entry, machine) \in S[3]
      /\ \A y \in S[3] : parseJSON(y, PoolOptions[4], entry, machine) \in S[4]
      /\ \A y \in S[4] : parseJSON(y, PoolOptions[5], entry, machine) \in S[5]
      /\ \A y \in S[5] : parseJSON(y, PoolOptions[6], entry, machine) \in S[6]
  BY <1>2, <1>3, <1>5, Zenon
<1>7. \A k \in 1 .. Len(PoolOptions) : \A y \in S[k - 1] :
          parseJSON(y, PoolOptions[k], entry, machine) \in S[k]
  <2> SUFFICES ASSUME NEW k \in 1 .. 6
               PROVE  \A y \in S[k - 1] : parseJSON(y, PoolOptions[k], entry, machine) \in S[k]
    BY <1>1
  <2>1. CASE k = 1
    BY <1>4, <2>1
  <2>2. CASE k = 2
    BY <1>6, <2>2
  <2>3. CASE k = 3
    BY <1>6, <2>3
  <2>4. CASE k = 4
    BY <1>6, <2>4
  <2>5. CASE k = 5
    BY <1>6, <2>5
  <2>6. CASE k = 6
    BY <1>6, <2>6
  <2> QED
    BY <2>1, <2>2, <2>3, <2>4, <2>5, <2>6
<1>8. Len(PoolOptions) \in Nat /\ x \in S[0]
  BY <1>1, <1>3
<1>9. parseSection(x, PoolOptions, entry, machine) \in S[Len(PoolOptions)]
  BY <1>7, <1>8, SectionReaches, Zenon
<1>10. parseSection(x, PoolOptions, entry, machine) \in After(entry, machine)
  BY <1>1, <1>3, <1>9
<1> QED
  BY <1>10 DEF After

\* The options that are settings of the last pool.  Everything else leaves the
\* pools as they are:
PoolNames == {"url", "user", "pass", "userpass", "keepalive", "nicehash"}

\* Options have pools.
LEMMA HasPools ==
    ASSUME NEW machine, NEW x \in OptionSet(machine)
    PROVE  "pools" \in DOMAIN x
BY DEF OptionSet, OptionNames

\* a number,
LEMMA NumberPools ==
    ASSUME NEW machine, NEW x \in OptionSet(machine), NEW name \in Numbers, NEW n
    PROVE  parseNumber(x, name, n).o["pools"] = x["pools"]
<1> DEFINE v == IF name \in Masks THEN Signed(n, LongMax) ELSE int(n)
<1>1. name # "pools"
  BY NamesDiffer
<1>2. parseNumber(x, name, n).o \in {x, [x EXCEPT ![name] = v]}
  BY DEF parseNumber, Set, Accept, Refuse
<1> HIDE DEF v
<1> QED
  BY <1>1, <1>2, HasPools

\* a flag,
LEMMA BooleanPools ==
    ASSUME NEW machine, NEW x \in OptionSet(machine), NEW enable,
           NEW name \in {"background", "syslog", "colors", "no-color", "huge-pages",
                         "no-huge-pages", "safe"}
    PROVE  parseBoolean(x, name, enable).o["pools"] = x["pools"]
<1>1. CASE name \in {"background", "syslog"}
  <2>1. parseBoolean(x, name, enable).o =
            [x EXCEPT ![name] = enable, !["colors"] = x["colors"] /\ ~enable]
    <3>1. "colors" \in DOMAIN x /\ name # "colors"
      BY <1>1 DEF OptionSet, OptionNames, Flags
    <3> QED
      BY <1>1, <3>1 DEF parseBoolean, Accept
  <2> QED
    BY <1>1, <2>1, HasPools
<1>2. CASE name \in {"colors", "no-color", "huge-pages", "no-huge-pages", "safe"}
  <2>1. PICK m \in {"colors", "huge-pages", "safe"} :
            parseBoolean(x, name, enable).o = [x EXCEPT ![m] = enable]
    BY <1>2 DEF parseBoolean, Set, Accept
  <2> QED
    BY <2>1, HasPools
<1> QED
  BY <1>1, <1>2

\* a text
LEMMA TextPools ==
    ASSUME NEW machine \in Machines, NEW x \in OptionSet(machine),
           NEW name \in Names \ PoolNames, NEW v
    PROVE  parseText(x, name, v, machine).o["pools"] = x["pools"]
<1> DEFINE r == parseText(x, name, v, machine)
           Others == {"algo", "url", "userpass", "user", "pass", "cc-url", "daemonized", "threads-all",
                      "background", "keepalive", "syslog", "safe", "nicehash", "no-color",
                      "no-huge-pages", "version", "help", "unknown"}
<1>a. \A m \in Others : m \notin Numbers /\ m \notin Texts
  <2>1. \A m \in Others : m \notin Numbers
    BY NumberNames
  <2>2. \A m \in Others : m \notin Texts
    BY DEF Texts
  <2> QED
    BY <2>1, <2>2
<1>1. CASE name = "algo"
  <2>1. r = setAlgo(x, v)
    BY <1>1, <1>a DEF parseText
  <2>2. \/ r.o = x
        \/ r.o = [x EXCEPT !["algo"] = v]
        \/ r.o = [x EXCEPT !["algo"] = "cryptonight-lite"]
    <3>1. CASE v = "cryptonight"
      <4>1. setAlgo(x, v) = Set(x, "algo", v)
        BY <3>1 DEF setAlgo
      <4>2. Set(x, "algo", v).o = [x EXCEPT !["algo"] = v]
        BY DEF Set, Accept
      <4> HIDE DEF r
      <4> QED
        BY <2>1, <4>1, <4>2
    <3>2. CASE v \in {"cryptonight-lite", "cryptonight-light"}
      <4>1. setAlgo(x, v) = Set(x, "algo", "cryptonight-lite")
        BY <3>2 DEF setAlgo
      <4>2. Set(x, "algo", "cryptonight-lite").o = [x EXCEPT !["algo"] = "cryptonight-lite"]
        BY DEF Set, Accept
      <4> HIDE DEF r
      <4> QED
        BY <2>1, <4>1, <4>2
    <3>3. CASE v \notin {"cryptonight", "cryptonight-lite", "cryptonight-light"}
      BY <2>1, <3>3 DEF setAlgo, Refuse
    <3> QED
      BY <3>1, <3>2, <3>3
  <2> HIDE DEF r
  <2>3. r.o["pools"] = x["pools"]
    BY <2>2, HasPools
  <2> QED
    BY <2>3 DEF r
<1>2. CASE name = "log-file"
  <2>1. name \notin Others /\ name \in Texts
    BY <1>2 DEF Texts
  <2>2. name \notin Numbers
    BY <2>1, NamesDiffer
  <2>3. r.o = [x EXCEPT !["log-file"] = v, !["colors"] = FALSE]
    BY <1>2, <2>1, <2>2 DEF parseText, Accept
  <2> QED
    BY <2>3, HasPools
<1>3. CASE name \in Texts \ {"log-file"}
  <2>1. name \notin Others /\ name # "log-file" /\ name # "pools"
    BY <1>3, <1>a DEF Texts
  <2>2. name \notin Numbers
    BY <1>3, NamesDiffer
  <2>3. r.o = [x EXCEPT ![name] = v]
    BY <1>3, <2>1, <2>2 DEF parseText, Set, Accept
  <2> QED
    BY <2>1, <2>3, HasPools
<1>4. CASE name = "cc-url"
  <2> DEFINE host == IF v.scheme = NoText THEN v.host ELSE v.scheme
             port == IF v.scheme # NoText THEN 0
                     ELSE IF v.port = NoPort THEN kDefaultCCPort ELSE uint16(strtol(v.port))
  <2>1. r = parseCCUrl(x, v)
    BY <1>4, <1>a DEF parseText
  <2>2. r.o = [x EXCEPT !["cc-host"] = host, !["cc-port"] = port]
    BY <2>1 DEF parseCCUrl, Accept
  <2> HIDE DEF port, host, r
  <2>3. r.o["pools"] = x["pools"]
    BY <2>2, HasPools
  <2> QED
    BY <2>3 DEF r
<1>5. CASE name = "daemonized"
  <2>1. r.o = [x EXCEPT !["daemonized"] = TRUE]
    BY <1>5, <1>a DEF parseText, Set, Accept
  <2> QED
    BY <2>1, HasPools
<1>6. CASE name \in Numbers
  <2>1. name \notin Others /\ name # "log-file"
    BY <1>6, <1>a, NumberNames
  <2>2. name \notin Texts
    BY <1>6, NamesDiffer
  <2>3. r = parseNumber(x, name, IF name \in Masks THEN strtoull(v) ELSE uint64(strtol(v)))
    BY <1>6, <2>1, <2>2 DEF parseText
  <2> QED
    BY <1>6, <2>3, NumberPools
<1>7. CASE name = "threads-all"
  <2>1. r.o = [x EXCEPT !["threads"] = machine.threads]
    BY <1>7, <1>a DEF parseText, Set, Accept
  <2> QED
    BY <2>1, HasPools
<1>8. CASE name \in {"background", "syslog", "safe", "no-color", "no-huge-pages"}
  <2>1. name \notin Numbers /\ name \notin Texts
    BY <1>8, <1>a
  <2>2. \E enable \in BOOLEAN : r = parseBoolean(x, name, enable)
    BY <1>8, <2>1 DEF parseText
  <2> QED
    BY <1>8, <2>2, BooleanPools
<1>9. CASE name \in {"version", "help", "unknown"}
  <2>1. name \notin Numbers /\ name \notin Texts
    BY <1>9, <1>a
  <2>2. r.o = x
    BY <1>9, <2>1 DEF parseText, Refuse
  <2> QED
    BY <2>2
<1> QED
  BY <1>1, <1>2, <1>3, <1>4, <1>5, <1>6, <1>7, <1>8, <1>9 DEF Names, PoolNames

\* and a member of an object.
LEMMA JSONPools ==
    ASSUME NEW machine \in Machines, NEW x \in OptionSet(machine), NEW object,
           NEW name \in (Names \cup Switches) \ PoolNames
    PROVE  parseJSON(x, name, object, machine)["pools"] = x["pools"]
<1> DEFINE v == object[name]
           r == parseJSON(x, name, object, machine)
<1>1. CASE name \notin DOMAIN object
  BY <1>1 DEF parseJSON
<1>2. ASSUME name \in DOMAIN object PROVE r["pools"] = x["pools"]
  <2>1. CASE v.type = "text" /\ name \notin Switches
    <3>1. r = parseText(x, name, v.value, machine).o
      BY <1>2, <2>1 DEF parseJSON
    <3> QED
      BY <2>1, <3>1, TextPools
  <2>2. CASE v.type = "number" /\ name \in Numbers
    <3>1. r = parseNumber(x, name, v.value).o
      BY <1>2, <2>2 DEF parseJSON
    <3> QED
      BY <2>2, <3>1, NumberPools
  <2>3. CASE v.type = "flag" /\ name \in Switches
    <3>1. r = parseBoolean(x, name, v.value).o
      BY <1>2, <2>3 DEF parseJSON
    <3>2. name \in {"background", "syslog", "colors", "no-color", "huge-pages", "no-huge-pages", "safe"}
      BY <2>3 DEF Switches, PoolNames
    <3> QED
      BY <3>1, <3>2, BooleanPools
  <2>4. CASE /\ ~(v.type = "text" /\ name \notin Switches)
             /\ ~(v.type = "number" /\ name \in Numbers)
             /\ ~(v.type = "flag" /\ name \in Switches)
    <3>1. r = x
      BY <1>2, <2>4, Zenon DEF parseJSON
    <3> QED
      BY <3>1
  <2> QED
    BY <2>1, <2>2, <2>3, <2>4
<1> QED
  BY <1>1, <1>2

\* A section that has nothing to say of pools.
IsOther(names) ==
    IsSection(names) /\ \A k \in 1 .. Len(names) : names[k] \notin PoolNames

\* Parsing such a section leaves the pools as they are.
LEMMA SectionPools ==
    ASSUME NEW machine \in Machines, NEW x \in OptionSet(machine), NEW object, IsObject(object),
           NEW names, IsOther(names)
    PROVE  /\ parseSection(x, names, object, machine) \in OptionSet(machine)
           /\ parseSection(x, names, object, machine)["pools"] = x["pools"]
<1> DEFINE Same == {y \in OptionSet(machine) : y["pools"] = x["pools"]}
           S == [k \in 0 .. Len(names) |-> Same]
<1>0. /\ Len(names) \in Nat
      /\ \A k \in 1 .. Len(names) : names[k] \in (Names \cup Switches) \ PoolNames
  BY DEF IsOther, IsSection
<1>1. x \in S[0] /\ S[Len(names)] = Same
  BY <1>0
<1>2. ASSUME NEW k \in 1 .. Len(names), NEW y \in S[k - 1]
      PROVE  parseJSON(y, names[k], object, machine) \in S[k]
  <2>1. S[k - 1] = Same /\ S[k] = Same
    BY <1>0
  <2>2. y \in OptionSet(machine) /\ y["pools"] = x["pools"]
    BY <2>1
  <2> HIDE DEF S
  <2>3. names[k] \in (Names \cup Switches) \ PoolNames
    BY <1>0
  <2>4. parseJSON(y, names[k], object, machine) \in OptionSet(machine)
    BY <2>2, <2>3, JSONTyped
  <2>5. parseJSON(y, names[k], object, machine)["pools"] = y["pools"]
    BY <2>2, <2>3, JSONPools
  <2> QED
    BY <2>1, <2>2, <2>4, <2>5
<1> HIDE DEF S
<1>3. parseSection(x, names, object, machine) \in S[Len(names)]
  BY <1>0, <1>1, <1>2, SectionReaches
<1> QED
  BY <1>1, <1>3

\* All sections but the one of a pool are such.
LEMMA OtherSections ==
    /\ IsOther(ConfigOptions)
    /\ IsOther(ApiOptions)
    /\ IsOther(CCClientOptions)
    /\ IsOther(CCServerOptions)
<1>1. IsOther(ConfigOptions)
  <2>1. Len(ConfigOptions) = 20 /\ \A k \in 1 .. 20 : ConfigOptions[k] \notin PoolNames
    BY DEF ConfigOptions, PoolNames
  <2> QED
    BY <2>1, SectionNames, Zenon DEF IsOther
<1>2. IsOther(ApiOptions)
  <2>1. Len(ApiOptions) = 3 /\ \A k \in 1 .. 3 : ApiOptions[k] \notin PoolNames
    BY DEF ApiOptions, PoolNames
  <2> QED
    BY <2>1, SectionNames, Zenon DEF IsOther
<1>3. IsOther(CCClientOptions)
  <2>1. Len(CCClientOptions) = 4 /\ \A k \in 1 .. 4 : CCClientOptions[k] \notin PoolNames
    BY DEF CCClientOptions, PoolNames
  <2> QED
    BY <2>1, SectionNames, Zenon DEF IsOther
<1>4. IsOther(CCServerOptions)
  <2>1. Len(CCServerOptions) = 6 /\ \A k \in 1 .. 6 : CCServerOptions[k] \notin PoolNames
    BY DEF CCServerOptions, PoolNames
  <2> QED
    BY <2>1, SectionNames, Zenon DEF IsOther
<1> QED
  BY <1>1, <1>2, <1>3, <1>4

\* The same pools are kept.
LEMMA PoolsKept ==
    ASSUME NEW machine, NEW x \in KeptSet(machine), NEW y \in OptionSet(machine),
           y["pools"] = x["pools"]
    PROVE  y \in KeptSet(machine)
BY DEF KeptSet

\* A file without a port that is 0 in 16 bits.
LEMMA ConfigKept ==
    ASSUME NEW machine \in Machines, NEW x \in KeptSet(machine), NEW file, IsFile(file),
           EntriesOf(file) \subseteq AllEntries,
           \A entry \in EntriesOf(file) : ~(GivesText(entry, "url") /\ ZeroPort(entry["url"].value))
    PROVE  parseConfig(x, file, machine) \in KeptSet(machine)
<1>1. CASE ~file.readable
  BY <1>1 DEF parseConfig
<1>2. CASE file.readable
  <2> DEFINE pools == file.pools
             n == Len(pools)
             a == parseSection(x, ConfigOptions, file.options, machine)
             b == parsePools(a, pools, machine)
             c == parseSection(b, ApiOptions, file.api, machine)
             d == parseSection(c, CCClientOptions, file.client, machine)
             e == parseSection(d, CCServerOptions, file.server, machine)
             S == [k \in 0 .. n |-> KeptSet(machine)]
  <2>1. /\ IsObject(file.options) /\ IsObject(file.api) /\ IsObject(file.client)
        /\ IsObject(file.server) /\ n \in Nat
    BY <1>2 DEF IsFile
  <2>2. \A k \in 1 .. n : pools[k] \in EntriesOf(file)
    BY <1>2 DEF EntriesOf
  <2>3. x \in OptionSet(machine)
    BY DEF KeptSet
  <2>4. a \in KeptSet(machine)
    <3>1. a \in OptionSet(machine) /\ a["pools"] = x["pools"]
      BY <2>1, <2>3, OtherSections, SectionPools
    <3> HIDE DEF a
    <3> QED
      BY <3>1, PoolsKept
  <2> HIDE DEF a
  <2>5. b \in KeptSet(machine)
    <3>1. a \in S[0] /\ S[n] = KeptSet(machine)
      BY <2>1, <2>4
    <3>2. ASSUME NEW k \in 1 .. n, NEW y \in S[k - 1]
          PROVE  parseSection(y, PoolOptions, pools[k], machine) \in S[k]
      <4>1. S[k - 1] = KeptSet(machine) /\ S[k] = KeptSet(machine)
        BY <2>1
      <4>2. pools[k] \in EntriesOf(file) /\ pools[k] \in AllEntries
        BY <2>2
      <4> DEFINE entry == pools[k]
      <4>3. ~(GivesText(entry, "url") /\ ZeroPort(entry["url"].value))
        BY <4>2
      <4> HIDE DEF S, entry
      <4>4. parseSection(y, PoolOptions, entry, machine) \in KeptSet(machine)
        BY <4>1, <4>2, <4>3, EntryKept DEF entry
      <4> QED
        BY <4>1, <4>4 DEF entry
    <3> HIDE DEF S, pools
    <3>3. parsePools(a, pools, machine) \in S[Len(pools)]
      BY <2>1, <3>1, <3>2, PoolsReach
    <3> QED
      BY <3>1, <3>3
  <2> HIDE DEF b
  <2>6. b \in OptionSet(machine)
    BY <2>5 DEF KeptSet
  <2>7. c \in OptionSet(machine) /\ c["pools"] = b["pools"]
    BY <2>1, <2>6, OtherSections, SectionPools
  <2> HIDE DEF c
  <2>8. d \in OptionSet(machine) /\ d["pools"] = c["pools"]
    BY <2>1, <2>7, OtherSections, SectionPools
  <2> HIDE DEF d
  <2>9. e \in OptionSet(machine) /\ e["pools"] = d["pools"]
    BY <2>1, <2>8, OtherSections, SectionPools
  <2> HIDE DEF e
  <2>10. e \in KeptSet(machine)
    BY <2>5, <2>7, <2>8, <2>9, PoolsKept
  <2>11. parseConfig(x, file, machine) = e
    BY <1>2 DEF parseConfig, a, b, c, d, e
  <2> QED
    BY <2>10, <2>11
<1> QED
  BY <1>1, <1>2

\* Another setting of the last pool, or a user that any pool may have.
LEMMA SettingKept ==
    ASSUME NEW machine, NEW x \in KeptSet(machine), NEW url \in Url,
           url.host = LastPool(x).host, url.port = LastPool(x).port,
           url.user = LastPool(x).user \/ Free(url.user)
    PROVE  SetBack(x, url).o \in KeptSet(machine)
<1>1. LastPool(x) \in Url /\ Kept(LastPool(x))
  BY LastKept
<1> DEFINE last == LastPool(x)
<1>2. last.port > 0 /\ Good(last.host, last.user) /\ (isValid(last) \/ Free(last.user))
  BY <1>1 DEF Kept
<1>3. url.host = last.host /\ url.port = last.port /\ (url.user = last.user \/ Free(url.user))
  OBVIOUS
<1> HIDE DEF last
<1>4. Good(url.host, url.user)
  BY <1>2, <1>3, FreeGood
<1>5. isValid(url) \/ Free(url.user)
  BY <1>2, <1>3 DEF isValid
<1>6. Kept(url)
  BY <1>2, <1>3, <1>4, <1>5 DEF Kept
<1> QED
  BY <1>6, BackKept

AllGood(x) == \A i \in 1 .. Len(x["pools"]) : Good(x["pools"][i].host, x["pools"][i].user)

\* What is kept is good.
LEMMA KeptGood ==
    ASSUME NEW machine, NEW x \in KeptSet(machine)
    PROVE  AllGood(x)
BY DEF KeptSet, Kept, AllGood

\* An argument, unless it is a file with a port that is 0 in 16 bits.  A url
\* that is refused ends the program and may leave a pool that is not kept.
LEMMA ArgKept ==
    ASSUME NEW machine \in Machines, NEW x \in KeptSet(machine), NEW arg \in Args,
           ~GivesZeroPort(arg)
    PROVE  LET r == parseArg(x, arg, machine)
           IN  AllGood(r.o) /\ (r.ok => r.o \in KeptSet(machine))
<1> DEFINE r == parseArg(x, arg, machine)
           last == LastPool(x)
<1>1. x \in OptionSet(machine)
  BY DEF KeptSet
<1>2. r.o \in OptionSet(machine)
  BY <1>1, ArgTyped
<1>3. ASSUME arg.name # "config"
      PROVE  r = parseText(x, arg.name, arg.value, machine) /\ arg.name \in Names
             /\ IsArgument(arg.name, arg.value)
  BY <1>3, InputsAssumption DEF parseArg
<1>4. last \in Url
  BY LastKept
<1> HIDE DEF last
<1>5. r.o \in KeptSet(machine) => AllGood(r.o)
  BY KeptGood
<1>6. CASE arg.name = "config"
  <2>1. r.o = parseConfig(x, arg.value, machine)
    BY <1>6 DEF parseArg, Accept
  <2>2. EntriesOf(arg.value) \subseteq AllEntries
    BY <1>6 DEF AllEntries
  <2>3. \A entry \in EntriesOf(arg.value) :
            ~(GivesText(entry, "url") /\ ZeroPort(entry["url"].value))
    BY <1>6 DEF GivesZeroPort
  <2>4. IsFile(arg.value)
    BY <1>6, InputsAssumption
  <2> DEFINE file == arg.value
  <2> HIDE DEF r, file
  <2>5. parseConfig(x, file, machine) \in KeptSet(machine)
    BY <2>2, <2>3, <2>4, ConfigKept DEF file
  <2> QED
    BY <1>5, <2>1, <2>5 DEF r, file
<1>7. CASE arg.name = "url"
  <2>1. r = parsePoolUrl(x, arg.value)
    BY <1>3, <1>7, PoolUrlText
  <2>2. arg.value \in UrlText
    BY <1>3, <1>7 DEF IsArgument
  <2> DEFINE text == arg.value
  <2> HIDE DEF text
  <2>4. /\ AllGood(parsePoolUrl(x, text).o)
        /\ parsePoolUrl(x, text).ok => parsePoolUrl(x, text).o \in KeptSet(machine)
    BY <2>2, UrlKept DEF AllGood, text
  <2> QED
    BY <2>1, <2>4 DEF text
<1>8. CASE arg.name = "user"
  <2> DEFINE url == [last EXCEPT !.user = arg.value]
  <2>1. r.o = SetBack(x, url).o
    BY <1>3, <1>7, <1>8, UserText DEF last
  <2>2. arg.value \in Strings
    BY <1>3, <1>8 DEF IsArgument
  <2>3. url \in Url /\ url.host = last.host /\ url.port = last.port /\ url.user = arg.value
    BY <1>4, <2>2 DEF Url
  <2>4. Free(arg.value)
    BY <1>8, UsersFree
  <2> HIDE DEF url
  <2>5. Free(url.user)
    BY <2>3, <2>4
  <2>6. r.o \in KeptSet(machine)
    BY <2>1, <2>3, <2>5, SettingKept DEF last
  <2> QED
    BY <1>5, <2>6
<1>9. CASE arg.name = "pass"
  <2> DEFINE url == [last EXCEPT !.pass = arg.value]
  <2>1. r.o = SetBack(x, url).o
    BY <1>3, <1>9, PassText DEF last
  <2>2. arg.value \in Strings
    BY <1>3, <1>9 DEF IsArgument
  <2>3. url \in Url /\ url.host = last.host /\ url.port = last.port /\ url.user = last.user
    BY <1>4, <2>2 DEF Url
  <2> HIDE DEF url
  <2>6. r.o \in KeptSet(machine)
    BY <2>1, <2>3, SettingKept DEF last
  <2> QED
    BY <1>5, <2>6
<1>10. CASE arg.name = "userpass"
  <2> DEFINE v == arg.value
             url == [last EXCEPT !.user = v.user, !.pass = v.pass]
  <2>0. Free(v.user)
    BY <1>10, UsersFree
  <2>1. v \in [colon : BOOLEAN, user : Strings, pass : Strings]
    BY <1>3, <1>10 DEF IsArgument
  <2>2. r = IF v.colon THEN SetBack(x, url) ELSE Refuse(x)
    BY <1>3, <1>10, UserpassText DEF last
  <2>3. url \in Url /\ url.host = last.host /\ url.port = last.port /\ url.user = v.user
    BY <1>4, <2>1 DEF Url
  <2> HIDE DEF url, v
  <2>4. r.o \in {x, SetBack(x, url).o}
    BY <2>2 DEF Refuse
  <2>5. SetBack(x, url).o \in KeptSet(machine)
    BY <2>0, <2>3, SettingKept DEF last
  <2> QED
    BY <1>5, <2>4, <2>5
<1>11. CASE arg.name \in {"keepalive", "nicehash"}
  <2> DEFINE keep == [last EXCEPT !.keepAlive = TRUE]
             nice == [last EXCEPT !.nicehash = TRUE]
  <2>1. arg.name \notin Numbers /\ arg.name \notin Texts
    BY <1>11, NumberNames DEF Texts
  <2>2. r.o \in {SetBack(x, keep).o, SetBack(x, nice).o}
    <3>1. r = parseBoolean(x, arg.name, TRUE)
      BY <1>3, <1>11, <2>1 DEF parseText
    <3> QED
      BY <1>11, <3>1 DEF parseBoolean, last, LastPool
  <2>3. /\ keep \in Url /\ keep.host = last.host /\ keep.port = last.port /\ keep.user = last.user
        /\ nice \in Url /\ nice.host = last.host /\ nice.port = last.port /\ nice.user = last.user
    BY <1>4 DEF Url
  <2> HIDE DEF keep, nice
  <2>4. SetBack(x, keep).o \in KeptSet(machine) /\ SetBack(x, nice).o \in KeptSet(machine)
    BY <2>3, SettingKept DEF last
  <2> QED
    BY <1>5, <2>2, <2>4
<1>12. CASE arg.name \notin PoolNames \cup {"config"}
  <2>1. arg.name \in Names \ PoolNames /\ r = parseText(x, arg.name, arg.value, machine)
    BY <1>3, <1>12
  <2>2. r.o["pools"] = x["pools"]
    BY <1>1, <2>1, TextPools
  <2> DEFINE y == r.o
  <2> HIDE DEF r, y
  <2>3. y \in KeptSet(machine)
    BY <1>2, <2>2, PoolsKept DEF y
  <2> QED
    BY <1>5, <2>3 DEF y, r
<1> QED
  BY <1>6, <1>7, <1>8, <1>9, <1>10, <1>11, <1>12 DEF PoolNames

\* The constructor's initial pool.
LEMMA DefaultsKept ==
    ASSUME NEW machine \in Machines
    PROVE  /\ Defaults \in KeptSet(machine)
           /\ [Defaults EXCEPT !["daemonized"] = TRUE] \in KeptSet(machine)
<1>1. Defaults \in OptionSet(machine)
  BY DefaultsTyped
<1>2. Defaults["pools"] = <<NewUrl>>
  <2>1. "pools" \notin Numbers \cup Texts \cup Flags /\ "pools" \in OptionNames
    BY NamesDiffer DEF OptionNames
  <2>2. /\ "pools" \notin {"retries", "retry-pause", "donate-level"} /\ "pools" # "max-cpu-usage"
        /\ "pools" # "print-time" /\ "pools" # "cc-update-interval-s" /\ "pools" # "cpu-priority"
        /\ "pools" \notin {"cpu-affinity", "multihash-thread-mask"} /\ "pools" # "algo"
        /\ "pools" # "cc-host"
    OBVIOUS
  <2> QED
    BY <2>1, <2>2 DEF Defaults
<1>3. NewUrl.port > 0 /\ NewUrl.user = NoText
  BY DEF NewUrl, kDefaultPort
<1>4. Free(NewUrl.user) /\ Good(NewUrl.host, NewUrl.user)
  BY <1>3, UsersFree, FreeGood
<1>5. Kept(NewUrl)
  BY <1>3, <1>4 DEF Kept
<1>6. \A i \in 1 .. Len(Defaults["pools"]) : Kept(Defaults["pools"][i])
  <2>1. \A i \in 1 .. Len(<<NewUrl>>) : <<NewUrl>>[i] = NewUrl
    OBVIOUS
  <2> QED
    BY <1>2, <1>5, <2>1
<1>7. Defaults \in KeptSet(machine)
  BY <1>1, <1>6 DEF KeptSet
<1> DEFINE d == [Defaults EXCEPT !["daemonized"] = TRUE]
<1>8. d \in OptionSet(machine)
  <2>1. "daemonized" \in Flags
    BY DEF Flags
  <2>2. /\ "daemonized" \in OptionNames /\ "daemonized" \notin Numbers \cup Texts
        /\ "daemonized" \notin {"algo", "cc-host", "pools", "threads"}
    BY <2>1, NamesDiffer, NumberNames DEF OptionNames
  <2> QED
    BY <1>1, <2>1, <2>2, SetTyped
<1>9. d["pools"] = Defaults["pools"]
  BY <1>1, HasPools
<1> HIDE DEF d
<1>10. d \in KeptSet(machine)
  BY <1>7, <1>8, <1>9, PoolsKept
<1> QED
  BY <1>7, <1>10 DEF d

\* The end of the constructor changes neither hosts nor users.
LEMMA FinishGood ==
    ASSUME NEW x \in KeptSet(cpu), cpu \in Machines, Finish(x)
    PROVE  AllGood(o') /\ phase' # "args"
<1> DEFINE chosen == FromCpu(FromVariant(x), cpu)
           best == optimizeParameters(chosen, cpu)
<1>1. x \in OptionSet(cpu) /\ AllGood(x)
  BY KeptGood DEF KeptSet
<1>2. chosen \in OptionSet(cpu) /\ chosen["pools"] = x["pools"]
  BY <1>1, ChosenTyped
<1>3. CASE ~isValid(x["pools"][1]) /\ (x["cc-host"] = NoHost \/ x["cc-port"] = 0)
  <2>1. phase' = "failed" /\ o' = x
    BY <1>3 DEF Finish
  <2> QED
    BY <1>1, <2>1
<1>4. CASE ~(~isValid(x["pools"][1]) /\ (x["cc-host"] = NoHost \/ x["cc-port"] = 0))
  <2>1. IF DividesByZero(chosen, cpu)
        THEN phase' = "crashed" /\ o' = chosen
        ELSE phase' = "ready" /\ o' = [best EXCEPT !["pools"] = Excepted(best["pools"])]
    BY <1>4, Zenon DEF Finish, Excepted
  <2> HIDE DEF chosen
  <2>2. AllGood(chosen)
    BY <1>1, <1>2 DEF AllGood
  <2>3. CASE DividesByZero(chosen, cpu)
    <3>1. phase' = "crashed" /\ o' = chosen
      BY <2>1, <2>3
    <3> QED
      BY <2>2, <3>1
  <2>4. CASE ~DividesByZero(chosen, cpu)
    <3>1. PICK n, f : Optimal(n, f, chosen, cpu) /\ best = With(chosen, n, f)
      BY <1>2, <2>4, Optimized
    <3>2. phase' = "ready" /\ o' = [best EXCEPT !["pools"] = Excepted(best["pools"])]
      BY <2>1, <2>4
    <3> HIDE DEF best
    <3>3. With(chosen, n, f) \in OptionSet(cpu)
      BY <1>2, <3>1, OptimizedTyped
    <3>4. best \in OptionSet(cpu)
      BY <3>1, <3>3
    <3>5. best["pools"] = chosen["pools"]
      BY <1>2, <3>1, HasPools DEF With
    <3>6. o'["pools"] = Excepted(best["pools"])
      BY <3>2, <3>4, HasPools
    <3>7. best["pools"] \in Seq(Url)
      BY <3>4 DEF OptionSet
    <3> DEFINE pools == best["pools"]
    <3>8. \A i \in 1 .. Len(pools) : Good(pools[i].host, pools[i].user)
      BY <2>2, <3>5 DEF AllGood
    <3>9. Len(Excepted(pools)) = Len(pools)
      BY <3>4, ExceptedTyped
    <3> HIDE DEF pools
    <3>10. \A i \in 1 .. Len(pools) :
               /\ Excepted(pools)[i].host = pools[i].host
               /\ Excepted(pools)[i].user = pools[i].user
      BY <3>7, ExceptionsTyped DEF Excepted, pools
    <3>11. o'["pools"] = Excepted(pools)
      BY <3>6 DEF pools
    <3>12. \A i \in 1 .. Len(Excepted(pools)) :
               Good(Excepted(pools)[i].host, Excepted(pools)[i].user)
      BY <3>8, <3>9, <3>10 DEF pools
    <3>13. AllGood(o')
      BY <3>11, <3>12 DEF AllGood
    <3> QED
      BY <3>2, <3>13
  <2> QED
    BY <2>3, <2>4
<1> QED
  BY <1>3, <1>4

(***************************************************************************)
(* The invariant that OwnUser rests on: as long as arguments are parsed,   *)
(* every pool is kept, and afterwards no pool has a user that its host     *)
(* should not see.                                                         *)
(***************************************************************************)
Parsed == Args \cup [name : {"config"}, value : Files]

NoZeroPort == \A i \in DOMAIN args : ~GivesZeroPort(args[i])

UsersInv ==
    /\ args \in Seq(Parsed)
    /\ NoZeroPort => AllGood(o) /\ (phase = "args" => o \in KeptSet(cpu))

\* The program starts with a pool that is kept.
LEMMA InitUsers == Init => UsersInv
<1> SUFFICES ASSUME Init PROVE UsersInv
  OBVIOUS
<1>1. cpu \in Machines /\ args = <<>>
  BY DEF Init
<1>2. o \in KeptSet(cpu)
  BY <1>1, DefaultsKept DEF Init
<1> QED
  BY <1>1, <1>2, KeptGood DEF UsersInv

\* Every step keeps the invariant.
LEMMA NextUsers == IInv /\ UsersInv /\ [Next]_vars => UsersInv'
<1> SUFFICES ASSUME IInv, UsersInv, [Next]_vars PROVE UsersInv'
  OBVIOUS
<1>0. cpu \in Machines /\ args \in Seq(Parsed)
  BY DEF IInv, UsersInv
<1>a. ASSUME NEW arg \in Parsed, args' = Append(args, arg), NoZeroPort'
      PROVE  args' \in Seq(Parsed) /\ NoZeroPort /\ ~GivesZeroPort(arg)
  <2>1. args' \in Seq(Parsed)
    BY <1>0, <1>a
  <2>2. /\ DOMAIN args' = 1 .. Len(args) + 1 /\ DOMAIN args = 1 .. Len(args) /\ Len(args) \in Nat
        /\ args'[Len(args) + 1] = arg /\ \A i \in DOMAIN args : args'[i] = args[i]
    BY <1>0, <1>a
  <2>3. \A i \in DOMAIN args' : ~GivesZeroPort(args'[i])
    BY <1>a DEF NoZeroPort
  <2>4. Len(args) + 1 \in DOMAIN args' /\ \A i \in DOMAIN args : i \in DOMAIN args'
    BY <2>2
  <2>5. ~GivesZeroPort(arg)
    BY <2>2, <2>3, <2>4, Zenon
  <2>6. NoZeroPort
    BY <2>2, <2>3, <2>4, Zenon DEF NoZeroPort
  <2> QED
    BY <2>1, <2>5, <2>6
<1>b. ASSUME phase' # "args", UNCHANGED <<o, args>> PROVE UsersInv'
  <2>1. NoZeroPort' => NoZeroPort
    BY <1>b DEF NoZeroPort
  <2>2. AllGood(o)' = AllGood(o)
    BY <1>b
  <2> QED
    BY <1>0, <1>b, <2>1, <2>2 DEF UsersInv
<1>1. ASSUME NEW arg \in Args, parse(arg) PROVE UsersInv'
  <2>1. /\ o' = parseArg(o, arg, cpu).o /\ cpu' = cpu /\ args' = Append(args, arg)
        /\ phase = "args" /\ phase' = IF parseArg(o, arg, cpu).ok THEN "args" ELSE "failed"
    BY <1>1 DEF parse
  <2>2. arg \in Parsed
    BY DEF Parsed
  <2>3. args' \in Seq(Parsed)
    BY <1>0, <2>1, <2>2
  <2>4. ASSUME NoZeroPort' PROVE AllGood(o') /\ (phase' = "args" => o' \in KeptSet(cpu))
    <3>1. NoZeroPort /\ ~GivesZeroPort(arg)
      BY <1>a, <2>1, <2>2, <2>4
    <3>2. o \in KeptSet(cpu)
      BY <2>1, <3>1 DEF UsersInv
    <3>3. /\ AllGood(parseArg(o, arg, cpu).o)
          /\ parseArg(o, arg, cpu).ok => parseArg(o, arg, cpu).o \in KeptSet(cpu)
      BY <1>0, <3>1, <3>2, ArgKept
    <3> QED
      BY <2>1, <3>3
  <2>5. NoZeroPort' => AllGood(o') /\ (phase' = "args" => o' \in KeptSet(cpu'))
    BY <2>1, <2>4
  <2> QED
    BY <2>3, <2>5 DEF UsersInv, AllGood
<1>2. CASE parse_NonOption
  BY <1>2, <1>b DEF parse_NonOption
<1>3. CASE construct
  <2>1. phase = "args"
    BY <1>3 DEF construct
  <2>2. CASE ~o["daemonized"]
    <3>1. phase' = "failed" /\ UNCHANGED <<o, args>>
      BY <1>3, <2>2 DEF construct
    <3> QED
      BY <1>b, <3>1
  <2>3. CASE o["daemonized"] /\ isValid(o["pools"][1])
    <3>1. Finish(o) /\ args' = args
      BY <1>3, <2>3 DEF construct
    <3>2. ASSUME NoZeroPort' PROVE AllGood(o') /\ phase' # "args"
      <4>1. NoZeroPort
        BY <3>1, <3>2 DEF NoZeroPort
      <4>2. o \in KeptSet(cpu)
        BY <2>1, <4>1 DEF UsersInv
      <4> QED
        BY <1>0, <3>1, <4>2, FinishGood
    <3> QED
      BY <1>0, <3>1, <3>2 DEF UsersInv, AllGood
  <2>4. CASE o["daemonized"] /\ ~isValid(o["pools"][1])
    <3>1. PICK file \in Files : /\ Finish(parseConfig(o, file, cpu))
                                /\ args' = Append(args, [name |-> "config", value |-> file])
      BY <1>3, <2>4 DEF construct
    <3> DEFINE arg == [name |-> "config", value |-> file]
    <3>2. arg \in Parsed /\ arg.name = "config" /\ arg.value = file
      BY DEF Parsed
    <3> HIDE DEF arg
    <3>3. args' = Append(args, arg)
      BY <3>1 DEF arg
    <3>4. args' \in Seq(Parsed)
      BY <1>0, <3>2, <3>3
    <3>5. ASSUME NoZeroPort' PROVE AllGood(o') /\ phase' # "args"
      <4>1. NoZeroPort /\ ~GivesZeroPort(arg)
        BY <1>a, <3>2, <3>3, <3>5
      <4>2. o \in KeptSet(cpu)
        BY <2>1, <4>1 DEF UsersInv
      <4>3. IsFile(file) /\ EntriesOf(file) \subseteq AllEntries
        BY InputsAssumption DEF AllEntries
      <4>4. \A entry \in EntriesOf(file) :
                ~(GivesText(entry, "url") /\ ZeroPort(entry["url"].value))
        BY <3>2, <4>1 DEF GivesZeroPort
      <4>5. parseConfig(o, file, cpu) \in KeptSet(cpu)
        BY <1>0, <4>2, <4>3, <4>4, ConfigKept
      <4> QED
        BY <1>0, <3>1, <4>5, FinishGood
    <3> QED
      BY <3>4, <3>5 DEF UsersInv, AllGood
  <2> QED
    BY <2>2, <2>3, <2>4
<1>4. CASE start_SelfTestFails
  BY <1>4, <1>b DEF start_SelfTestFails
<1>5. CASE start_Allocate
  BY <1>5, <1>b DEF start_Allocate
<1>6. CASE start_Run
  BY <1>6, <1>b DEF start_Run
<1>7. CASE start_Ends \/ destroy
  BY <1>7, <1>b DEF start_Ends, destroy
<1>8. CASE UNCHANGED vars
  <2>1. phase' = phase /\ cpu' = cpu /\ o' = o /\ args' = args
    BY <1>8 DEF vars
  <2> QED
    BY <2>1 DEF UsersInv, AllGood, NoZeroPort
<1> QED
  BY <1>1, <1>2, <1>3, <1>4, <1>5, <1>6, <1>7, <1>8 DEF Next

(***************************************************************************)
(* A pool logs in with the user of its own entry, whatever arguments and   *)
(* files are parsed in whatever order, as long as no entry of a file has a *)
(* port that is 0 in 16 bits (Options.cpp parseConfig, parseArg).          *)
(***************************************************************************)
THEOREM OwnUserHolds == Spec => []OwnUser
<1>1. Init => UsersInv
  BY InitUsers
<1>2. IInv /\ UsersInv /\ [Next]_vars => UsersInv'
  BY NextUsers
<1>3. ASSUME IInv, UsersInv PROVE OwnUser
  <2> SUFFICES ASSUME NoZeroPort, NEW pool \in Range(o["pools"]), NEW entry \in Entries,
                      NamesUser(entry, pool.user), UsesUrl(entry)
               PROVE  entry["url"].value.host = pool.host
    BY Zenon DEF OwnUser, NoZeroPort
  <2>1. \A i \in 1 .. Len(o["pools"]) : Good(o["pools"][i].host, o["pools"][i].user)
    BY <1>3 DEF UsersInv, AllGood
  <2>2. o["pools"] \in Seq(Url)
    BY <1>3 DEF IInv, OptionSet
  <2>3. PICK i \in 1 .. Len(o["pools"]) : pool = o["pools"][i]
    BY <2>2 DEF Range
  <2>4. Good(pool.host, pool.user)
    BY <2>1, <2>3
  <2>5. entry \in AllEntries
    <3>1. PICK j \in DOMAIN args : args[j].name = "config" /\ entry \in EntriesOf(args[j].value)
      BY DEF Entries
    <3>2. args[j] \in Parsed
      BY <1>3 DEF UsersInv
    <3>3. args[j].value \in Files \cup {arg.value : arg \in {a \in Args : a.name = "config"}}
      BY <3>1, <3>2 DEF Parsed
    <3> QED
      BY <3>1, <3>3 DEF AllEntries
  <2> QED
    BY <2>4, <2>5 DEF Good
<1> QED
  BY <1>1, <1>2, <1>3, Invariance, PTL DEF Spec

=============================================================================
