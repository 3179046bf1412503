-------------------------- MODULE CryptoNightProofs --------------------------
(***************************************************************************)
(* Every kernel of every build computes the CryptoNight hash of each of    *)
(* its lanes' inputs, for any number of lanes, any scratchpads, any number *)
(* of iterations and any ciphers.  Each primitive of a build is first shown*)
(* to be the standard's: the multiplication from 32-bit halves, the key    *)
(* schedule, the rounds, the two passes over a scratchpad and an iteration *)
(* of the loop.  Then a lane that has made d operations has what the       *)
(* standard has there (LaneAt), whichever lanes the kernel moves between   *)
(* two of them.                                                            *)
(***************************************************************************)
EXTENDS CryptoNight, TLAPS, WellFoundedInduction

-----------------------------------------------------------------------------
(* Quotients *)

\* A quotient is the largest number whose product with the divisor fits.
LEMMA DivBounds ==
    ASSUME NEW a \in Nat, NEW b \in Nat \ {0}
    PROVE  /\ a \div b \in Nat
           /\ b * (a \div b) <= a
           /\ a < b * (a \div b) + b
BY SMT

\* The quotient is the only number between these bounds.
LEMMA DivUnique ==
    ASSUME NEW a \in Nat, NEW b \in Nat \ {0}, NEW q \in Nat,
           b * q <= a, a < b * q + b
    PROVE  a \div b = q
<1> DEFINE t == a \div b
<1>1. t \in Nat /\ b * t <= a /\ a < b * t + b
  BY DivBounds
<1> HIDE DEF t
<1>2. CASE t < q
  <2>1. q >= t + 1 BY <1>1, <1>2
  <2>2. b * q >= b * (t + 1) BY <1>1, <2>1, SMT
  <2>3. b * (t + 1) = b * t + b BY <1>1, SMT
  <2> QED BY <1>1, <2>2, <2>3
<1>3. CASE t > q
  <2>1. t >= q + 1 BY <1>1, <1>3
  <2>2. b * t >= b * (q + 1) BY <1>1, <2>1, SMT
  <2>3. b * (q + 1) = b * q + b BY <1>1, SMT
  <2> QED BY <1>1, <2>2, <2>3
<1>4. t = q BY <1>1, <1>2, <1>3
<1> QED BY <1>4 DEF t

\* A remainder is below its modulus, and a number below it is its own remainder.
LEMMA ModRange ==
    ASSUME NEW a \in Nat, NEW b \in Nat \ {0}
    PROVE  /\ a % b \in 0 .. b - 1
           /\ a < b => a % b = a
BY SMT

-----------------------------------------------------------------------------
(* The multiplication *)

\* A product of two limbs leaves room for a limb in a word.
LEMMA LimbProduct ==
    ASSUME NEW h \in Nat \ {0}, NEW a \in 0 .. h - 1, NEW b \in 0 .. h - 1
    PROVE  /\ a * b \in Nat
           /\ a * b <= (h - 1) * (h - 1)
           /\ (h - 1) * (h - 1) = h * h - 2 * h + 1
<1>1. a * b <= (h - 1) * b
  BY SMT
<1>2. (h - 1) * b <= (h - 1) * (h - 1)
  BY SMT
<1>3. a * b \in Nat /\ (h - 1) * b \in Nat /\ (h - 1) * (h - 1) \in Nat
  BY SMT
<1>4. (h - 1) * (h - 1) = h * h - 2 * h + 1
  BY SMT
<1> QED
  BY <1>1, <1>2, <1>3, <1>4

\* A number below h * h is its two limbs.
LEMMA TwoLimbs ==
    ASSUME NEW h \in Nat \ {0}, NEW x \in 0 .. h * h - 1
    PROVE  /\ x \div h \in 0 .. h - 1
           /\ x % h \in 0 .. h - 1
           /\ x = h * (x \div h) + (x % h)
<1>1. h * h \in Nat /\ x \in Nat
  BY SMT
<1> DEFINE q == x \div h
<1>2. q \in Nat /\ h * q <= x
  BY <1>1, DivBounds
<1>3. x % h \in 0 .. h - 1
  BY <1>1, ModRange
<1>4. x = h * q + (x % h)
  BY <1>1, SMT
<1> HIDE DEF q
<1>5. q < h
  <2> SUFFICES ASSUME q >= h PROVE FALSE
    BY <1>2
  <2>1. h * q >= h * h
    BY <1>2, SMT
  <2> QED
    BY <1>1, <1>2, <2>1
<1> QED
  BY <1>2, <1>3, <1>4, <1>5 DEF q

\* An addition of two words wraps at most once, and a sum that is smaller than
\* one of them shows it: what the carries of the code rely on.
LEMMA CarryIsOverflow ==
    ASSUME NEW w \in Nat \ {0}, NEW u \in 0 .. w - 1, NEW v \in 0 .. w - 1
    PROVE  LET s == (u + v) % w
               k == IF s < u THEN 1 ELSE 0
           IN  s \in 0 .. w - 1 /\ k \in {0, 1} /\ u + v = s + k * w
<1> DEFINE s == (u + v) % w
<1>1. s \in 0 .. w - 1
  BY ModRange
<1>2. CASE u + v < w
  <2>1. u + v \in Nat
    OBVIOUS
  <2>2. s = u + v
    BY <1>2, <2>1, ModRange
  <2> QED
    BY <1>1, <2>2
<1>3. CASE u + v >= w
  <2>1. u + v - w \in 0 .. w - 1
    BY <1>3
  <2>2. s = u + v - w
    BY <2>1, SMT
  <2> QED
    BY <1>1, <2>1, <2>2
<1> QED
  BY <1>2, <1>3

\* The low word is where the sum ends, the high word what is carried out of it.
LEMMA LowAndHigh ==
    ASSUME NEW w \in Nat \ {0}, NEW n \in Nat, NEW lo \in 0 .. w - 1, NEW hi \in Nat,
           n = w * hi + lo
    PROVE  n % w = lo /\ n \div w = hi
<1>1. w * hi \in Nat
  BY SMT
<1>2. n \div w = hi
  BY <1>1, DivUnique
<1>3. n = w * (n \div w) + (n % w)
  BY SMT
<1>4. n % w = lo
  <2>1. n % w \in Nat
    BY ModRange
  <2> QED
    BY <1>1, <1>2, <1>3, <2>1
<1> QED
  BY <1>2, <1>4

\* A multiple of the modulus can be added.
LEMMA ModAdds ==
    ASSUME NEW w \in Nat \ {0}, NEW n \in Nat, NEW m \in Nat
    PROVE  (w * m + n) % w = n % w
<1> DEFINE r == n % w
           q == n \div w
<1>1. r \in 0 .. w - 1 /\ q \in Nat
  BY ModRange, DivBounds
<1>a. n = w * q + r
  BY SMT
<1> HIDE DEF r, q
<1>2. w * m \in Nat /\ w * q \in Nat /\ w * (m + q) = w * m + w * q /\ m + q \in Nat
  BY <1>1, SMT
<1>3. w * m + n = w * (m + q) + r /\ w * m + n \in Nat
  BY <1>1, <1>2, <1>a
<1>4. (w * m + n) % w = r
  <2> DEFINE sum == w * m + n
             hi == m + q
  <2>1. sum \in Nat /\ hi \in Nat /\ sum = w * hi + r
    BY <1>2, <1>3
  <2> HIDE DEF sum, hi
  <2>2. sum % w = r
    BY <1>1, <2>1, LowAndHigh
  <2> QED
    BY <2>2 DEF sum
<1> QED
  BY <1>4 DEF r

\* __umul128 of the 32-bit builds (CryptoNight_x86.h:78) returns both words of the
\* product, for every width of a limb: no carry is lost and none is counted twice.
THEOREM MultiplicationsAgree ==
    ASSUME NEW h \in Nat \ {0}, NEW x \in 0 .. h * h - 1, NEW y \in 0 .. h * h - 1
    PROVE  umul128_32(h, x, y) = umul128(h, x, y)
<1> DEFINE w == h * h
           a == x \div h
           b == x % h
           c == y \div h
           d == y % h
           adbc == (a * d + b * c) % w
           k == IF adbc < a * d THEN 1 ELSE 0
           lo == (b * d + adbc * h) % w
           l == IF lo < b * d THEN 1 ELSE 0
           hi == a * c + adbc \div h + k * h + l
<1>1. w \in Nat \ {0}
  BY SMT
<1>2. a \in 0 .. h - 1 /\ b \in 0 .. h - 1 /\ c \in 0 .. h - 1 /\ d \in 0 .. h - 1
  BY TwoLimbs
<1>3. x = h * a + b /\ y = h * c + d
  BY TwoLimbs
<1>4. /\ a * d \in 0 .. w - 1 /\ b * c \in 0 .. w - 1
      /\ b * d \in 0 .. w - 1 /\ a * c \in Nat
  <2> HIDE DEF a, b, c, d
  <2>1. \A p, q \in 0 .. h - 1 : p * q \in Nat /\ p * q <= h * h - 2 * h + 1
    BY LimbProduct
  <2>2. h * h - 2 * h + 1 <= h * h - 1
    BY <1>1
  <2> QED
    BY <1>1, <1>2, <2>1, <2>2
<1>5. adbc \in 0 .. w - 1 /\ k \in {0, 1} /\ a * d + b * c = adbc + k * w
  <2> DEFINE u == a * d
             v == b * c
  <2>1. u \in 0 .. w - 1 /\ v \in 0 .. w - 1
    BY <1>4
  <2> HIDE DEF u, v, w
  <2> QED
    BY <1>1, <2>1, CarryIsOverflow DEF u, v
<1> DEFINE g == adbc \div h
           r == adbc % h
<1>6. g \in 0 .. h - 1 /\ r \in 0 .. h - 1 /\ adbc = h * g + r
  <2> HIDE DEF adbc
  <2> QED
    BY <1>5, TwoLimbs
<1> HIDE DEF a, b, c, d, adbc, g, r
<1>7. adbc * h = w * g + r * h /\ r * h \in 0 .. w - 1
  <2>1. adbc * h = w * g + r * h
    BY <1>6, SMT
  <2>2. r * h \in Nat /\ r * h <= (h - 1) * h /\ (h - 1) * h = h * h - h
    BY <1>6, SMT
  <2> QED
    BY <1>1, <2>1, <2>2
<1>8. lo = (b * d + r * h) % w
  <2> DEFINE u == b * d
             v == r * h
  <2>1. u \in Nat /\ v \in Nat /\ w * g \in Nat /\ u + v \in Nat /\ g \in Nat
    BY <1>1, <1>4, <1>6, <1>7, SMT
  <2>2. b * d + adbc * h = w * g + (u + v)
    BY <1>7, <2>1
  <2> HIDE DEF w, u, v
  <2>3. (w * g + (u + v)) % w = (u + v) % w
    BY <1>1, <2>1, ModAdds
  <2> QED
    BY <2>2, <2>3 DEF u, v
<1>9. lo \in 0 .. w - 1 /\ l \in {0, 1} /\ b * d + r * h = lo + l * w
  <2> DEFINE u == b * d
             v == r * h
  <2>1. u \in 0 .. w - 1 /\ v \in 0 .. w - 1 /\ lo = (u + v) % w
    BY <1>4, <1>7, <1>8
  <2> HIDE DEF u, v, w, lo
  <2> QED
    BY <1>1, <2>1, CarryIsOverflow DEF u, v
<1> HIDE DEF k, lo, l
<1>10. hi \in Nat
  BY <1>4, <1>5, <1>6, <1>9, SMT DEF g
<1>11. x * y = w * hi + lo
  <2>1. x * y = w * (a * c) + h * (a * d + b * c) + b * d
    BY <1>2, <1>3, SMT
  <2>2. h * (a * d + b * c) = h * adbc + h * (k * w)
    BY <1>1, <1>5, SMT
  <2>3. h * adbc = w * g + r * h
    BY <1>5, <1>7, SMT
  <2>4. x * y = w * (a * c) + w * g + h * (k * w) + (r * h + b * d)
    BY <1>1, <1>2, <1>4, <1>5, <1>6, <1>7, <2>1, <2>2, <2>3, SMT
  <2>5. x * y = w * (a * c) + w * g + h * (k * w) + l * w + lo
    BY <1>1, <1>2, <1>4, <1>5, <1>6, <1>7, <1>9, <2>4, SMT
  <2>6. hi = a * c + g + k * h + l
    BY DEF g
  <2> QED
    BY <1>1, <1>2, <1>4, <1>5, <1>6, <1>9, <2>5, <2>6, SMT
<1> DEFINE n == x * y
<1>12. n \in Nat /\ n < w * w
  <2>1. x \in Nat /\ y \in Nat /\ x <= w - 1 /\ y <= w - 1
    BY <1>1
  <2> HIDE DEF w
  <2>2. x * y <= x * (w - 1) /\ x * (w - 1) <= (w - 1) * (w - 1)
    BY <1>1, <2>1, SMT
  <2>3. (w - 1) * (w - 1) < w * w
    BY <1>1, SMT
  <2>4. x * y \in Nat /\ x * (w - 1) \in Nat /\ (w - 1) * (w - 1) \in Nat /\ w * w \in Nat
    BY <1>1, <2>1, SMT
  <2> QED
    BY <2>2, <2>3, <2>4
<1>13. hi < w
  <2> HIDE DEF w, hi, n
  <2> SUFFICES ASSUME hi >= w PROVE FALSE
    BY <1>1, <1>10
  <2>1. w * hi >= w * w
    BY <1>1, <1>10, SMT
  <2>2. n = w * hi + lo
    BY <1>11 DEF n
  <2>3. w * hi \in Nat /\ w * w \in Nat
    BY <1>1, <1>10, SMT
  <2> QED
    BY <1>9, <1>12, <2>1, <2>2, <2>3
<1>14. n % w = lo /\ n \div w = hi /\ hi % w = hi
  <2> HIDE DEF w, hi, n
  <2> QED
    BY <1>1, <1>9, <1>10, <1>11, <1>12, <1>13, LowAndHigh, ModRange DEF n
<1>15. umul128(h, x, y) = <<lo, hi>>
  BY <1>14 DEF umul128
<1>16. umul128_32(h, x, y) = <<lo, hi % w>>
  BY DEF umul128_32, lo, hi, l, k, adbc, a, b, c, d
<1> QED
  BY <1>14, <1>15, <1>16

-----------------------------------------------------------------------------
(* Exclusive or *)

\* A limb is four bits.
Nibble(a, b, c, d) == a + 2 * b + 4 * c + 8 * d

\* The sum of two bits without its carry.
Odd(a, b) == (a + b) % 2

\* Every limb is made of four bits.
LEMMA LimbBits ==
    ASSUME NEW x \in Limb
    PROVE  \E a, b, c, d \in {0, 1} : x = Nibble(a, b, c, d)
<1> DEFINE a == x % 2
           b == (x \div 2) % 2
           c == (x \div 4) % 2
           d == (x \div 8) % 2
<1>1. x = 2 * (x \div 2) + a /\ a \in {0, 1}
  BY DEF Limb, L
<1>2. x \div 2 = 2 * (x \div 4) + b /\ b \in {0, 1}
  BY DEF Limb, L
<1>3. x \div 4 = 2 * (x \div 8) + c /\ c \in {0, 1}
  BY DEF Limb, L
<1>4. x \div 8 = d /\ d \in {0, 1}
  BY DEF Limb, L
<1>5. x = Nibble(a, b, c, d)
  BY <1>1, <1>2, <1>3, <1>4 DEF Nibble, Limb
<1> QED
  BY <1>1, <1>2, <1>3, <1>4, <1>5, Zenon

\* Four bits are a limb, and the bits can be read off it.
LEMMA NibbleBits ==
    ASSUME NEW a \in {0, 1}, NEW b \in {0, 1}, NEW c \in {0, 1}, NEW d \in {0, 1}
    PROVE  LET x == Nibble(a, b, c, d)
           IN  /\ x \in Limb
               /\ x % 2 = a /\ x \div 2 = b + 2 * c + 4 * d
               /\ x \div 4 = c + 2 * d /\ x \div 8 = d
  BY DEF Nibble, Limb, L

\* The table computes bit by bit.
LEMMA TableBits ==
    ASSUME NEW a \in {0, 1}, NEW b \in {0, 1}, NEW c \in {0, 1}, NEW d \in {0, 1},
           NEW e \in {0, 1}, NEW f \in {0, 1}, NEW g \in {0, 1}, NEW h \in {0, 1}
    PROVE  XorTable[Nibble(a, b, c, d)][Nibble(e, f, g, h)]
               = Nibble(Odd(a, e), Odd(b, f), Odd(c, g), Odd(d, h))
<1> DEFINE x == Nibble(a, b, c, d)
           y == Nibble(e, f, g, h)
<1>1. x \in Limb /\ x \div 2 = b + 2 * c + 4 * d /\ x \div 4 = c + 2 * d /\ x \div 8 = d
  BY NibbleBits
<1>2. y \in Limb /\ y \div 2 = f + 2 * g + 4 * h /\ y \div 4 = g + 2 * h /\ y \div 8 = h
  BY NibbleBits
<1>a. x = a + 2 * b + 4 * c + 8 * d /\ y = e + 2 * f + 4 * g + 8 * h
  BY DEF Nibble
<1> HIDE DEF x, y
<1>3. 2^0 = 1 /\ 2^1 = 2 /\ 2^2 = 4 /\ 2^3 = 8
  BY SMT
<1>b. x \in Int /\ y \in Int
  BY <1>1, <1>2 DEF Limb, L
<1>4. x \div 1 = x /\ y \div 1 = y
  BY <1>b
<1>5. XorTable[x][y] = ((x \div 2^0 + y \div 2^0) % 2) * 2^0 + ((x \div 2^1 + y \div 2^1) % 2) * 2^1
                     + ((x \div 2^2 + y \div 2^2) % 2) * 2^2 + ((x \div 2^3 + y \div 2^3) % 2) * 2^3
  BY <1>1, <1>2, Zenon DEF XorTable
<1>6. XorTable[x][y] = ((x + y) % 2) + ((x \div 2 + y \div 2) % 2) * 2
                     + ((x \div 4 + y \div 4) % 2) * 4 + ((x \div 8 + y \div 8) % 2) * 8
  <2>1. XorTable[x][y] = ((x \div 1 + y \div 1) % 2) * 1 + ((x \div 2 + y \div 2) % 2) * 2
                       + ((x \div 4 + y \div 4) % 2) * 4 + ((x \div 8 + y \div 8) % 2) * 8
    BY <1>3, <1>5, Zenon
  <2>2. (x + y) % 2 \in Int
    BY <1>b
  <2>3. ((x + y) % 2) * 1 = (x + y) % 2
    BY <2>2
  <2> QED
    BY <1>4, <2>1, <2>3, Zenon
<1>7. (x + y) % 2 = Odd(a, e)
  BY <1>a DEF Odd
<1>8. (x \div 2 + y \div 2) % 2 = Odd(b, f)
  BY <1>1, <1>2 DEF Odd
<1>9. (x \div 4 + y \div 4) % 2 = Odd(c, g)
  BY <1>1, <1>2 DEF Odd
<1>10. (x \div 8 + y \div 8) % 2 = Odd(d, h)
  BY <1>1, <1>2 DEF Odd
<1>11. Odd(a, e) \in Int /\ Odd(b, f) \in Int /\ Odd(c, g) \in Int /\ Odd(d, h) \in Int
  BY DEF Odd
<1>12. XorTable[x][y] = Nibble(Odd(a, e), Odd(b, f), Odd(c, g), Odd(d, h))
  BY <1>6, <1>7, <1>8, <1>9, <1>10, <1>11, SMT DEF Nibble
<1> QED
  BY <1>12 DEF x, y

\* The sum of bits without carry is a bit, commutes, associates and has a zero.
LEMMA OddBits ==
    /\ \A a, b \in {0, 1} : Odd(a, b) \in {0, 1} /\ Odd(a, b) = Odd(b, a) /\ Odd(a, 0) = a
    /\ \A a, b, c \in {0, 1} : Odd(Odd(a, b), c) = Odd(a, Odd(b, c))
  BY DEF Odd

\* The exclusive or of limbs is a limb, commutes and has a zero.
LEMMA XorLimb ==
    ASSUME NEW x \in Limb, NEW y \in Limb
    PROVE  /\ XorTable[x][y] \in Limb
           /\ XorTable[x][y] = XorTable[y][x]
           /\ XorTable[x][0] = x
<1>1. PICK a, b, c, d \in {0, 1} : x = Nibble(a, b, c, d)
  BY LimbBits
<1>2. PICK e, f, g, h \in {0, 1} : y = Nibble(e, f, g, h)
  BY LimbBits
<1>3. XorTable[x][y] = Nibble(Odd(a, e), Odd(b, f), Odd(c, g), Odd(d, h))
  BY <1>1, <1>2, TableBits
<1>4. XorTable[y][x] = Nibble(Odd(e, a), Odd(f, b), Odd(g, c), Odd(h, d))
  BY <1>1, <1>2, TableBits
<1>5. 0 = Nibble(0, 0, 0, 0)
  BY DEF Nibble
<1>6. XorTable[x][0] = Nibble(Odd(a, 0), Odd(b, 0), Odd(c, 0), Odd(d, 0))
  <2>1. XorTable[x][Nibble(0, 0, 0, 0)] = Nibble(Odd(a, 0), Odd(b, 0), Odd(c, 0), Odd(d, 0))
    BY <1>1, TableBits
  <2> QED
    BY <1>5, <2>1
<1>7. XorTable[x][y] \in Limb
  <2>1. Odd(a, e) \in {0, 1} /\ Odd(b, f) \in {0, 1} /\ Odd(c, g) \in {0, 1} /\ Odd(d, h) \in {0, 1}
    BY OddBits
  <2> QED
    BY <1>3, <2>1, NibbleBits
<1> QED
  BY <1>1, <1>3, <1>4, <1>6, <1>7, OddBits

\* The exclusive or of limbs associates.
LEMMA XorLimbAssociates ==
    ASSUME NEW x \in Limb, NEW y \in Limb, NEW z \in Limb
    PROVE  XorTable[XorTable[x][y]][z] = XorTable[x][XorTable[y][z]]
<1>1. PICK a, b, c, d \in {0, 1} : x = Nibble(a, b, c, d)
  BY LimbBits
<1>2. PICK e, f, g, h \in {0, 1} : y = Nibble(e, f, g, h)
  BY LimbBits
<1>3. PICK i, j, k, l \in {0, 1} : z = Nibble(i, j, k, l)
  BY LimbBits
<1>4. XorTable[x][y] = Nibble(Odd(a, e), Odd(b, f), Odd(c, g), Odd(d, h))
  BY <1>1, <1>2, TableBits
<1>5. XorTable[y][z] = Nibble(Odd(e, i), Odd(f, j), Odd(g, k), Odd(h, l))
  BY <1>2, <1>3, TableBits
<1>6. /\ Odd(a, e) \in {0, 1} /\ Odd(b, f) \in {0, 1} /\ Odd(c, g) \in {0, 1} /\ Odd(d, h) \in {0, 1}
      /\ Odd(e, i) \in {0, 1} /\ Odd(f, j) \in {0, 1} /\ Odd(g, k) \in {0, 1} /\ Odd(h, l) \in {0, 1}
  BY OddBits
<1>7. XorTable[XorTable[x][y]][z]
          = Nibble(Odd(Odd(a, e), i), Odd(Odd(b, f), j), Odd(Odd(c, g), k), Odd(Odd(d, h), l))
  BY <1>3, <1>4, <1>6, TableBits
<1>8. XorTable[x][XorTable[y][z]]
          = Nibble(Odd(a, Odd(e, i)), Odd(b, Odd(f, j)), Odd(c, Odd(g, k)), Odd(d, Odd(h, l)))
  BY <1>1, <1>5, <1>6, TableBits
<1> QED
  BY <1>7, <1>8, OddBits

-----------------------------------------------------------------------------
(* Words and blocks *)

Word == 0 .. L * L - 1

\* A block is four limbs.
LEMMA BlockLimbs ==
    ASSUME NEW x \in Blocks
    PROVE  /\ x = <<x[1], x[2], x[3], x[4]>>
           /\ x[1] \in Limb /\ x[2] \in Limb /\ x[3] \in Limb /\ x[4] \in Limb
  BY DEF Blocks

\* Four limbs are a block.
LEMMA IsBlock ==
    ASSUME NEW a \in Limb, NEW b \in Limb, NEW c \in Limb, NEW d \in Limb
    PROVE  <<a, b, c, d>> \in Blocks
  BY DEF Blocks

\* The exclusive or of blocks is a block, commutes and has a zero.
LEMMA XorBlocks ==
    ASSUME NEW x \in Blocks, NEW y \in Blocks
    PROVE  /\ Xor(x, y) \in Blocks
           /\ Xor(x, y) = Xor(y, x)
           /\ Xor(x, Zero) = x
<1>1. /\ x = <<x[1], x[2], x[3], x[4]>>
      /\ x[1] \in Limb /\ x[2] \in Limb /\ x[3] \in Limb /\ x[4] \in Limb
  BY BlockLimbs
<1>2. y[1] \in Limb /\ y[2] \in Limb /\ y[3] \in Limb /\ y[4] \in Limb
  BY BlockLimbs
<1>3. Xor(x, y) \in Blocks
  <2>1. /\ XorTable[x[1]][y[1]] \in Limb /\ XorTable[x[2]][y[2]] \in Limb
        /\ XorTable[x[3]][y[3]] \in Limb /\ XorTable[x[4]][y[4]] \in Limb
    BY <1>1, <1>2, XorLimb, Zenon
  <2> QED
    BY <2>1, IsBlock, Zenon DEF Xor
<1>4. Xor(x, y) = Xor(y, x)
  <2>1. /\ XorTable[x[1]][y[1]] = XorTable[y[1]][x[1]] /\ XorTable[x[2]][y[2]] = XorTable[y[2]][x[2]]
        /\ XorTable[x[3]][y[3]] = XorTable[y[3]][x[3]] /\ XorTable[x[4]][y[4]] = XorTable[y[4]][x[4]]
    BY <1>1, <1>2, XorLimb, Zenon
  <2> QED
    BY <2>1, Zenon DEF Xor
<1>5. Xor(x, Zero) = x
  <2>1. /\ XorTable[x[1]][0] = x[1] /\ XorTable[x[2]][0] = x[2]
        /\ XorTable[x[3]][0] = x[3] /\ XorTable[x[4]][0] = x[4]
    BY <1>1, XorLimb, Zenon
  <2>2. Zero[1] = 0 /\ Zero[2] = 0 /\ Zero[3] = 0 /\ Zero[4] = 0
    BY DEF Zero
  <2>3. Xor(x, Zero) = <<x[1], x[2], x[3], x[4]>>
    BY <2>1, <2>2, Zenon DEF Xor
  <2> QED
    BY <1>1, <2>3, Zenon
<1> QED
  BY <1>3, <1>4, <1>5

\* The two limbs of a word.
LEMMA WordLimbs ==
    ASSUME NEW w \in Word
    PROVE  /\ w % L \in Limb /\ w \div L \in Limb
           /\ w = (w % L) + L * (w \div L)
  BY DEF Word, Limb, L

\* Two limbs make a word, which has these limbs.
LEMMA LimbsWord ==
    ASSUME NEW a \in Limb, NEW b \in Limb
    PROVE  /\ a + L * b \in Word
           /\ (a + L * b) % L = a /\ (a + L * b) \div L = b
  BY DEF Word, Limb, L

\* A block of two words is a block, and has these words.
LEMMA BlockWords ==
    ASSUME NEW u \in Word, NEW v \in Word
    PROVE  Block(u, v) \in Blocks /\ Lo(Block(u, v)) = u /\ Hi(Block(u, v)) = v
<1>1. /\ u % L \in Limb /\ u \div L \in Limb /\ u = (u % L) + L * (u \div L)
      /\ v % L \in Limb /\ v \div L \in Limb /\ v = (v % L) + L * (v \div L)
  BY WordLimbs
<1> DEFINE a == u % L
           b == u \div L
           c == v % L
           d == v \div L
<1>2. Block(u, v) = <<a, b, c, d>>
  BY DEF Block
<1> HIDE DEF a, b, c, d
<1>3. <<a, b, c, d>> \in Blocks
  BY <1>1, IsBlock DEF a, b, c, d
<1>4. <<a, b, c, d>>[1] = a /\ <<a, b, c, d>>[2] = b /\ <<a, b, c, d>>[3] = c /\ <<a, b, c, d>>[4] = d
  OBVIOUS
<1>5. Lo(<<a, b, c, d>>) = a + L * b /\ Hi(<<a, b, c, d>>) = c + L * d
  BY <1>4 DEF Lo, Hi
<1> QED
  BY <1>1, <1>2, <1>3, <1>5 DEF a, b, c, d

\* A block is made of its two words.
LEMMA WordsBlock ==
    ASSUME NEW x \in Blocks
    PROVE  Lo(x) \in Word /\ Hi(x) \in Word /\ Block(Lo(x), Hi(x)) = x
<1>1. /\ x = <<x[1], x[2], x[3], x[4]>>
      /\ x[1] \in Limb /\ x[2] \in Limb /\ x[3] \in Limb /\ x[4] \in Limb
  BY BlockLimbs
<1>2. /\ Lo(x) \in Word /\ Lo(x) % L = x[1] /\ Lo(x) \div L = x[2]
      /\ Hi(x) \in Word /\ Hi(x) % L = x[3] /\ Hi(x) \div L = x[4]
  BY <1>1, LimbsWord, Zenon DEF Lo, Hi
<1> QED
  BY <1>1, <1>2, Zenon DEF Block

\* The exclusive or of blocks is that of their words.
LEMMA XorOfWords ==
    ASSUME NEW x \in Blocks, NEW y \in Blocks
    PROVE  /\ XorWord(Lo(x), Lo(y)) = Lo(Xor(x, y))
           /\ XorWord(Hi(x), Hi(y)) = Hi(Xor(x, y))
<1>1. x[1] \in Limb /\ x[2] \in Limb /\ x[3] \in Limb /\ x[4] \in Limb
  BY BlockLimbs
<1>2. y[1] \in Limb /\ y[2] \in Limb /\ y[3] \in Limb /\ y[4] \in Limb
  BY BlockLimbs
<1>3. /\ Lo(x) % L = x[1] /\ Lo(x) \div L = x[2] /\ Hi(x) % L = x[3] /\ Hi(x) \div L = x[4]
      /\ Lo(y) % L = y[1] /\ Lo(y) \div L = y[2] /\ Hi(y) % L = y[3] /\ Hi(y) \div L = y[4]
  BY <1>1, <1>2, LimbsWord, Zenon DEF Lo, Hi
<1> DEFINE a == XorTable[x[1]][y[1]]
           b == XorTable[x[2]][y[2]]
           c == XorTable[x[3]][y[3]]
           d == XorTable[x[4]][y[4]]
<1>4. a \in Limb /\ b \in Limb /\ c \in Limb /\ d \in Limb
  BY <1>1, <1>2, XorLimb, Zenon
<1>5. Xor(x, y) = <<a, b, c, d>>
  BY DEF Xor
<1>6. XorWord(Lo(x), Lo(y)) = b * L + a /\ XorWord(Hi(x), Hi(y)) = d * L + c
  BY <1>3, Zenon DEF XorWord
<1> HIDE DEF a, b, c, d
<1>7. Lo(<<a, b, c, d>>) = a + L * b /\ Hi(<<a, b, c, d>>) = c + L * d
  BY DEF Lo, Hi
<1> QED
  BY <1>4, <1>5, <1>6, <1>7 DEF L, Limb

-----------------------------------------------------------------------------
(* Induction *)

\* A set of naturals that is not empty has a least element.
LEMMA NatMin ==
    ASSUME NEW S \in SUBSET Nat, S # {}
    PROVE  \E x \in S : \A y \in S : x <= y
<1>1. PICK x \in S : \A y \in S : ~(<<y, x>> \in OpToRel(<, Nat))
  BY NatLessThanWellFounded, WFMin, Zenon
<1>2. \A y \in S : ~(y < x)
  BY <1>1 DEF OpToRel
<1> QED
  BY <1>2

\* Induction on the numbers up to n.
LEMMA Steps ==
    ASSUME NEW n \in Nat, NEW P, 0 \in P, \A k \in 1 .. n : k - 1 \in P => k \in P
    PROVE  \A k \in 0 .. n : k \in P
<1> DEFINE Missing == (0 .. n) \ P
<1> SUFFICES ASSUME Missing # {} PROVE FALSE
  OBVIOUS
<1>1. PICK m \in Missing : \A k \in Missing : m <= k
  <2>1. Missing \in SUBSET Nat
    OBVIOUS
  <2> HIDE DEF Missing
  <2> QED
    BY <2>1, NatMin
<1>2. m \in 1 .. n
  BY <1>1
<1>3. m - 1 \in 0 .. n /\ m - 1 \notin Missing
  BY <1>1, <1>2
<1> QED
  BY <1>1, <1>2, <1>3

\* g starts with s0, makes one step after the other and goes through the sets of S.
Runs(g, n, S, s0, step) ==
    /\ g = [k \in 0 .. n |-> g[k]]
    /\ g[0] = s0
    /\ \A k \in 1 .. n : g[k] = step[k][g[k - 1]]
    /\ \A k \in 0 .. n : g[k] \in S[k]

\* Steps that lead from each set to the next make such a function.
LEMMA Iteration ==
    ASSUME NEW n \in Nat, NEW S, NEW s0 \in S[0], NEW step,
           \A k \in 1 .. n : \A x \in S[k - 1] : step[k][x] \in S[k]
    PROVE  \E g : Runs(g, n, S, s0, step)
<1> DEFINE P == {m \in 0 .. n : \E g : Runs(g, m, S, s0, step)}
<1>1. 0 \in P
  <2> DEFINE g == [k \in 0 .. 0 |-> s0]
  <2>1. Runs(g, 0, S, s0, step)
    BY DEF Runs
  <2> HIDE DEF g
  <2> QED
    BY <2>1
<1>2. ASSUME NEW m \in 1 .. n, m - 1 \in P PROVE m \in P
  <2>1. PICK f : Runs(f, m - 1, S, s0, step)
    BY <1>2
  <2> DEFINE g == [k \in 0 .. m |-> IF k = m THEN step[m][f[m - 1]] ELSE f[k]]
  <2>2. f[m - 1] \in S[m - 1] /\ step[m][f[m - 1]] \in S[m]
    BY <2>1 DEF Runs
  <2>3. g[0] = s0
    BY <2>1 DEF Runs
  <2>4. ASSUME NEW k \in 1 .. m PROVE g[k] = step[k][g[k - 1]]
    <3>1. CASE k = m
      BY <3>1
    <3>2. CASE k # m
      <4>1. k \in 1 .. m - 1 /\ g[k] = f[k] /\ g[k - 1] = f[k - 1]
        BY <3>2
      <4> QED
        BY <2>1, <4>1 DEF Runs
    <3> QED
      BY <3>1, <3>2
  <2>5. ASSUME NEW k \in 0 .. m PROVE g[k] \in S[k]
    <3>1. CASE k = m
      BY <2>2, <3>1
    <3>2. CASE k # m
      <4>1. k \in 0 .. m - 1 /\ g[k] = f[k]
        BY <3>2
      <4> QED
        BY <2>1, <4>1 DEF Runs
    <3> QED
      BY <3>1, <3>2
  <2>6. g = [k \in 0 .. m |-> g[k]]
    OBVIOUS
  <2> HIDE DEF g
  <2>7. Runs(g, m, S, s0, step)
    BY <2>3, <2>4, <2>5, <2>6 DEF Runs
  <2> QED
    BY <2>7
<1>3. n \in P
  <2> HIDE DEF P
  <2>1. \A k \in 0 .. n : k \in P
    BY <1>1, <1>2, Steps
  <2> QED
    BY <2>1
<1> QED
  BY <1>3

-----------------------------------------------------------------------------
(* Rounds *)

\* An AES round of a block is a block.
LEMMA RoundBlock ==
    ASSUME NEW y \in Blocks, NEW k \in Blocks
    PROVE  Xor(AesPerm(y), k) \in Blocks /\ vaes(y, k) \in Blocks
<1>1. AesPerm(y) \in Blocks /\ Xor(y, k) \in Blocks
  BY PrimitivesAssumption, XorBlocks
<1>2. AesPerm(Xor(y, k)) \in Blocks
  BY <1>1, PrimitivesAssumption
<1> QED
  BY <1>1, <1>2, XorBlocks DEF vaes

\* Applying one step after the other is a function on blocks.
LEMMA Curried ==
    ASSUME NEW n \in Nat, NEW last \in [Blocks -> Blocks],
           NEW step \in [1 .. n -> [Blocks -> Blocks]]
    PROVE  \E g : g = [i \in 0 .. n |-> [y \in Blocks |->
                          IF i = 0 THEN last[y] ELSE g[i - 1][step[i][y]]]]
<1> DEFINE S == [i \in 0 .. n |-> [Blocks -> Blocks]]
           next == [i \in 1 .. n |-> [p \in [Blocks -> Blocks] |-> [y \in Blocks |-> p[step[i][y]]]]]
<1>1. \A i \in 1 .. n : \A p \in S[i - 1] : next[i][p] \in S[i]
  <2> SUFFICES ASSUME NEW i \in 1 .. n, NEW p \in [Blocks -> Blocks]
               PROVE  [y \in Blocks |-> p[step[i][y]]] \in [Blocks -> Blocks]
    OBVIOUS
  <2>1. step[i] \in [Blocks -> Blocks]
    OBVIOUS
  <2> QED
    BY <2>1
<1>2. PICK g : Runs(g, n, S, last, next)
  <2>1. last \in S[0]
    OBVIOUS
  <2> HIDE DEF S, next
  <2> QED
    BY <1>1, <2>1, Iteration
<1>3. ASSUME NEW i \in 1 .. n PROVE g[i] = [y \in Blocks |-> g[i - 1][step[i][y]]]
  <2>1. i - 1 \in 0 .. n /\ S[i - 1] = [Blocks -> Blocks]
    OBVIOUS
  <2>2. \A p \in [Blocks -> Blocks] : next[i][p] = [y \in Blocks |-> p[step[i][y]]]
    OBVIOUS
  <2> HIDE DEF S, next
  <2>3. g[i] = next[i][g[i - 1]] /\ g[i - 1] \in S[i - 1]
    BY <1>2, <2>1, Zenon DEF Runs
  <2> QED
    BY <2>1, <2>2, <2>3, Zenon
<1>4. g = [i \in 0 .. n |-> g[i]] /\ g[0] = last
  BY <1>2 DEF Runs
<1>5. ASSUME NEW i \in 0 .. n
      PROVE  g[i] = [y \in Blocks |-> IF i = 0 THEN last[y] ELSE g[i - 1][step[i][y]]]
  <2>1. CASE i = 0
    BY <1>4, <2>1
  <2>2. CASE i # 0
    <3>1. i \in 1 .. n
      BY <2>2
    <3> QED
      BY <1>3, <2>2, <3>1
  <2> QED
    BY <2>1, <2>2
<1>6. [i \in 0 .. n |-> g[i]]
      = [i \in 0 .. n |-> [y \in Blocks |-> IF i = 0 THEN last[y] ELSE g[i - 1][step[i][y]]]]
  BY <1>5, Zenon
<1> QED
  BY <1>4, <1>6, Zenon

\* e[i] adds the last i of n keys, each after a round.
Encrypts(e, keys, n) ==
    /\ \A y \in Blocks : e[0][y] = y
    /\ \A i \in 1 .. n : \A y \in Blocks : e[i][y] = e[i - 1][Xor(AesPerm(y), keys[n + 1 - i])]
    /\ \A i \in 0 .. n : \A y \in Blocks : e[i][y] \in Blocks

\* Encrypting is such a function.
LEMMA Encryption ==
    ASSUME NEW keys \in [1 .. 10 -> Blocks]
    PROVE  \E e : Encrypts(e, keys, 10) /\ \A x : Encrypted(x, keys) = e[10][x]
<1> DEFINE n == 10
           m == 11
           Is(r) == r = [i \in 0 .. n |-> [y \in Blocks |->
                            IF i = 0 THEN y ELSE r[i - 1][Xor(AesPerm(y), keys[m - i])]]]
           h == CHOOSE r : Is(r)
<1>1. n \in Nat /\ m \in Nat /\ m = n + 1 /\ keys \in [1 .. n -> Blocks]
  OBVIOUS
<1>2. ASSUME NEW x PROVE Encrypted(x, keys) = h[n][x]
  BY DEF Encrypted
<1> HIDE DEF n, m
<1>3. ASSUME NEW i \in 1 .. n, NEW y \in Blocks
      PROVE  Xor(AesPerm(y), keys[m - i]) \in Blocks
  <2>1. m - i \in 1 .. n
    BY <1>1
  <2>2. keys[m - i] \in Blocks
    BY <1>1, <2>1
  <2> QED
    BY <2>2, RoundBlock
<1>4. \E g : Is(g)
  <2> DEFINE last == [y \in Blocks |-> y]
             step == [i \in 1 .. n |-> [y \in Blocks |-> Xor(AesPerm(y), keys[m - i])]]
  <2>1. last \in [Blocks -> Blocks] /\ step \in [1 .. n -> [Blocks -> Blocks]]
    BY <1>3
  <2>2. \A y \in Blocks : last[y] = y
    OBVIOUS
  <2>3. \A i \in 1 .. n : \A y \in Blocks : step[i][y] = Xor(AesPerm(y), keys[m - i])
    OBVIOUS
  <2> HIDE DEF last, step
  <2>4. PICK g : g = [i \in 0 .. n |-> [y \in Blocks |->
                         IF i = 0 THEN last[y] ELSE g[i - 1][step[i][y]]]]
    BY <1>1, <2>1, Curried
  <2>5. \A i \in 0 .. n : i = 0 \/ i \in 1 .. n
    BY <1>1
  <2>6. [i \in 0 .. n |-> [y \in Blocks |-> IF i = 0 THEN last[y] ELSE g[i - 1][step[i][y]]]]
        = [i \in 0 .. n |-> [y \in Blocks |->
                              IF i = 0 THEN y ELSE g[i - 1][Xor(AesPerm(y), keys[m - i])]]]
    BY <2>2, <2>3, <2>5
  <2>7. Is(g)
    BY <2>4, <2>6, Zenon
  <2> QED
    BY <2>7
<1>5. Is(h)
  BY <1>4
<1> HIDE DEF h
<1>6. ASSUME NEW i \in 0 .. n, NEW y \in Blocks
      PROVE  h[i][y] = IF i = 0 THEN y ELSE h[i - 1][Xor(AesPerm(y), keys[m - i])]
  <2> DEFINE b == [j \in 0 .. n |-> [z \in Blocks |->
                      IF j = 0 THEN z ELSE h[j - 1][Xor(AesPerm(z), keys[m - j])]]]
  <2>1. b[i][y] = IF i = 0 THEN y ELSE h[i - 1][Xor(AesPerm(y), keys[m - i])]
    BY Zenon
  <2>2. h = b
    BY <1>5, Zenon
  <2> QED
    BY <2>1, <2>2, Zenon
<1>7. \A i \in 0 .. n : \A y \in Blocks : h[i][y] \in Blocks
  <2> DEFINE P == {i \in 0 .. n : \A y \in Blocks : h[i][y] \in Blocks}
  <2>1. 0 \in P
    BY <1>1, <1>6
  <2>2. ASSUME NEW i \in 1 .. n, i - 1 \in P PROVE i \in P
    BY <1>1, <1>3, <1>6, <2>2
  <2> HIDE DEF P
  <2>3. \A i \in 0 .. n : i \in P
    BY <1>1, <2>1, <2>2, Steps
  <2> QED
    BY <2>3 DEF P
<1>8. Encrypts(h, keys, n)
  <2>1. ASSUME NEW i \in 1 .. n, NEW y \in Blocks
        PROVE  h[i][y] = h[i - 1][Xor(AesPerm(y), keys[n + 1 - i])]
    BY <1>1, <1>6
  <2>2. \A y \in Blocks : h[0][y] = y
    BY <1>1, <1>6
  <2> QED
    BY <1>7, <2>1, <2>2 DEF Encrypts
<1> QED
  BY <1>2, <1>8 DEF n

\* The encryption of a block is a block.
LEMMA EncryptedBlock ==
    ASSUME NEW keys \in [1 .. 10 -> Blocks], NEW x \in Blocks
    PROVE  Encrypted(x, keys) \in Blocks
<1>1. PICK e : Encrypts(e, keys, 10) /\ \A y : Encrypted(y, keys) = e[10][y]
  BY Encryption
<1>2. 10 \in 0 .. 10
  OBVIOUS
<1>3. e[10][x] \in Blocks
  BY <1>1, <1>2, Zenon DEF Encrypts
<1> QED
  BY <1>1, <1>3, Zenon

\* AESENC on a build without the instruction of ARM encrypts.
LEMMA x86Encrypts ==
    ASSUME NEW x, NEW keys
    PROVE  x86_rounds(x, keys) = Encrypted(x, keys)
  BY Zenon DEF x86_rounds, Encrypted, aesenc

\* The rounds of ARM leave each key to the round after it: a[i] adds the last i + 1
\* keys, each but the first before a round.
LEMMA armEncrypts ==
    ASSUME NEW x \in Blocks, NEW keys \in [1 .. 10 -> Blocks]
    PROVE  arm_rounds(x, keys) = Encrypted(x, keys)
<1> DEFINE n == 9
           m == 10
           Is(r) == r = [i \in 0 .. n |-> [y \in Blocks |->
                            IF i = 0 THEN Xor(y, keys[m]) ELSE r[i - 1][vaes(y, keys[m - i])]]]
           h == CHOOSE r : Is(r)
<1>1. /\ n \in Nat /\ m = n + 1 /\ keys \in [1 .. m -> Blocks]
      /\ Zero \in Blocks
  BY DEF Zero, Blocks, Limb, L
<1>2. arm_rounds(x, keys) = h[n][vaes(x, Zero)]
  BY DEF arm_rounds
<1>3. PICK e : Encrypts(e, keys, m) /\ \A y : Encrypted(y, keys) = e[m][y]
  BY Encryption
<1> HIDE DEF n, m
<1>4. ASSUME NEW i \in 1 .. m PROVE keys[i] \in Blocks
  BY <1>1
<1>5. ASSUME NEW i \in 1 .. n PROVE m - i \in 1 .. m
  BY <1>1
<1>6. \E g : Is(g)
  <2> DEFINE last == [y \in Blocks |-> Xor(y, keys[m])]
             step == [i \in 1 .. n |-> [y \in Blocks |-> vaes(y, keys[m - i])]]
  <2>1. last \in [Blocks -> Blocks]
    <3>1. m \in 1 .. m
      BY <1>1
    <3> QED
      BY <1>4, <3>1, XorBlocks
  <2>2. step \in [1 .. n -> [Blocks -> Blocks]]
    <3>1. ASSUME NEW i \in 1 .. n, NEW y \in Blocks PROVE vaes(y, keys[m - i]) \in Blocks
      BY <1>4, <1>5, RoundBlock
    <3> QED
      BY <3>1
  <2>3. \A y \in Blocks : last[y] = Xor(y, keys[m])
    OBVIOUS
  <2>4. \A i \in 1 .. n : \A y \in Blocks : step[i][y] = vaes(y, keys[m - i])
    OBVIOUS
  <2> HIDE DEF last, step
  <2>5. PICK g : g = [i \in 0 .. n |-> [y \in Blocks |->
                         IF i = 0 THEN last[y] ELSE g[i - 1][step[i][y]]]]
    BY <1>1, <2>1, <2>2, Curried
  <2>6. \A i \in 0 .. n : i = 0 \/ i \in 1 .. n
    BY <1>1
  <2>7. [i \in 0 .. n |-> [y \in Blocks |-> IF i = 0 THEN last[y] ELSE g[i - 1][step[i][y]]]]
        = [i \in 0 .. n |-> [y \in Blocks |->
                              IF i = 0 THEN Xor(y, keys[m]) ELSE g[i - 1][vaes(y, keys[m - i])]]]
    BY <2>3, <2>4, <2>6
  <2>8. Is(g)
    BY <2>5, <2>7, Zenon
  <2> QED
    BY <2>8
<1>7. Is(h)
  BY <1>6
<1> HIDE DEF h
<1>8. ASSUME NEW i \in 0 .. n, NEW y \in Blocks
      PROVE  h[i][y] = IF i = 0 THEN Xor(y, keys[m]) ELSE h[i - 1][vaes(y, keys[m - i])]
  <2> DEFINE b == [j \in 0 .. n |-> [z \in Blocks |->
                      IF j = 0 THEN Xor(z, keys[m]) ELSE h[j - 1][vaes(z, keys[m - j])]]]
  <2>1. b[i][y] = IF i = 0 THEN Xor(y, keys[m]) ELSE h[i - 1][vaes(y, keys[m - i])]
    BY Zenon
  <2>2. h = b
    BY <1>7, Zenon
  <2> QED
    BY <2>1, <2>2, Zenon
<1>9. \A i \in 0 .. n : \A y \in Blocks : h[i][AesPerm(y)] = e[i + 1][y]
  <2> DEFINE P == {i \in 0 .. n : \A y \in Blocks : h[i][AesPerm(y)] = e[i + 1][y]}
  <2>1. 0 \in P
    <3> SUFFICES ASSUME NEW y \in Blocks PROVE h[0][AesPerm(y)] = e[0 + 1][y]
      BY <1>1
    <3>1. AesPerm(y) \in Blocks
      BY PrimitivesAssumption
    <3>2. h[0][AesPerm(y)] = Xor(AesPerm(y), keys[m])
      BY <1>1, <1>8, <3>1
    <3>3. 1 \in 1 .. m /\ m \in 1 .. m /\ 0 + 1 = 1 /\ 1 - 1 = 0 /\ m + 1 - 1 = m
      BY <1>1
    <3>4. Xor(AesPerm(y), keys[m]) \in Blocks
      BY <1>4, <3>3, RoundBlock
    <3>5. e[1][y] = e[0][Xor(AesPerm(y), keys[m])]
      <4>1. \A k \in 1 .. m : e[k][y] = e[k - 1][Xor(AesPerm(y), keys[m + 1 - k])]
        BY <1>3, Zenon DEF Encrypts
      <4>2. e[1][y] = e[1 - 1][Xor(AesPerm(y), keys[m + 1 - 1])]
        BY <3>3, <4>1, Zenon
      <4> QED
        BY <3>3, <4>2, Zenon
    <3>6. e[0][Xor(AesPerm(y), keys[m])] = Xor(AesPerm(y), keys[m])
      BY <1>3, <3>4, Zenon DEF Encrypts
    <3> QED
      BY <3>2, <3>3, <3>5, <3>6
  <2>2. ASSUME NEW i \in 1 .. n, i - 1 \in P PROVE i \in P
    <3> SUFFICES ASSUME NEW y \in Blocks PROVE h[i][AesPerm(y)] = e[i + 1][y]
      BY <1>1
    <3> DEFINE z == Xor(AesPerm(y), keys[m - i])
    <3>1. AesPerm(y) \in Blocks /\ z \in Blocks
      BY <1>4, <1>5, RoundBlock, PrimitivesAssumption
    <3>2. i \in 0 .. n /\ i # 0
      BY <1>1
    <3>3. h[i][AesPerm(y)] = h[i - 1][AesPerm(z)]
      <4>1. h[i][AesPerm(y)] = IF i = 0 THEN Xor(AesPerm(y), keys[m])
                               ELSE h[i - 1][vaes(AesPerm(y), keys[m - i])]
        BY <1>8, <3>1, <3>2, Zenon
      <4>2. vaes(AesPerm(y), keys[m - i]) = AesPerm(z)
        BY Zenon DEF vaes
      <4> QED
        BY <3>2, <4>1, <4>2, Zenon
    <3>4. h[i - 1][AesPerm(z)] = e[(i - 1) + 1][z]
      BY <2>2, <3>1
    <3>5. i + 1 \in 1 .. m /\ m + 1 - (i + 1) = m - i /\ (i + 1) - 1 = i /\ (i - 1) + 1 = i
      BY <1>1
    <3>6. e[i + 1][y] = e[(i + 1) - 1][Xor(AesPerm(y), keys[m + 1 - (i + 1)])]
      BY <1>3, <3>5, Zenon DEF Encrypts
    <3> QED
      BY <3>3, <3>4, <3>5, <3>6
  <2> HIDE DEF P
  <2>3. \A i \in 0 .. n : i \in P
    BY <1>1, <2>1, <2>2, Steps
  <2> QED
    BY <2>3 DEF P
<1>10. vaes(x, Zero) = AesPerm(x)
  BY XorBlocks DEF vaes
<1>11. h[n][AesPerm(x)] = e[m][x]
  BY <1>1, <1>9
<1> QED
  BY <1>2, <1>3, <1>10, <1>11

\* The rounds of every build encrypt.
LEMMA RoundsEncrypt ==
    ASSUME NEW c, NEW x \in Blocks, NEW keys \in [1 .. 10 -> Blocks]
    PROVE  Rounds(c, x, keys) = Encrypted(x, keys)
  BY x86Encrypts, armEncrypts, Zenon DEF Rounds

\* So does the round in the loop.
LEMMA LoopRound ==
    ASSUME NEW c, NEW lanes, NEW x \in Blocks, NEW key \in Blocks
    PROVE  LoopAes(c, lanes, x, key) = Xor(AesPerm(x), key)
<1>1. vaes(x, Zero) = AesPerm(x)
  BY XorBlocks DEF vaes
<1> QED
  BY <1>1, Zenon DEF LoopAes, aesenc

-----------------------------------------------------------------------------
(* The key schedule *)

\* What is added to a limb of a schedule is a limb.
LEMMA KeyLimbType ==
    ASSUME NEW i \in 1 .. 32, NEW x \in Limb
    PROVE  KeyLimb(i, x) \in Limb
<1>1. SubWord(x) \in Limb
  BY PrimitivesAssumption
<1>2. RotWord(SubWord(x)) \in Limb
  BY <1>1, PrimitivesAssumption
<1>3. CASE i % 8 = 1
  <2>1. i \div 8 = 0 \/ i \div 8 = 1 \/ i \div 8 = 2 \/ i \div 8 = 3
    BY <1>3
  <2>2. 2^0 = 1 /\ 2^1 = 2 /\ 2^2 = 4 /\ 2^3 = 8
    BY SMT
  <2>3. 1 \in Limb /\ 2 \in Limb /\ 4 \in Limb /\ 8 \in Limb
    BY DEF Limb, L
  <2>4. 2^(i \div 8) \in Limb
    BY <2>1, <2>2, <2>3, Zenon
  <2>5. XorTable[RotWord(SubWord(x))][2^(i \div 8)] \in Limb
    BY <1>2, <2>4, XorLimb
  <2>6. i % 8 # 5
    BY <1>3
  <2> QED
    BY <1>3, <2>5, <2>6, Zenon DEF KeyLimb
<1>4. CASE i % 8 = 5
  <2>1. i % 8 # 1
    BY <1>4
  <2> QED
    BY <1>1, <1>4, <2>1, Zenon DEF KeyLimb
<1>5. CASE i % 8 # 1 /\ i % 8 # 5
  BY <1>5, Zenon DEF KeyLimb
<1> QED
  BY <1>3, <1>4, <1>5

\* w has the first n + 8 limbs of the schedule of m0 and m1.
Schedules(w, n, m0, m1) ==
    /\ w \in [1 .. n + 8 -> Limb]
    /\ w[1] = m0[1] /\ w[2] = m0[2] /\ w[3] = m0[3] /\ w[4] = m0[4]
    /\ w[5] = m1[1] /\ w[6] = m1[2] /\ w[7] = m1[3] /\ w[8] = m1[4]
    /\ \A i \in 1 .. n : w[i + 8] = XorTable[w[i]][KeyLimb(i, w[i + 7])]

\* One limb more.
LEMMA Grows ==
    ASSUME NEW n \in 1 .. 32, NEW w, NEW m0, NEW m1, Schedules(w, n - 1, m0, m1)
    PROVE  Schedules(Append(w, XorTable[w[n]][KeyLimb(n, w[n + 7])]), n, m0, m1)
<1> DEFINE x == XorTable[w[n]][KeyLimb(n, w[n + 7])]
           m == n + 7
           v == Append(w, x)
<1>1. n \in Nat /\ m \in Nat /\ m >= 8 /\ n <= m /\ n >= 1 /\ (n - 1) + 8 = m /\ n + 8 = m + 1
  OBVIOUS
<1>2. w \in [1 .. m -> Limb]
  BY <1>1 DEF Schedules
<1>3. x \in Limb
  <2>1. w[n] \in Limb /\ w[m] \in Limb
    BY <1>1, <1>2
  <2>2. KeyLimb(n, w[m]) \in Limb
    BY <2>1, KeyLimbType
  <2> QED
    BY <2>1, <2>2, XorLimb
<1> HIDE DEF x, m
<1>4. /\ v \in [1 .. m + 1 -> Limb]
      /\ v[m + 1] = x
      /\ \A i \in 1 .. m : v[i] = w[i]
  <2>1. w \in Seq(Limb) /\ Len(w) = m
    BY <1>1, <1>2
  <2>2. /\ v \in Seq(Limb) /\ Len(v) = m + 1
        /\ v[m + 1] = x /\ \A i \in 1 .. m : v[i] = w[i]
    BY <1>1, <1>3, <2>1
  <2> HIDE DEF v
  <2> QED
    BY <1>1, <2>2
<1> HIDE DEF v
<1>5. \A i \in 1 .. n - 1 : w[i + 8] = XorTable[w[i]][KeyLimb(i, w[i + 7])]
  BY DEF Schedules
<1>6. ASSUME NEW i \in 1 .. n PROVE v[i + 8] = XorTable[v[i]][KeyLimb(i, v[i + 7])]
  <2>1. CASE i = n
    <3>1. v[n] = w[n] /\ v[m] = w[m] /\ n + 7 = m
      BY <1>1, <1>4 DEF m
    <3> QED
      BY <1>1, <1>4, <2>1, <3>1 DEF x
  <2>2. CASE i # n
    <3>1. i \in 1 .. n - 1 /\ i \in 1 .. m /\ i + 7 \in 1 .. m /\ i + 8 \in 1 .. m
      BY <1>1, <2>2
    <3>2. v[i] = w[i] /\ v[i + 7] = w[i + 7] /\ v[i + 8] = w[i + 8]
      BY <1>4, <3>1
    <3> QED
      BY <1>5, <3>1, <3>2
  <2> QED
    BY <2>1, <2>2
<1>7. /\ v[1] = m0[1] /\ v[2] = m0[2] /\ v[3] = m0[3] /\ v[4] = m0[4]
      /\ v[5] = m1[1] /\ v[6] = m1[2] /\ v[7] = m1[3] /\ v[8] = m1[4]
  <2>1. 1 \in 1 .. m /\ 2 \in 1 .. m /\ 3 \in 1 .. m /\ 4 \in 1 .. m
        /\ 5 \in 1 .. m /\ 6 \in 1 .. m /\ 7 \in 1 .. m /\ 8 \in 1 .. m
    BY <1>1
  <2> QED
    BY <1>4, <2>1, Zenon DEF Schedules
<1>8. Schedules(v, n, m0, m1)
  BY <1>1, <1>4, <1>6, <1>7 DEF Schedules
<1> QED
  BY <1>8 DEF v, x

\* u is t behind s.
IsJoined(u, s, t, m, n, S) ==
    /\ u \in Seq(S) /\ Len(u) = m + n
    /\ u \in [1 .. m + n -> S]
    /\ \A i \in 1 .. m : u[i] = s[i]
    /\ \A i \in 1 .. n : u[i + m] = t[i]

\* A sequence behind another.
LEMMA Joined ==
    ASSUME NEW S, NEW s \in Seq(S), NEW t \in Seq(S), NEW m \in Nat, NEW n \in Nat,
           Len(s) = m, Len(t) = n
    PROVE  IsJoined(s \o t, s, t, m, n, S)
<1>1. s \o t \in Seq(S) /\ Len(s \o t) = m + n
  OBVIOUS
<1>2. \A i \in 1 .. m : (s \o t)[i] = s[i]
  OBVIOUS
<1>3. \A i \in 1 .. n : (s \o t)[i + m] = t[i]
  OBVIOUS
<1> DEFINE u == s \o t
<1> HIDE DEF u
<1>4. u \in [1 .. m + n -> S]
  <2>1. u \in Seq(S) /\ Len(u) = m + n /\ m + n \in Nat
    BY <1>1 DEF u
  <2> QED
    BY <2>1
<1> QED
  BY <1>1, <1>2, <1>3, <1>4, Zenon DEF u, IsJoined

\* Four elements are a sequence.
LEMMA FourSeq ==
    ASSUME NEW S, NEW a \in S, NEW b \in S, NEW c \in S, NEW d \in S
    PROVE  <<a, b, c, d>> \in Seq(S) /\ Len(<<a, b, c, d>>) = 4
OBVIOUS

\* The words of a key are its schedule.
LEMMA KeySchedule ==
    ASSUME NEW m0 \in Blocks, NEW m1 \in Blocks
    PROVE  Schedules(KeyWords(m0, m1), 32, m0, m1)
<1> DEFINE n == 32
           Is(r) == r = [i \in 0 .. n |->
                            IF i = 0 THEN m0 \o m1
                            ELSE LET w == r[i - 1]
                                 IN  Append(w, XorTable[w[i]][KeyLimb(i, w[i + 7])])]
           h == CHOOSE r : Is(r)
           More(w, i) == Append(w, XorTable[w[i]][KeyLimb(i, w[i + 7])])
<1>1. KeyWords(m0, m1) = h[n]
  BY DEF KeyWords
<1>2. Schedules(m0 \o m1, 0, m0, m1)
  <2>1. m0 \in Seq(Limb) /\ Len(m0) = 4 /\ m1 \in Seq(Limb) /\ Len(m1) = 4
    <3>1. ASSUME NEW x \in Blocks PROVE x \in Seq(Limb) /\ Len(x) = 4
      <4>1. /\ x = <<x[1], x[2], x[3], x[4]>>
            /\ x[1] \in Limb /\ x[2] \in Limb /\ x[3] \in Limb /\ x[4] \in Limb
        BY BlockLimbs
      <4> QED
        BY <4>1, FourSeq, Zenon
    <3> QED
      BY <3>1
  <2> DEFINE w == m0 \o m1
  <2>2. 4 \in Nat
    OBVIOUS
  <2>3. IsJoined(w, m0, m1, 4, 4, Limb)
    BY <2>1, <2>2, Joined
  <2> HIDE DEF w
  <2>4. w \in [1 .. 8 -> Limb] /\ \A i \in 1 .. 4 : w[i] = m0[i] /\ w[i + 4] = m1[i]
    BY <2>3 DEF IsJoined
  <2>5. w[1] = m0[1] /\ w[2] = m0[2] /\ w[3] = m0[3] /\ w[4] = m0[4]
        /\ w[5] = m1[1] /\ w[6] = m1[2] /\ w[7] = m1[3] /\ w[8] = m1[4]
    BY <2>4
  <2>6. 0 + 8 = 8 /\ 1 .. 0 = {}
    OBVIOUS
  <2>7. Schedules(w, 0, m0, m1)
    BY <2>4, <2>5, <2>6 DEF Schedules
  <2> QED
    BY <2>7 DEF w
<1>3. \A i \in 1 .. n : \A w : Schedules(w, i - 1, m0, m1) => Schedules(More(w, i), i, m0, m1)
  BY Grows
<1>4. n \in Nat
  OBVIOUS
<1> HIDE DEF n, More
<1>5. \E g : Is(g)
  <2> DEFINE S == [i \in 0 .. n |-> {w \in [1 .. i + 8 -> Limb] : Schedules(w, i, m0, m1)}]
             step == [i \in 1 .. n |-> [w \in S[i - 1] |-> More(w, i)]]
  <2>1. \A i \in 0 .. n : \A w : w \in S[i] <=> Schedules(w, i, m0, m1)
    BY DEF Schedules
  <2>2. \A i \in 1 .. n : i - 1 \in 0 .. n /\ i \in 0 .. n /\ i # 0
    BY <1>4
  <2>3. \A i \in 1 .. n : \A w \in S[i - 1] : step[i][w] = More(w, i)
    OBVIOUS
  <2>4. 0 \in 0 .. n /\ \A i \in 0 .. n : i = 0 \/ i \in 1 .. n
    BY <1>4
  <2> HIDE DEF S, step
  <2>5. m0 \o m1 \in S[0]
    BY <1>2, <2>1, <2>4
  <2>6. \A i \in 1 .. n : \A w \in S[i - 1] : step[i][w] \in S[i]
    BY <1>3, <2>1, <2>2, <2>3
  <2>7. PICK g : Runs(g, n, S, m0 \o m1, step)
    BY <1>4, <2>5, <2>6, Iteration
  <2>8. ASSUME NEW i \in 1 .. n PROVE g[i] = More(g[i - 1], i)
    BY <2>2, <2>3, <2>7, Zenon DEF Runs
  <2>9. g = [i \in 0 .. n |-> g[i]] /\ g[0] = m0 \o m1
    BY <2>7, Zenon DEF Runs
  <2>10. [i \in 0 .. n |-> g[i]] = [i \in 0 .. n |-> IF i = 0 THEN m0 \o m1 ELSE More(g[i - 1], i)]
    BY <2>4, <2>8, <2>9
  <2>11. Is(g)
    BY <2>9, <2>10, Zenon DEF More
  <2> QED
    BY <2>11
<1>6. Is(h)
  BY <1>5
<1> HIDE DEF h
<1>7. ASSUME NEW i \in 0 .. n PROVE h[i] = IF i = 0 THEN m0 \o m1 ELSE More(h[i - 1], i)
  <2> DEFINE b == [j \in 0 .. n |-> IF j = 0 THEN m0 \o m1 ELSE More(h[j - 1], j)]
  <2>1. b[i] = IF i = 0 THEN m0 \o m1 ELSE More(h[i - 1], i)
    BY Zenon
  <2>2. h = b
    BY <1>6, Zenon DEF More
  <2> QED
    BY <2>1, <2>2, Zenon
<1> DEFINE P == {i \in 0 .. n : Schedules(h[i], i, m0, m1)}
<1>8. 0 \in P
  BY <1>2, <1>4, <1>7
<1>9. ASSUME NEW i \in 1 .. n, i - 1 \in P PROVE i \in P
  <2>1. i \in 0 .. n /\ i # 0
    BY <1>4
  <2> QED
    BY <1>3, <1>7, <1>9, <2>1
<1> HIDE DEF P
<1>10. n \in P
  <2>1. \A i \in 0 .. n : i \in P
    BY <1>4, <1>8, <1>9, Steps
  <2> QED
    BY <1>4, <2>1
<1> QED
  BY <1>1, <1>10 DEF P, n

\* Four limbs of a schedule.
Quad(w, i) == <<w[i + 1], w[i + 2], w[i + 3], w[i + 4]>>

\* What sl_xor and a splat of u make of a block: each limb is added to the one before it.
LEMMA HalfKey ==
    ASSUME NEW x \in Blocks, NEW u \in Limb
    PROVE  LET r1 == XorTable[x[1]][u]
               r2 == XorTable[x[2]][r1]
               r3 == XorTable[x[3]][r2]
               r4 == XorTable[x[4]][r3]
           IN  Xor(sl_xor(x), <<u, u, u, u>>) = <<r1, r2, r3, r4>>
<1> DEFINE X(a, b) == XorTable[a][b]
           a == x[1]
           b == x[2]
           c == x[3]
           d == x[4]
<1>1. a \in Limb /\ b \in Limb /\ c \in Limb /\ d \in Limb /\ 0 \in Limb
  BY BlockLimbs DEF Limb, L
<1>2. sl_xor(x) = <<X(X(X(a, 0), 0), 0), X(X(X(b, a), 0), 0), X(X(X(c, b), a), 0), X(X(X(d, c), b), a)>>
  BY DEF sl_xor, Xor
<1> HIDE DEF X, a, b, c, d
<1>3. \A s, t \in Limb : X(s, t) \in Limb /\ X(s, 0) = s
  BY XorLimb DEF X
<1>4. \A s, t, v \in Limb : X(X(s, t), v) = X(s, X(t, v))
  BY XorLimbAssociates DEF X
<1>5. X(X(X(a, 0), 0), 0) = a /\ X(X(X(b, a), 0), 0) = X(b, a) /\ X(X(X(c, b), a), 0) = X(X(c, b), a)
  <2>1. X(b, a) \in Limb /\ X(X(c, b), a) \in Limb
    BY <1>1, <1>3
  <2> QED
    BY <1>1, <1>3, <2>1
<1>6. Xor(sl_xor(x), <<u, u, u, u>>)
          = <<X(a, u), X(X(b, a), u), X(X(X(c, b), a), u), X(X(X(X(d, c), b), a), u)>>
  BY <1>2, <1>5 DEF Xor, X
<1>7. X(X(b, a), u) = X(b, X(a, u))
  BY <1>1, <1>4
<1>8. X(X(X(c, b), a), u) = X(c, X(b, X(a, u)))
  <2>1. X(c, b) \in Limb /\ X(a, u) \in Limb
    BY <1>1, <1>3
  <2>2. X(X(X(c, b), a), u) = X(X(c, b), X(a, u))
    BY <1>1, <1>4, <2>1
  <2> QED
    BY <1>1, <1>4, <2>1, <2>2
<1>9. X(X(X(X(d, c), b), a), u) = X(d, X(c, X(b, X(a, u))))
  <2>1. X(d, c) \in Limb /\ X(a, u) \in Limb
    BY <1>1, <1>3
  <2>2. X(X(d, c), b) \in Limb /\ X(b, X(a, u)) \in Limb
    BY <1>1, <1>3, <2>1
  <2>3. X(X(X(X(d, c), b), a), u) = X(X(X(d, c), b), X(a, u))
    BY <1>1, <1>4, <2>2
  <2>4. X(X(X(d, c), b), X(a, u)) = X(X(d, c), X(b, X(a, u)))
    BY <1>1, <1>4, <2>1
  <2>5. X(X(d, c), X(b, X(a, u))) = X(d, X(c, X(b, X(a, u))))
    BY <1>1, <1>4, <2>2
  <2> QED
    BY <2>3, <2>4, <2>5
<1> QED
  BY <1>6, <1>7, <1>8, <1>9 DEF X, a, b, c, d

\* What the schedule adds where.
LEMMA KeyLimbIs ==
    ASSUME NEW t \in 0 .. 3, NEW x
    PROVE  /\ KeyLimb(8 * t + 1, x) = XorTable[RotWord(SubWord(x))][2^t]
           /\ KeyLimb(8 * t + 5, x) = SubWord(x)
           /\ \A i \in {2, 3, 4, 6, 7, 8} : KeyLimb(8 * t + i, x) = x
<1>1. (8 * t + 1) % 8 = 1 /\ (8 * t + 1) \div 8 = t /\ (8 * t + 5) % 8 = 5
  OBVIOUS
<1>2. KeyLimb(8 * t + 1, x) = XorTable[RotWord(SubWord(x))][2^t]
  <2>1. (8 * t + 1) % 8 # 5
    BY <1>1
  <2> QED
    BY <1>1, <2>1, Zenon DEF KeyLimb
<1>3. KeyLimb(8 * t + 5, x) = SubWord(x)
  <2>1. (8 * t + 5) % 8 # 1
    BY <1>1
  <2> QED
    BY <1>1, <2>1, Zenon DEF KeyLimb
<1>4. ASSUME NEW i \in {2, 3, 4, 6, 7, 8} PROVE KeyLimb(8 * t + i, x) = x
  <2>1. (8 * t + i) % 8 # 1 /\ (8 * t + i) % 8 # 5
    OBVIOUS
  <2> QED
    BY <2>1, Zenon DEF KeyLimb
<1> QED
  BY <1>2, <1>3, <1>4

\* Four limbs of the schedule from those before them.
LEMMA NextQuad ==
    ASSUME NEW w, NEW m0, NEW m1, Schedules(w, 32, m0, m1), NEW i \in {4 * j : j \in 0 .. 7}, NEW u \in Limb,
           KeyLimb(i + 1, w[i + 8]) = u,
           \A x : \A j \in 2 .. 4 : KeyLimb(i + j, x) = x
    PROVE  /\ Quad(w, i) \in Blocks
           /\ Quad(w, i + 8) = Xor(sl_xor(Quad(w, i)), <<u, u, u, u>>)
<1>1. i \in 0 .. 28
  OBVIOUS
<1>2. \A j \in 1 .. 40 : w[j] \in Limb
  BY DEF Schedules
<1>3. \A j \in 1 .. 32 : w[j + 8] = XorTable[w[j]][KeyLimb(j, w[j + 7])]
  BY DEF Schedules
<1>4. w[i + 1] \in Limb /\ w[i + 2] \in Limb /\ w[i + 3] \in Limb /\ w[i + 4] \in Limb
  BY <1>1, <1>2
<1>5. Quad(w, i) \in Blocks
  BY <1>4, IsBlock, Zenon DEF Quad
<1>6. Quad(w, i)[1] = w[i + 1] /\ Quad(w, i)[2] = w[i + 2] /\ Quad(w, i)[3] = w[i + 3] /\ Quad(w, i)[4] = w[i + 4]
  BY DEF Quad
<1>7. w[i + 9] = XorTable[w[i + 1]][u]
  <2>1. i + 1 \in 1 .. 32 /\ (i + 1) + 8 = i + 9 /\ (i + 1) + 7 = i + 8
    BY <1>1
  <2> QED
    BY <1>3, <2>1
<1>8. w[i + 10] = XorTable[w[i + 2]][w[i + 9]]
  <2>1. i + 2 \in 1 .. 32 /\ (i + 2) + 8 = i + 10 /\ (i + 2) + 7 = i + 9
    BY <1>1
  <2> QED
    BY <1>3, <2>1
<1>9. w[i + 11] = XorTable[w[i + 3]][w[i + 10]]
  <2>1. i + 3 \in 1 .. 32 /\ (i + 3) + 8 = i + 11 /\ (i + 3) + 7 = i + 10
    BY <1>1
  <2> QED
    BY <1>3, <2>1
<1>10. w[i + 12] = XorTable[w[i + 4]][w[i + 11]]
  <2>1. i + 4 \in 1 .. 32 /\ (i + 4) + 8 = i + 12 /\ (i + 4) + 7 = i + 11
    BY <1>1
  <2> QED
    BY <1>3, <2>1
<1>11. Xor(sl_xor(Quad(w, i)), <<u, u, u, u>>) = <<w[i + 9], w[i + 10], w[i + 11], w[i + 12]>>
  <2> DEFINE x == Quad(w, i)
  <2>1. Xor(sl_xor(x), <<u, u, u, u>>) =
            <<XorTable[x[1]][u], XorTable[x[2]][XorTable[x[1]][u]],
              XorTable[x[3]][XorTable[x[2]][XorTable[x[1]][u]]],
              XorTable[x[4]][XorTable[x[3]][XorTable[x[2]][XorTable[x[1]][u]]]]>>
    BY <1>5, HalfKey
  <2> QED
    BY <1>6, <1>7, <1>8, <1>9, <1>10, <2>1, Zenon
<1>12. Quad(w, i + 8) = <<w[i + 9], w[i + 10], w[i + 11], w[i + 12]>>
  <2>1. (i + 8) + 1 = i + 9 /\ (i + 8) + 2 = i + 10 /\ (i + 8) + 3 = i + 11 /\ (i + 8) + 4 = i + 12
    BY <1>1
  <2> QED
    BY <2>1, Zenon DEF Quad
<1> QED
  BY <1>5, <1>11, <1>12

\* The schedule's limbs in pairs of blocks.
QuadPair(w, i) == <<Quad(w, 8 * i), Quad(w, 8 * i + 4)>>

\* One step of the code's schedule is eight limbs of the standard's.
LEMMA NextPair ==
    ASSUME NEW w, NEW m0, NEW m1, Schedules(w, 32, m0, m1), NEW t \in 0 .. 3
    PROVE  aes_genkey_sub(2^t, QuadPair(w, t)) = QuadPair(w, t + 1)
<1> DEFINE p == 8 * t
           q == 8 * t + 4
           x1 == Quad(w, p)
           x2 == Quad(w, q)
           y1 == Quad(w, p + 8)
           u == XorTable[RotWord(SubWord(w[8 * t + 8]))][2^t]
           v == SubWord(w[8 * t + 12])
<1>1. \A j \in 1 .. 40 : w[j] \in Limb
  BY DEF Schedules
<1>2. /\ w[8 * t + 8] \in Limb /\ w[8 * t + 12] \in Limb
      /\ w[8 * t + 8] = w[p + 8] /\ w[8 * t + 12] = w[q + 8]
  <2>1. 8 * t + 8 \in 1 .. 40 /\ 8 * t + 12 \in 1 .. 40 /\ q + 8 = 8 * t + 12
    OBVIOUS
  <2> QED
    BY <1>1, <2>1
<1>3. KeyLimb(p + 1, w[p + 8]) = u
  BY <1>2, KeyLimbIs
<1>4. KeyLimb(q + 1, w[q + 8]) = v
  <2>1. q + 1 = 8 * t + 5
    OBVIOUS
  <2> QED
    BY <1>2, <2>1, KeyLimbIs
<1>5. u \in Limb /\ v \in Limb
  <2>1. p + 1 \in 1 .. 32 /\ q + 1 \in 1 .. 32
    OBVIOUS
  <2>2. w[p + 8] \in Limb /\ w[q + 8] \in Limb
    BY <1>2
  <2> HIDE DEF p, q, u, v
  <2> QED
    BY <1>3, <1>4, <2>1, <2>2, KeyLimbType
<1>6. \A x : \A j \in 2 .. 4 : KeyLimb(p + j, x) = x
  BY KeyLimbIs
<1>7. \A x : \A j \in 2 .. 4 : KeyLimb(q + j, x) = x
  <2> SUFFICES ASSUME NEW x, NEW j \in 2 .. 4 PROVE KeyLimb(q + j, x) = x
    OBVIOUS
  <2>1. q + j = 8 * t + (4 + j) /\ 4 + j \in {6, 7, 8}
    OBVIOUS
  <2> QED
    BY <2>1, KeyLimbIs
<1>8. p \in {4 * j : j \in 0 .. 7} /\ q \in {4 * j : j \in 0 .. 7}
  <2>1. p = 4 * (2 * t) /\ 2 * t \in 0 .. 7 /\ q = 4 * (2 * t + 1) /\ 2 * t + 1 \in 0 .. 7
    OBVIOUS
  <2> HIDE DEF p, q
  <2> QED
    BY <2>1
<1> HIDE DEF u, v, p, q
<1>9. y1 = Xor(sl_xor(x1), <<u, u, u, u>>)
  BY <1>3, <1>5, <1>6, <1>8, NextQuad
<1>10. Quad(w, q + 8) = Xor(sl_xor(x2), <<v, v, v, v>>)
  BY <1>4, <1>5, <1>7, <1>8, NextQuad
<1>11. Splat(KeyGenAssist(x2, 2^t), 4) = <<u, u, u, u>>
  <2>1. q + 4 = 8 * t + 8
    BY DEF q
  <2>2. x2[4] = w[8 * t + 8]
    BY <2>1, Zenon DEF Quad
  <2>3. KeyGenAssist(x2, 2^t)[4] = XorTable[RotWord(SubWord(x2[4]))][2^t]
    BY DEF KeyGenAssist
  <2> QED
    BY <2>2, <2>3, Zenon DEF Splat, u
<1>12. Splat(KeyGenAssist(y1, 0), 3) = <<v, v, v, v>>
  <2>1. p + 8 + 4 = 8 * t + 12
    BY DEF p
  <2>2. y1[4] = w[8 * t + 12]
    BY <2>1, Zenon DEF Quad
  <2>3. KeyGenAssist(y1, 0)[3] = SubWord(y1[4])
    BY DEF KeyGenAssist
  <2> QED
    BY <2>2, <2>3, Zenon DEF Splat, v
<1>13. <<x1, x2>>[1] = x1 /\ <<x1, x2>>[2] = x2
  OBVIOUS
<1> HIDE DEF x1, x2, y1
<1>14. aes_genkey_sub(2^t, <<x1, x2>>) = <<y1, Quad(w, q + 8)>>
  BY <1>9, <1>10, <1>11, <1>12, <1>13, Zenon DEF aes_genkey_sub
<1>15. p + 8 = 8 * (t + 1) /\ q + 8 = 8 * (t + 1) + 4 /\ p = 8 * t /\ q = 8 * t + 4
  BY DEF p, q
<1> QED
  BY <1>14, <1>15, Zenon DEF QuadPair, x1, x2, y1

\* The keys that the code derives from two blocks are the round keys of the standard.
LEMMA KeysAgree ==
    ASSUME NEW m0 \in Blocks, NEW m1 \in Blocks
    PROVE  /\ aes_genkey(m0, m1) = RoundKeys(m0, m1)
           /\ aes_genkey(m0, m1) \in [1 .. 10 -> Blocks]
<1> DEFINE w == KeyWords(m0, m1)
           n == 4
           Is(r) == r = [i \in 0 .. n |-> IF i = 0 THEN <<m0, m1>> ELSE aes_genkey_sub(2^(i - 1), r[i - 1])]
           h == CHOOSE r : Is(r)
<1>1. aes_genkey(m0, m1) = [k \in 1 .. 10 |-> h[(k - 1) \div 2][((k - 1) % 2) + 1]]
  BY DEF aes_genkey
<1>2. Schedules(w, 32, m0, m1)
  BY KeySchedule
<1> HIDE DEF w
<1>3. QuadPair(w, 0) = <<m0, m1>>
  <2>1. m0 = <<m0[1], m0[2], m0[3], m0[4]>> /\ m1 = <<m1[1], m1[2], m1[3], m1[4]>>
    BY BlockLimbs
  <2>2. /\ w[1] = m0[1] /\ w[2] = m0[2] /\ w[3] = m0[3] /\ w[4] = m0[4]
        /\ w[5] = m1[1] /\ w[6] = m1[2] /\ w[7] = m1[3] /\ w[8] = m1[4]
    BY <1>2, Zenon DEF Schedules
  <2>3. QuadPair(w, 0) = <<<<w[1], w[2], w[3], w[4]>>, <<w[5], w[6], w[7], w[8]>>>>
    BY DEF QuadPair, Quad
  <2> QED
    BY <2>1, <2>2, <2>3, Zenon
<1>4. \A i \in 1 .. n : QuadPair(w, i) = aes_genkey_sub(2^(i - 1), QuadPair(w, i - 1))
  <2> SUFFICES ASSUME NEW i \in 1 .. n PROVE QuadPair(w, i) = aes_genkey_sub(2^(i - 1), QuadPair(w, i - 1))
    OBVIOUS
  <2>1. i - 1 \in 0 .. 3 /\ (i - 1) + 1 = i
    OBVIOUS
  <2> QED
    BY <1>2, <2>1, NextPair, Zenon
<1>5. n \in Nat
  OBVIOUS
<1>6. \A k \in 1 .. 10 : (k - 1) \div 2 \in 0 .. n
  OBVIOUS
<1> HIDE DEF n
<1>7. Is([i \in 0 .. n |-> QuadPair(w, i)])
  <2> DEFINE g == [i \in 0 .. n |-> QuadPair(w, i)]
             b == [i \in 0 .. n |-> IF i = 0 THEN <<m0, m1>> ELSE aes_genkey_sub(2^(i - 1), g[i - 1])]
  <2>1. ASSUME NEW i \in 0 .. n PROVE QuadPair(w, i) = IF i = 0 THEN <<m0, m1>> ELSE aes_genkey_sub(2^(i - 1), g[i - 1])
    <3>1. CASE i = 0
      BY <1>3, <3>1
    <3>2. CASE i # 0
      <4>1. i \in 1 .. n /\ i - 1 \in 0 .. n
        BY <1>5, <3>2
      <4>2. g[i - 1] = QuadPair(w, i - 1)
        BY <4>1
      <4> QED
        BY <1>4, <3>2, <4>1, <4>2, Zenon
    <3> QED
      BY <3>1, <3>2
  <2>2. g = b
    BY <2>1, Zenon
  <2> QED
    BY <2>2, Zenon
<1>8. Is(h)
  BY <1>7, Zenon
<1> HIDE DEF h
<1>9. ASSUME NEW i \in 0 .. n PROVE h[i] = IF i = 0 THEN <<m0, m1>> ELSE aes_genkey_sub(2^(i - 1), h[i - 1])
  <2> DEFINE b == [j \in 0 .. n |-> IF j = 0 THEN <<m0, m1>> ELSE aes_genkey_sub(2^(j - 1), h[j - 1])]
  <2>1. b[i] = IF i = 0 THEN <<m0, m1>> ELSE aes_genkey_sub(2^(i - 1), h[i - 1])
    BY Zenon
  <2>2. h = b
    BY <1>8, Zenon
  <2> QED
    BY <2>1, <2>2, Zenon
<1>10. \A i \in 0 .. n : h[i] = QuadPair(w, i)
  <2> DEFINE P == {i \in 0 .. n : h[i] = QuadPair(w, i)}
  <2>1. 0 \in P
    BY <1>3, <1>5, <1>9
  <2>2. ASSUME NEW i \in 1 .. n, i - 1 \in P PROVE i \in P
    <3>1. i \in 0 .. n /\ i # 0
      BY <1>5
    <3>2. h[i - 1] = QuadPair(w, i - 1)
      BY <2>2
    <3>3. h[i] = QuadPair(w, i)
      BY <1>4, <1>9, <3>1, <3>2, Zenon
    <3> QED
      BY <3>1, <3>3
  <2> HIDE DEF P
  <2>3. \A i \in 0 .. n : i \in P
    BY <1>5, <2>1, <2>2, Steps
  <2> QED
    BY <2>3 DEF P
<1>11. ASSUME NEW k \in 1 .. 10
       PROVE  /\ h[(k - 1) \div 2][((k - 1) % 2) + 1] = <<w[4 * k - 3], w[4 * k - 2], w[4 * k - 1], w[4 * k]>>
              /\ <<w[4 * k - 3], w[4 * k - 2], w[4 * k - 1], w[4 * k]>> \in Blocks
  <2> DEFINE i == (k - 1) \div 2
             r == (k - 1) % 2
  <2>1. h[i] = QuadPair(w, i)
    BY <1>6, <1>10
  <2>2. /\ r = 0 => 8 * i = 4 * k - 4
        /\ r = 1 => 8 * i + 4 = 4 * k - 4
        /\ r = 0 \/ r = 1
    OBVIOUS
  <2> HIDE DEF i, r
  <2>3. h[i][r + 1] = Quad(w, 4 * k - 4)
    <3>1. CASE r = 0
      BY <2>1, <2>2, <3>1 DEF QuadPair
    <3>2. CASE r = 1
      BY <2>1, <2>2, <3>2 DEF QuadPair
    <3> QED
      BY <2>2, <3>1, <3>2
  <2>4. Quad(w, 4 * k - 4) = <<w[4 * k - 3], w[4 * k - 2], w[4 * k - 1], w[4 * k]>>
    <3>1. 4 * k - 4 + 1 = 4 * k - 3 /\ 4 * k - 4 + 2 = 4 * k - 2 /\ 4 * k - 4 + 3 = 4 * k - 1 /\ 4 * k - 4 + 4 = 4 * k
      OBVIOUS
    <3> QED
      BY <3>1, Zenon DEF Quad
  <2>5. w[4 * k - 3] \in Limb /\ w[4 * k - 2] \in Limb /\ w[4 * k - 1] \in Limb /\ w[4 * k] \in Limb
    <3>1. \A j \in 1 .. 40 : w[j] \in Limb
      BY <1>2 DEF Schedules
    <3>2. 4 * k - 3 \in 1 .. 40 /\ 4 * k - 2 \in 1 .. 40 /\ 4 * k - 1 \in 1 .. 40 /\ 4 * k \in 1 .. 40
      OBVIOUS
    <3> QED
      BY <3>1, <3>2
  <2>6. <<w[4 * k - 3], w[4 * k - 2], w[4 * k - 1], w[4 * k]>> \in Blocks
    BY <2>5, IsBlock, Zenon
  <2> QED
    BY <2>3, <2>4, <2>6 DEF i, r
<1>12. RoundKeys(m0, m1) = [k \in 1 .. 10 |-> <<w[4 * k - 3], w[4 * k - 2], w[4 * k - 1], w[4 * k]>>]
  BY DEF RoundKeys, w
<1>13. RoundKeys(m0, m1) \in [1 .. 10 -> Blocks]
  BY <1>11, <1>12
<1>14. [k \in 1 .. 10 |-> h[(k - 1) \div 2][((k - 1) % 2) + 1]]
           = [k \in 1 .. 10 |-> <<w[4 * k - 3], w[4 * k - 2], w[4 * k - 1], w[4 * k]>>]
  BY <1>11, Zenon
<1>15. aes_genkey(m0, m1) = RoundKeys(m0, m1)
  BY <1>1, <1>12, <1>14, Zenon
<1> QED
  BY <1>13, <1>15

-----------------------------------------------------------------------------
(* The scratchpad *)

Row == [0 .. 7 -> Blocks]

\* The blocks of a state.
LEMMA StateBlocks ==
    ASSUME NEW h \in [0 .. 24 -> Word], NEW i \in 0 .. 11
    PROVE  /\ StateBlock(h, i) \in Blocks
           /\ Lo(StateBlock(h, i)) = h[2 * i] /\ Hi(StateBlock(h, i)) = h[2 * i + 1]
<1>1. 2 * i \in 0 .. 24 /\ 2 * i + 1 \in 0 .. 24
  OBVIOUS
<1>2. h[2 * i] \in Word /\ h[2 * i + 1] \in Word
  BY <1>1
<1> QED
  BY <1>2, BlockWords DEF StateBlock

\* The rows of g are made each from the one before it.
IsRows(g, n, first, F) ==
    /\ g \in [0 .. n -> Row]
    /\ g[0] = first
    /\ \A i \in 1 .. n : g[i] = [j \in 0 .. 7 |-> F[i][j][g[i - 1][j]]]

\* Rows of blocks, each made from the one before it.
LEMMA RowsExist ==
    ASSUME NEW n \in Nat, NEW first \in Row,
           NEW F \in [1 .. n -> [0 .. 7 -> [Blocks -> Blocks]]]
    PROVE  \E g : IsRows(g, n, first, F)
<1> DEFINE S == [i \in 0 .. n |-> Row]
           step == [i \in 1 .. n |-> [r \in Row |-> [j \in 0 .. 7 |-> F[i][j][r[j]]]]]
<1>1. ASSUME NEW i \in 1 .. n, NEW r \in Row
      PROVE  step[i][r] = [j \in 0 .. 7 |-> F[i][j][r[j]]] /\ step[i][r] \in Row
  <2>1. step[i][r] = [j \in 0 .. 7 |-> F[i][j][r[j]]]
    OBVIOUS
  <2>2. ASSUME NEW j \in 0 .. 7 PROVE F[i][j][r[j]] \in Blocks
    <3>1. F[i] \in [0 .. 7 -> [Blocks -> Blocks]] /\ r[j] \in Blocks
      BY DEF Row
    <3> QED
      BY <3>1
  <2>3. [j \in 0 .. 7 |-> F[i][j][r[j]]] \in Row
    BY <2>2, Zenon DEF Row
  <2> QED
    BY <2>1, <2>3
<1>2. \A i \in 0 .. n : S[i] = Row
  OBVIOUS
<1>3. \A i \in 1 .. n : i - 1 \in 0 .. n /\ i \in 0 .. n
  OBVIOUS
<1>4. 0 \in 0 .. n
  OBVIOUS
<1> HIDE DEF S, step
<1>5. \A i \in 1 .. n : \A r \in S[i - 1] : step[i][r] \in S[i]
  BY <1>1, <1>2, <1>3
<1>6. PICK g : Runs(g, n, S, first, step)
  <2>1. first \in S[0]
    BY <1>2, <1>4
  <2> QED
    BY <1>5, <2>1, Iteration
<1>7. g \in [0 .. n -> Row]
  <2>1. \A i \in 0 .. n : g[i] \in Row
    BY <1>2, <1>6 DEF Runs
  <2>2. g = [i \in 0 .. n |-> g[i]]
    BY <1>6 DEF Runs
  <2> QED
    BY <2>1, <2>2, Zenon
<1>8. ASSUME NEW i \in 1 .. n PROVE g[i] = [j \in 0 .. 7 |-> F[i][j][g[i - 1][j]]]
  <2>1. g[i] = step[i][g[i - 1]]
    BY <1>6 DEF Runs
  <2>2. g[i - 1] \in Row
    BY <1>3, <1>7
  <2> QED
    BY <1>1, <2>1, <2>2, Zenon
<1>9. g[0] = first
  BY <1>6 DEF Runs
<1>10. IsRows(g, n, first, F)
  BY <1>7, <1>8, <1>9, Zenon DEF IsRows
<1> QED
  BY <1>10

\* The pad that the code fills is the one of the standard.
LEMMA ExplodeFills ==
    ASSUME NEW c, c.algo \in Algos, NEW h \in [0 .. 24 -> Word]
    PROVE  /\ Exploded(c, h) = Filled(h, Cells[c.algo])
           /\ Exploded(c, h) \in [0 .. Cells[c.algo] - 1 -> Blocks]
<1> DEFINE n == Cells[c.algo]
           q == n \div 8
           rk == RoundKeys(StateBlock(h, 0), StateBlock(h, 1))
           keys == aes_genkey(StateBlock(h, 0), StateBlock(h, 1))
           Is(r) == r = [i \in 0 .. q |-> [j \in 0 .. 7 |->
                            IF i = 0 THEN StateBlock(h, 4 + j) ELSE Rounds(c, r[i - 1][j], keys)]]
           x == CHOOSE r : Is(r)
           IsFill(f) == f = [a \in 0 .. n - 1 |->
                                Encrypted(IF a < 8 THEN StateBlock(h, 4 + a) ELSE f[a - 8], rk)]
           fill == CHOOSE f : IsFill(f)
<1>1. StateBlock(h, 0) \in Blocks /\ StateBlock(h, 1) \in Blocks
  BY StateBlocks
<1>2. keys = rk /\ rk \in [1 .. 10 -> Blocks]
  BY <1>1, KeysAgree
<1>3. Exploded(c, h) = [a \in 0 .. n - 1 |-> x[a \div 8 + 1][a % 8]]
  BY Zenon DEF Exploded
<1>4. Filled(h, n) = fill
  BY Zenon DEF Filled
<1>5. n \in Nat /\ q \in Nat /\ n = 8 * q
  <2>1. n \in Nat /\ n % 8 = 0
    BY CryptoNightAssumption
  <2> HIDE DEF n
  <2> QED
    BY <2>1
<1> HIDE DEF n, q, keys, rk
<1>6. ASSUME NEW y \in Blocks PROVE Rounds(c, y, keys) = Encrypted(y, rk) /\ Encrypted(y, rk) \in Blocks
  BY <1>2, RoundsEncrypt, EncryptedBlock
<1>7. PICK g \in [0 .. q -> Row] :
          /\ g[0] = [j \in 0 .. 7 |-> StateBlock(h, 4 + j)]
          /\ \A i \in 1 .. q : g[i] = [j \in 0 .. 7 |-> Encrypted(g[i - 1][j], rk)]
  <2> DEFINE first == [j \in 0 .. 7 |-> StateBlock(h, 4 + j)]
             F == [i \in 1 .. q |-> [j \in 0 .. 7 |-> [y \in Blocks |-> Encrypted(y, rk)]]]
  <2>1. first \in Row
    <3>1. \A j \in 0 .. 7 : 4 + j \in 0 .. 11
      OBVIOUS
    <3>2. \A j \in 0 .. 7 : StateBlock(h, 4 + j) \in Blocks
      BY <3>1, StateBlocks
    <3> QED
      BY <3>2, Zenon DEF Row
  <2>2. F \in [1 .. q -> [0 .. 7 -> [Blocks -> Blocks]]]
    <3>1. [y \in Blocks |-> Encrypted(y, rk)] \in [Blocks -> Blocks]
      BY <1>6, Zenon
    <3> QED
      BY <3>1, Zenon
  <2>3. \A i \in 1 .. q : \A j \in 0 .. 7 : \A y \in Blocks : F[i][j][y] = Encrypted(y, rk)
    BY Zenon
  <2> HIDE DEF first, F
  <2>a. PICK g : IsRows(g, q, first, F)
    BY <1>5, <2>1, <2>2, RowsExist, Zenon
  <2>4. /\ g \in [0 .. q -> Row]
        /\ g[0] = first
        /\ \A i \in 1 .. q : g[i] = [j \in 0 .. 7 |-> F[i][j][g[i - 1][j]]]
    BY <2>a, Zenon DEF IsRows
  <2>5. ASSUME NEW i \in 1 .. q PROVE g[i] = [j \in 0 .. 7 |-> Encrypted(g[i - 1][j], rk)]
    <3>1. i - 1 \in 0 .. q
      BY <1>5
    <3>2. \A j \in 0 .. 7 : g[i - 1][j] \in Blocks
      BY <2>4, <3>1 DEF Row
    <3>3. \A j \in 0 .. 7 : F[i][j][g[i - 1][j]] = Encrypted(g[i - 1][j], rk)
      BY <2>3, <3>2, Zenon
    <3>4. [j \in 0 .. 7 |-> F[i][j][g[i - 1][j]]] = [j \in 0 .. 7 |-> Encrypted(g[i - 1][j], rk)]
      BY <3>3, Zenon
    <3> QED
      BY <2>4, <3>4, Zenon
  <2> QED
    BY <2>4, <2>5, Zenon DEF first
<1>8. ASSUME NEW i \in 0 .. q, NEW j \in 0 .. 7 PROVE g[i][j] \in Blocks
  BY <1>7 DEF Row
<1>9. ASSUME NEW i \in 0 .. q
      PROVE  g[i] = [j \in 0 .. 7 |-> IF i = 0 THEN StateBlock(h, 4 + j) ELSE Rounds(c, g[i - 1][j], keys)]
  <2>1. CASE i = 0
    <3>1. [j \in 0 .. 7 |-> StateBlock(h, 4 + j)]
          = [j \in 0 .. 7 |-> IF i = 0 THEN StateBlock(h, 4 + j) ELSE Rounds(c, g[i - 1][j], keys)]
      BY <2>1, Zenon
    <3> QED
      BY <1>7, <2>1, <3>1, Zenon
  <2>2. CASE i # 0
    <3>1. i \in 1 .. q /\ i - 1 \in 0 .. q
      BY <1>5, <2>2
    <3>2. \A j \in 0 .. 7 : Encrypted(g[i - 1][j], rk) = Rounds(c, g[i - 1][j], keys)
      BY <1>6, <1>8, <3>1
    <3>3. [j \in 0 .. 7 |-> Encrypted(g[i - 1][j], rk)]
          = [j \in 0 .. 7 |-> IF i = 0 THEN StateBlock(h, 4 + j) ELSE Rounds(c, g[i - 1][j], keys)]
      BY <2>2, <3>2, Zenon
    <3> QED
      BY <1>7, <3>1, <3>3, Zenon
  <2> QED
    BY <2>1, <2>2
<1>10. Is(g)
  <2>1. g = [i \in 0 .. q |-> g[i]]
    BY <1>7
  <2>2. [i \in 0 .. q |-> g[i]] = [i \in 0 .. q |-> [j \in 0 .. 7 |->
            IF i = 0 THEN StateBlock(h, 4 + j) ELSE Rounds(c, g[i - 1][j], keys)]]
    BY <1>9, Zenon
  <2> QED
    BY <2>1, <2>2, Zenon
<1>11. Is(x)
  BY <1>10, Zenon
<1> HIDE DEF x
<1>12. ASSUME NEW i \in 0 .. q
       PROVE  x[i] = [j \in 0 .. 7 |-> IF i = 0 THEN StateBlock(h, 4 + j) ELSE Rounds(c, x[i - 1][j], keys)]
  <2> DEFINE b == [k \in 0 .. q |-> [j \in 0 .. 7 |->
                      IF k = 0 THEN StateBlock(h, 4 + j) ELSE Rounds(c, x[k - 1][j], keys)]]
  <2>1. b[i] = [j \in 0 .. 7 |-> IF i = 0 THEN StateBlock(h, 4 + j) ELSE Rounds(c, x[i - 1][j], keys)]
    BY Zenon
  <2>2. x = b
    BY <1>11, Zenon
  <2> QED
    BY <2>1, <2>2, Zenon
<1>13. \A i \in 0 .. q : x[i] = g[i]
  <2> DEFINE P == {i \in 0 .. q : x[i] = g[i]}
  <2>1. 0 \in P
    <3>1. 0 \in 0 .. q
      BY <1>5
    <3>2. x[0] = [j \in 0 .. 7 |-> StateBlock(h, 4 + j)]
      BY <1>12, <3>1
    <3> QED
      BY <1>7, <3>1, <3>2
  <2>2. ASSUME NEW i \in 1 .. q, i - 1 \in P PROVE i \in P
    <3>1. i \in 0 .. q
      BY <1>5
    <3>2. x[i - 1] = g[i - 1]
      BY <2>2
    <3>3. x[i] = g[i]
      BY <1>9, <1>12, <3>1, <3>2, Zenon
    <3> QED
      BY <3>1, <3>3
  <2> HIDE DEF P
  <2>3. \A i \in 0 .. q : i \in P
    BY <1>5, <2>1, <2>2, Steps
  <2> QED
    BY <2>3 DEF P
<1> DEFINE pad == [a \in 0 .. n - 1 |-> g[a \div 8 + 1][a % 8]]
<1>14. ASSUME NEW a \in 0 .. n - 1
       PROVE  /\ a \div 8 + 1 \in 1 .. q /\ a \div 8 + 1 \in 0 .. q
              /\ a % 8 \in 0 .. 7
  <2>1. a \in Nat /\ a < 8 * q
    BY <1>5
  <2> HIDE DEF pad
  <2>2. a \div 8 \in Nat /\ 8 * (a \div 8) <= a /\ a % 8 \in 0 .. 7
    BY <2>1, SMT
  <2>3. a \div 8 < q
    BY <1>5, <2>1, <2>2
  <2> QED
    BY <1>5, <2>2, <2>3
<1>15. Exploded(c, h) = pad
  <2>1. \A a \in 0 .. n - 1 : a \div 8 + 1 \in 0 .. q
    BY <1>14, Zenon
  <2>2. \A a \in 0 .. n - 1 : x[a \div 8 + 1][a % 8] = g[a \div 8 + 1][a % 8]
    BY <1>13, <2>1
  <2> QED
    BY <1>3, <2>2, Zenon
<1>16. pad \in [0 .. n - 1 -> Blocks]
  <2>1. \A a \in 0 .. n - 1 : a \div 8 + 1 \in 0 .. q /\ a % 8 \in 0 .. 7
    BY <1>5, <1>14
  <2>2. \A a \in 0 .. n - 1 : g[a \div 8 + 1][a % 8] \in Blocks
    BY <1>8, <2>1, Zenon
  <2> QED
    BY <2>2, Zenon
<1>17. ASSUME NEW a \in 0 .. n - 1
       PROVE  pad[a] = Encrypted(IF a < 8 THEN StateBlock(h, 4 + a) ELSE pad[a - 8], rk)
  <2> DEFINE i == a \div 8 + 1
             j == a % 8
  <2>1. i \in 1 .. q /\ j \in 0 .. 7
    BY <1>14
  <2>2. pad[a] = g[i][j]
    BY Zenon
  <2>3. g[i][j] = Encrypted(g[i - 1][j], rk)
    <3> HIDE DEF i, j
    <3>1. g[i] = [k \in 0 .. 7 |-> Encrypted(g[i - 1][k], rk)]
      BY <1>7, <2>1, Zenon
    <3> QED
      BY <2>1, <3>1, Zenon
  <2>4. CASE a < 8
    <3>1. i - 1 = 0 /\ j = a
      BY <1>5, <2>4
    <3>2. g[0][a] = StateBlock(h, 4 + a)
      <4>1. a \in 0 .. 7
        BY <1>5, <2>4
      <4> QED
        BY <1>7, <4>1, Zenon
    <3> QED
      BY <2>2, <2>3, <2>4, <3>1, <3>2, Zenon
  <2>5. CASE ~(a < 8)
    <3>1. a - 8 \in 0 .. n - 1 /\ (a - 8) \div 8 + 1 = i - 1 /\ (a - 8) % 8 = j
      BY <1>5, <2>5
    <3>2. pad[a - 8] = g[i - 1][j]
      BY <3>1, Zenon
    <3> QED
      BY <2>2, <2>3, <2>5, <3>2, Zenon
  <2> QED
    BY <2>4, <2>5
<1> HIDE DEF pad
<1>18. IsFill(pad)
  <2>1. pad = [a \in 0 .. n - 1 |-> pad[a]]
    BY <1>16
  <2>2. [a \in 0 .. n - 1 |-> pad[a]]
        = [a \in 0 .. n - 1 |-> Encrypted(IF a < 8 THEN StateBlock(h, 4 + a) ELSE pad[a - 8], rk)]
    BY <1>17, Zenon
  <2> QED
    BY <2>1, <2>2, Zenon
<1>19. IsFill(fill)
  BY <1>18, Zenon
<1> HIDE DEF fill
<1>20. ASSUME NEW a \in 0 .. n - 1
       PROVE  fill[a] = Encrypted(IF a < 8 THEN StateBlock(h, 4 + a) ELSE fill[a - 8], rk)
  <2> DEFINE b == [k \in 0 .. n - 1 |-> Encrypted(IF k < 8 THEN StateBlock(h, 4 + k) ELSE fill[k - 8], rk)]
  <2>1. b[a] = Encrypted(IF a < 8 THEN StateBlock(h, 4 + a) ELSE fill[a - 8], rk)
    BY Zenon
  <2>2. fill = b
    BY <1>19, Zenon
  <2> QED
    BY <2>1, <2>2, Zenon
<1>21. \A a \in 0 .. n - 1 : fill[a] = pad[a]
  <2> DEFINE Missing == {a \in 0 .. n - 1 : fill[a] # pad[a]}
  <2> SUFFICES ASSUME Missing # {} PROVE FALSE
    OBVIOUS
  <2>1. Missing \in SUBSET Nat
    BY <1>5
  <2>2. PICK a \in Missing : \A k \in Missing : a <= k
    <3> HIDE DEF Missing
    <3> QED
      BY <2>1, NatMin
  <2>3. CASE a < 8
    <3>1. fill[a] = Encrypted(StateBlock(h, 4 + a), rk) /\ pad[a] = Encrypted(StateBlock(h, 4 + a), rk)
      BY <1>17, <1>20, <2>3
    <3> QED
      BY <3>1, Zenon
  <2>4. CASE ~(a < 8)
    <3>1. a - 8 \in 0 .. n - 1 /\ ~(a <= a - 8)
      BY <1>5, <2>4
    <3>2. fill[a - 8] = pad[a - 8]
      BY <2>2, <3>1
    <3>3. fill[a] = pad[a]
      BY <1>17, <1>20, <3>2, Zenon
    <3> QED
      BY <3>3, Zenon
  <2> QED
    BY <2>3, <2>4
<1>22. fill = pad
  <2>1. fill = [a \in 0 .. n - 1 |-> fill[a]]
    <3> DEFINE b == [k \in 0 .. n - 1 |-> Encrypted(IF k < 8 THEN StateBlock(h, 4 + k) ELSE fill[k - 8], rk)]
    <3>1. b = [a \in 0 .. n - 1 |-> b[a]]
      BY Zenon
    <3>2. fill = b
      BY <1>19, Zenon
    <3> QED
      BY <3>1, <3>2, Zenon
  <2>2. pad = [a \in 0 .. n - 1 |-> pad[a]]
    BY <1>16
  <2> QED
    BY <1>21, <2>1, <2>2, Zenon
<1> QED
  BY <1>4, <1>15, <1>16, <1>22, Zenon DEF n

\* The state into which the code folds a pad is the one of the standard.
LEMMA ImplodeFolds ==
    ASSUME NEW c, c.algo \in Algos, NEW h \in [0 .. 24 -> Word],
           NEW pad \in [0 .. Cells[c.algo] - 1 -> Blocks]
    PROVE  Imploded(c, h, pad) = Folded(h, pad, Cells[c.algo])
<1> DEFINE n == Cells[c.algo]
           q == n \div 8
           keys == aes_genkey(StateBlock(h, 2), StateBlock(h, 3))
           rk == RoundKeys(StateBlock(h, 2), StateBlock(h, 3))
           Is(r) == r = [i \in 0 .. q |-> [j \in 0 .. 7 |->
                            IF i = 0 THEN StateBlock(h, 4 + j)
                            ELSE Rounds(c, Xor(pad[8 * (i - 1) + j], r[i - 1][j]), keys)]]
           x == CHOOSE r : Is(r)
           IsText(r) == r = [i \in 0 .. q |-> [j \in 0 .. 7 |->
                                IF i = 0 THEN StateBlock(h, 4 + j)
                                ELSE Encrypted(Xor(r[i - 1][j], pad[8 * (i - 1) + j]), rk)]]
           text == CHOOSE r : IsText(r)
<1>1. StateBlock(h, 2) \in Blocks /\ StateBlock(h, 3) \in Blocks
  BY StateBlocks
<1>2. keys = rk /\ rk \in [1 .. 10 -> Blocks]
  BY <1>1, KeysAgree
<1>3. Imploded(c, h, pad) = Replaced(h, x[q])
  BY Zenon DEF Imploded
<1>4. Folded(h, pad, n) = Replaced(h, text[q])
  BY Zenon DEF Folded
<1>5. n \in Nat /\ q \in Nat /\ n = 8 * q
  <2>1. n \in Nat /\ n % 8 = 0
    BY CryptoNightAssumption
  <2> HIDE DEF n
  <2> QED
    BY <2>1
<1>6. pad \in [0 .. n - 1 -> Blocks]
  OBVIOUS
<1> HIDE DEF n, q, keys, rk
<1>7. ASSUME NEW i \in 1 .. q, NEW j \in 0 .. 7 PROVE pad[8 * (i - 1) + j] \in Blocks
  <2>1. 8 * (i - 1) + j \in 0 .. n - 1
    BY <1>5
  <2> QED
    BY <1>6, <2>1
<1>8. ASSUME NEW i \in 1 .. q, NEW j \in 0 .. 7, NEW y \in Blocks
      PROVE  /\ Encrypted(Xor(y, pad[8 * (i - 1) + j]), rk) \in Blocks
             /\ Rounds(c, Xor(pad[8 * (i - 1) + j], y), keys)
                  = Encrypted(Xor(y, pad[8 * (i - 1) + j]), rk)
  <2> DEFINE p == pad[8 * (i - 1) + j]
  <2>1. p \in Blocks
    BY <1>7
  <2> HIDE DEF p
  <2>2. Xor(y, p) \in Blocks /\ Xor(p, y) = Xor(y, p)
    BY <2>1, XorBlocks
  <2>3. Encrypted(Xor(y, p), rk) \in Blocks
    BY <1>2, <2>2, EncryptedBlock
  <2>4. Rounds(c, Xor(y, p), rk) = Encrypted(Xor(y, p), rk)
    BY <1>2, <2>2, RoundsEncrypt
  <2>5. Rounds(c, Xor(p, y), keys) = Encrypted(Xor(y, p), rk)
    BY <1>2, <2>2, <2>4, Zenon
  <2> QED
    BY <2>3, <2>5 DEF p
<1>9. PICK g : /\ g \in [0 .. q -> Row]
               /\ g[0] = [j \in 0 .. 7 |-> StateBlock(h, 4 + j)]
               /\ \A i \in 1 .. q : \A j \in 0 .. 7 :
                      g[i][j] = Encrypted(Xor(g[i - 1][j], pad[8 * (i - 1) + j]), rk)
  <2> DEFINE first == [j \in 0 .. 7 |-> StateBlock(h, 4 + j)]
             F == [i \in 1 .. q |-> [j \in 0 .. 7 |-> [y \in Blocks |->
                      Encrypted(Xor(y, pad[8 * (i - 1) + j]), rk)]]]
  <2>1. first \in Row
    <3>1. \A j \in 0 .. 7 : 4 + j \in 0 .. 11
      OBVIOUS
    <3>2. \A j \in 0 .. 7 : StateBlock(h, 4 + j) \in Blocks
      BY <3>1, StateBlocks
    <3> QED
      BY <3>2, Zenon DEF Row
  <2>2. F \in [1 .. q -> [0 .. 7 -> [Blocks -> Blocks]]]
    BY <1>8, Zenon
  <2>3. \A i \in 1 .. q : \A j \in 0 .. 7 : \A y \in Blocks :
            F[i][j][y] = Encrypted(Xor(y, pad[8 * (i - 1) + j]), rk)
    BY Zenon
  <2> HIDE DEF first, F
  <2>4. PICK g : IsRows(g, q, first, F)
    BY <1>5, <2>1, <2>2, RowsExist, Zenon
  <2>5. /\ g \in [0 .. q -> Row]
        /\ g[0] = first
        /\ \A i \in 1 .. q : g[i] = [j \in 0 .. 7 |-> F[i][j][g[i - 1][j]]]
    BY <2>4, Zenon DEF IsRows
  <2>6. ASSUME NEW i \in 1 .. q, NEW j \in 0 .. 7
        PROVE  g[i][j] = Encrypted(Xor(g[i - 1][j], pad[8 * (i - 1) + j]), rk)
    <3>1. i - 1 \in 0 .. q
      <4>1. \A k \in 1 .. q : k - 1 \in 0 .. q
        BY <1>5
      <4> QED
        BY <4>1, Zenon
    <3>2. g[i - 1] \in Row
      BY <2>5, <3>1, Zenon
    <3>a. g[i - 1][j] \in Blocks
      BY <3>2, Zenon DEF Row
    <3>b. g[i] = [k \in 0 .. 7 |-> F[i][k][g[i - 1][k]]]
      BY <2>5, Zenon
    <3>3. g[i][j] = F[i][j][g[i - 1][j]]
      BY <3>b, Zenon
    <3> QED
      BY <2>3, <3>a, <3>3, Zenon
  <2> QED
    BY <2>5, <2>6, Zenon DEF first
<1>10. ASSUME NEW i \in 0 .. q, NEW j \in 0 .. 7 PROVE g[i][j] \in Blocks
  <2>1. g[i] \in Row
    BY <1>9, Zenon
  <2> QED
    BY <2>1, Zenon DEF Row
<1>11. ASSUME NEW i \in 0 .. q, NEW j \in 0 .. 7
       PROVE  /\ g[i][j] = IF i = 0 THEN StateBlock(h, 4 + j)
                           ELSE Rounds(c, Xor(pad[8 * (i - 1) + j], g[i - 1][j]), keys)
              /\ g[i][j] = IF i = 0 THEN StateBlock(h, 4 + j)
                           ELSE Encrypted(Xor(g[i - 1][j], pad[8 * (i - 1) + j]), rk)
  <2>1. CASE i = 0
    BY <1>9, <2>1
  <2>2. CASE i # 0
    <3>1. i \in 1 .. q /\ i - 1 \in 0 .. q
      BY <1>5, <2>2
    <3>2. g[i - 1][j] \in Blocks
      BY <1>10, <3>1
    <3>3. Rounds(c, Xor(pad[8 * (i - 1) + j], g[i - 1][j]), keys)
              = Encrypted(Xor(g[i - 1][j], pad[8 * (i - 1) + j]), rk)
      BY <1>8, <3>1, <3>2
    <3>4. g[i][j] = Encrypted(Xor(g[i - 1][j], pad[8 * (i - 1) + j]), rk)
      BY <1>9, <3>1
    <3> QED
      BY <2>2, <3>3, <3>4, Zenon
  <2> QED
    BY <2>1, <2>2
<1>12. g = [i \in 0 .. q |-> [j \in 0 .. 7 |-> g[i][j]]]
  <2>1. \A i \in 0 .. q : g[i] = [j \in 0 .. 7 |-> g[i][j]]
    BY <1>9 DEF Row
  <2>2. g = [i \in 0 .. q |-> g[i]]
    BY <1>9
  <2>3. [i \in 0 .. q |-> g[i]] = [i \in 0 .. q |-> [j \in 0 .. 7 |-> g[i][j]]]
    BY <2>1, Zenon
  <2> QED
    BY <2>2, <2>3, Zenon
<1>13. Is(g)
  <2>1. [i \in 0 .. q |-> [j \in 0 .. 7 |-> g[i][j]]]
        = [i \in 0 .. q |-> [j \in 0 .. 7 |->
              IF i = 0 THEN StateBlock(h, 4 + j)
              ELSE Rounds(c, Xor(pad[8 * (i - 1) + j], g[i - 1][j]), keys)]]
    BY <1>11, Zenon
  <2> QED
    BY <1>12, <2>1, Zenon
<1>14. IsText(g)
  <2>1. [i \in 0 .. q |-> [j \in 0 .. 7 |-> g[i][j]]]
        = [i \in 0 .. q |-> [j \in 0 .. 7 |->
              IF i = 0 THEN StateBlock(h, 4 + j)
              ELSE Encrypted(Xor(g[i - 1][j], pad[8 * (i - 1) + j]), rk)]]
    BY <1>11, Zenon
  <2> QED
    BY <1>12, <2>1, Zenon
<1>15. Is(x) /\ IsText(text)
  BY <1>13, <1>14, Zenon
<1> HIDE DEF x, text
<1>16. ASSUME NEW i \in 0 .. q
       PROVE  /\ x[i] = [j \in 0 .. 7 |-> IF i = 0 THEN StateBlock(h, 4 + j)
                            ELSE Rounds(c, Xor(pad[8 * (i - 1) + j], x[i - 1][j]), keys)]
              /\ text[i] = [j \in 0 .. 7 |-> IF i = 0 THEN StateBlock(h, 4 + j)
                               ELSE Encrypted(Xor(text[i - 1][j], pad[8 * (i - 1) + j]), rk)]
              /\ g[i] = [j \in 0 .. 7 |-> IF i = 0 THEN StateBlock(h, 4 + j)
                            ELSE Rounds(c, Xor(pad[8 * (i - 1) + j], g[i - 1][j]), keys)]
              /\ g[i] = [j \in 0 .. 7 |-> IF i = 0 THEN StateBlock(h, 4 + j)
                            ELSE Encrypted(Xor(g[i - 1][j], pad[8 * (i - 1) + j]), rk)]
  <2> DEFINE X(r) == [k \in 0 .. q |-> [j \in 0 .. 7 |-> IF k = 0 THEN StateBlock(h, 4 + j)
                         ELSE Rounds(c, Xor(pad[8 * (k - 1) + j], r[k - 1][j]), keys)]]
             T(r) == [k \in 0 .. q |-> [j \in 0 .. 7 |-> IF k = 0 THEN StateBlock(h, 4 + j)
                         ELSE Encrypted(Xor(r[k - 1][j], pad[8 * (k - 1) + j]), rk)]]
  <2>1. \A r : X(r)[i] = [j \in 0 .. 7 |-> IF i = 0 THEN StateBlock(h, 4 + j)
                              ELSE Rounds(c, Xor(pad[8 * (i - 1) + j], r[i - 1][j]), keys)]
    BY Zenon
  <2>2. \A r : T(r)[i] = [j \in 0 .. 7 |-> IF i = 0 THEN StateBlock(h, 4 + j)
                              ELSE Encrypted(Xor(r[i - 1][j], pad[8 * (i - 1) + j]), rk)]
    BY Zenon
  <2>3. x = X(x) /\ text = T(text) /\ g = X(g) /\ g = T(g)
    BY <1>13, <1>14, <1>15, Zenon
  <2> HIDE DEF X, T
  <2> QED
    BY <2>1, <2>2, <2>3, Zenon
<1>17. \A i \in 0 .. q : x[i] = g[i] /\ text[i] = g[i]
  <2> DEFINE P == {i \in 0 .. q : x[i] = g[i] /\ text[i] = g[i]}
  <2>1. 0 \in P
    <3>1. 0 \in 0 .. q
      BY <1>5
    <3>2. /\ x[0] = [j \in 0 .. 7 |-> StateBlock(h, 4 + j)]
          /\ text[0] = [j \in 0 .. 7 |-> StateBlock(h, 4 + j)]
      BY <1>16, <3>1
    <3> QED
      BY <1>9, <3>1, <3>2
  <2>2. ASSUME NEW i \in 1 .. q, i - 1 \in P PROVE i \in P
    <3>1. i \in 0 .. q
      BY <1>5
    <3>2. x[i - 1] = g[i - 1] /\ text[i - 1] = g[i - 1]
      BY <2>2
    <3> DEFINE X(r) == [j \in 0 .. 7 |-> IF i = 0 THEN StateBlock(h, 4 + j)
                           ELSE Rounds(c, Xor(pad[8 * (i - 1) + j], r[j]), keys)]
               T(r) == [j \in 0 .. 7 |-> IF i = 0 THEN StateBlock(h, 4 + j)
                           ELSE Encrypted(Xor(r[j], pad[8 * (i - 1) + j]), rk)]
    <3>3. /\ x[i] = X(x[i - 1]) /\ text[i] = T(text[i - 1])
          /\ g[i] = X(g[i - 1]) /\ g[i] = T(g[i - 1])
      BY <1>16, <3>1, Zenon
    <3> HIDE DEF X, T
    <3>4. x[i] = g[i] /\ text[i] = g[i]
      BY <3>2, <3>3, Zenon
    <3> QED
      BY <3>1, <3>4
  <2> HIDE DEF P
  <2>3. \A i \in 0 .. q : i \in P
    BY <1>5, <2>1, <2>2, Steps
  <2> QED
    BY <2>3 DEF P
<1>18. x[q] = text[q]
  <2>1. q \in 0 .. q
    BY <1>5
  <2> QED
    BY <1>17, <2>1
<1> QED
  BY <1>3, <1>4, <1>18, Zenon DEF n

-----------------------------------------------------------------------------
(* The loop *)

\* What the standard's loop works on, with a pad of n blocks.
Mixture(n) == [a : Blocks, b : Blocks, pad : [0 .. n - 1 -> Blocks]]

\* The parts of an iteration: the encrypted block, the pad that it is stored in, the
\* block that it is multiplied with, and the sum.
MixC(p, n) == Xor(AesPerm(p.pad[Lo(p.a) % n]), p.a)
MixPad(p, n) == [p.pad EXCEPT ![Lo(p.a) % n] = Xor(p.b, MixC(p, n))]
MixD(p, n) == MixPad(p, n)[Lo(MixC(p, n)) % n]
MixProduct(p, n) == Lo(MixC(p, n)) * Lo(MixD(p, n))
MixSum(p, n) == Block((Lo(p.a) + MixProduct(p, n) \div (L * L)) % (L * L),
                      (Hi(p.a) + (MixProduct(p, n) % (L * L))) % (L * L))

\* The product of two words has two words.
LEMMA ProductWords ==
    ASSUME NEW u \in Word, NEW v \in Word
    PROVE  /\ u * v \in Nat
           /\ (u * v) % (L * L) \in Word /\ (u * v) \div (L * L) \in Word
<1> DEFINE w == L * L
           x == u * v
<1>1. w \in Nat \ {0} /\ u \in 0 .. w - 1 /\ v \in 0 .. w - 1
  BY DEF Word, L
<1> HIDE DEF w
<1>2. x \in Nat /\ x <= (w - 1) * (w - 1) /\ (w - 1) * (w - 1) = w * w - 2 * w + 1
  BY <1>1, LimbProduct
<1> HIDE DEF x
<1>3. w * w \in Nat
  BY <1>1, SMT
<1>4. x \in 0 .. w * w - 1
  BY <1>1, <1>2, <1>3
<1>5. x \div w \in 0 .. w - 1 /\ x % w \in 0 .. w - 1
  BY <1>1, <1>4, TwoLimbs
<1> QED
  BY <1>2, <1>5 DEF w, x, Word

\* The sum of two words wraps to a word.
LEMMA SumWord ==
    ASSUME NEW u \in Word, NEW v \in Word
    PROVE  (u + v) % (L * L) \in Word
  BY DEF Word, L

\* A word addresses a block of the pad.
LEMMA Addressed ==
    ASSUME NEW n \in Nat \ {0}, NEW u \in Word
    PROVE  u % n \in 0 .. n - 1
  BY ModRange DEF Word

\* The parts of an iteration are blocks, and a pad.
LEMMA MixParts ==
    ASSUME NEW n \in Nat \ {0}, NEW p \in Mixture(n)
    PROVE  /\ Lo(p.a) % n \in 0 .. n - 1 /\ Lo(MixC(p, n)) % n \in 0 .. n - 1
           /\ MixC(p, n) \in Blocks /\ MixPad(p, n) \in [0 .. n - 1 -> Blocks]
           /\ MixD(p, n) \in Blocks /\ MixSum(p, n) \in Blocks
           /\ Lo(MixSum(p, n)) = (Lo(p.a) + MixProduct(p, n) \div (L * L)) % (L * L)
           /\ Hi(MixSum(p, n)) = (Hi(p.a) + (MixProduct(p, n) % (L * L))) % (L * L)
           /\ MixProduct(p, n) % (L * L) \in Word /\ MixProduct(p, n) \div (L * L) \in Word
<1>1. p.a \in Blocks /\ p.b \in Blocks /\ p.pad \in [0 .. n - 1 -> Blocks]
  BY DEF Mixture
<1>2. Lo(p.a) \in Word /\ Hi(p.a) \in Word
  BY <1>1, WordsBlock
<1>3. Lo(p.a) % n \in 0 .. n - 1
  BY <1>2, Addressed
<1>4. MixC(p, n) \in Blocks
  <2>1. p.pad[Lo(p.a) % n] \in Blocks
    BY <1>1, <1>3
  <2> QED
    BY <1>1, <2>1, RoundBlock DEF MixC
<1>5. Lo(MixC(p, n)) \in Word
  BY <1>4, WordsBlock
<1>6. Lo(MixC(p, n)) % n \in 0 .. n - 1
  BY <1>5, Addressed
<1>7. MixPad(p, n) \in [0 .. n - 1 -> Blocks]
  <2>1. Xor(p.b, MixC(p, n)) \in Blocks
    BY <1>1, <1>4, XorBlocks
  <2> QED
    BY <1>1, <1>3, <2>1 DEF MixPad
<1>8. MixD(p, n) \in Blocks
  BY <1>6, <1>7 DEF MixD
<1>9. Lo(MixD(p, n)) \in Word
  BY <1>8, WordsBlock
<1>10. MixProduct(p, n) % (L * L) \in Word /\ MixProduct(p, n) \div (L * L) \in Word
  BY <1>5, <1>9, ProductWords DEF MixProduct
<1> DEFINE u == (Lo(p.a) + MixProduct(p, n) \div (L * L)) % (L * L)
           v == (Hi(p.a) + (MixProduct(p, n) % (L * L))) % (L * L)
<1>11. u \in Word /\ v \in Word
  BY <1>2, <1>10, SumWord
<1>12. MixSum(p, n) = Block(u, v)
  BY DEF MixSum
<1> HIDE DEF u, v
<1>13. MixSum(p, n) \in Blocks /\ Lo(MixSum(p, n)) = u /\ Hi(MixSum(p, n)) = v
  BY <1>11, <1>12, BlockWords
<1> QED
  BY <1>3, <1>4, <1>6, <1>7, <1>8, <1>10, <1>13 DEF u, v

\* An iteration of the standard in these parts.
LEMMA MixIs ==
    ASSUME NEW n \in Nat \ {0}, NEW p \in Mixture(n)
    PROVE  /\ Mix(p, n) = [a |-> Xor(MixSum(p, n), MixD(p, n)), b |-> MixC(p, n),
                           pad |-> [MixPad(p, n) EXCEPT ![Lo(MixC(p, n)) % n] = MixSum(p, n)]]
           /\ Mix(p, n) \in Mixture(n)
<1> DEFINE u == MixProduct(p, n) \div (L * L)
           v == MixProduct(p, n) % (L * L)
<1>1. Lo(Block(u, v)) = u /\ Hi(Block(u, v)) = v
  BY MixParts, BlockWords
<1>2. MixSum(p, n) = Block((Lo(p.a) + Lo(Block(u, v))) % (L * L), (Hi(p.a) + Hi(Block(u, v))) % (L * L))
  BY <1>1, Zenon DEF MixSum
<1>3. Mix(p, n) = [a |-> Xor(MixSum(p, n), MixD(p, n)), b |-> MixC(p, n),
                   pad |-> [MixPad(p, n) EXCEPT ![Lo(MixC(p, n)) % n] = MixSum(p, n)]]
  BY <1>2, Zenon DEF Mix, MixC, MixPad, MixD, MixProduct
<1>4. Xor(MixSum(p, n), MixD(p, n)) \in Blocks /\ MixC(p, n) \in Blocks
  BY MixParts, XorBlocks
<1>5. [MixPad(p, n) EXCEPT ![Lo(MixC(p, n)) % n] = MixSum(p, n)] \in [0 .. n - 1 -> Blocks]
  <2>1. MixPad(p, n) \in [0 .. n - 1 -> Blocks] /\ MixSum(p, n) \in Blocks
    BY MixParts
  <2> QED
    BY <2>1
<1> QED
  BY <1>3, <1>4, <1>5 DEF Mixture

\* The registers and the pad of a lane after q of the six steps of an iteration that
\* the standard starts with p.
LoopAt(p, q, n, r, pad) ==
    /\ r.al = Lo(p.a) /\ r.ah = Hi(p.a)
    /\ q < 3 => pad = p.pad
    /\ q >= 3 => pad = MixPad(p, n)
    /\ q < 5 => r.bx = p.b
    /\ q = 5 => r.bx = MixC(p, n)
    /\ q = 1 => r.cx = p.pad[Lo(p.a) % n]
    /\ q > 1 => r.cx = MixC(p, n)
    /\ q < 4 => r.idx = Lo(p.a)
    /\ q >= 4 => r.idx = Lo(MixC(p, n))

\* al, ah, bx and idx stay.
LEMMA LoopLoad ==
    ASSUME NEW p, NEW n, NEW r, NEW r2, NEW pad, LoopAt(p, 0, n, r, pad),
           r2.al = r.al, r2.ah = r.ah, r2.bx = r.bx, r2.idx = r.idx, r2.cx = pad[r.idx % n]
    PROVE  LoopAt(p, 1, n, r2, pad)
  BY DEF LoopAt

\* The round of every build is that of the standard.
LEMMA LoopEncrypt ==
    ASSUME NEW n \in Nat \ {0}, NEW p \in Mixture(n), NEW r, NEW r2, NEW pad, NEW c,
           LoopAt(p, 1, n, r, pad),
           r2.al = r.al, r2.ah = r.ah, r2.bx = r.bx, r2.idx = r.idx,
           \E lanes : r2.cx = LoopAes(c, lanes, r.cx, Block(r.al, r.ah))
    PROVE  LoopAt(p, 2, n, r2, pad)
<1>1. p.a \in Blocks /\ p.pad \in [0 .. n - 1 -> Blocks]
  BY DEF Mixture
<1>2. p.pad[Lo(p.a) % n] \in Blocks
  BY <1>1, MixParts
<1>3. r.al = Lo(p.a) /\ r.ah = Hi(p.a) /\ r.cx = p.pad[Lo(p.a) % n]
  BY DEF LoopAt
<1>4. Block(r.al, r.ah) = p.a
  BY <1>1, <1>3, WordsBlock
<1>5. r2.cx = MixC(p, n)
  BY <1>1, <1>2, <1>3, <1>4, LoopRound DEF MixC
<1> QED
  BY <1>5 DEF LoopAt

\* The store.
LEMMA LoopStore ==
    ASSUME NEW p, NEW n, NEW r, NEW pad, NEW pad2, LoopAt(p, 2, n, r, pad),
           pad2 = [pad EXCEPT ![r.idx % n] = Xor(r.bx, r.cx)]
    PROVE  LoopAt(p, 3, n, r, pad2)
<1>1. pad = p.pad /\ r.idx = Lo(p.a) /\ r.bx = p.b /\ r.cx = MixC(p, n)
  BY DEF LoopAt
<1>2. pad2 = MixPad(p, n)
  BY <1>1, Zenon DEF MixPad
<1> QED
  BY <1>2 DEF LoopAt

\* The address of the second access.
LEMMA LoopIndex ==
    ASSUME NEW p, NEW n, NEW r, NEW r2, NEW pad, LoopAt(p, 3, n, r, pad),
           r2.al = r.al, r2.ah = r.ah, r2.bx = r.bx, r2.cx = r.cx, r2.idx = Lo(r.cx)
    PROVE  LoopAt(p, 4, n, r2, pad)
  BY DEF LoopAt

\* The block that the next iteration stores with.
LEMMA LoopShift ==
    ASSUME NEW p, NEW n, NEW r, NEW r2, NEW pad, LoopAt(p, 4, n, r, pad),
           r2.al = r.al, r2.ah = r.ah, r2.idx = r.idx, r2.cx = r.cx, r2.bx = r.cx
    PROVE  LoopAt(p, 5, n, r2, pad)
  BY DEF LoopAt

\* The second half: what the code computes from words is what the standard computes
\* from blocks, with either multiplication.
LEMMA LoopMultiply ==
    ASSUME NEW n \in Nat \ {0}, NEW p \in Mixture(n), NEW r, NEW r2, NEW pad, NEW pad2, NEW arch,
           NEW d, NEW al, NEW ah, NEW prod,
           LoopAt(p, 5, n, r, pad),
           d = pad[r.idx % n],
           prod = Multiply64(arch, r.idx, Lo(d)),
           al = (r.al + prod[2]) % (L * L),
           ah = (r.ah + prod[1]) % (L * L),
           pad2 = [pad EXCEPT ![r.idx % n] = Block(al, ah)],
           r2.al = XorWord(al, Lo(d)), r2.ah = XorWord(ah, Hi(d)), r2.idx = XorWord(al, Lo(d)),
           r2.bx = r.bx
    PROVE  LoopAt(Mix(p, n), 0, n, r2, pad2)
<1>1. /\ r.al = Lo(p.a) /\ r.ah = Hi(p.a) /\ pad = MixPad(p, n) /\ r.bx = MixC(p, n)
      /\ r.idx = Lo(MixC(p, n))
  BY DEF LoopAt
<1>2. d = MixD(p, n)
  BY <1>1, Zenon DEF MixD
<1>3. MixC(p, n) \in Blocks /\ MixD(p, n) \in Blocks /\ MixSum(p, n) \in Blocks
  BY MixParts
<1>4. Lo(MixC(p, n)) \in Word /\ Lo(MixD(p, n)) \in Word
  BY <1>3, WordsBlock
<1>5. prod = <<MixProduct(p, n) % (L * L), MixProduct(p, n) \div (L * L)>>
  <2> DEFINE u == Lo(MixC(p, n))
             v == Lo(MixD(p, n))
  <2>1. L \in Nat \ {0}
    BY DEF L
  <2>2. u \in 0 .. L * L - 1 /\ v \in 0 .. L * L - 1
    BY <1>4 DEF Word
  <2> HIDE DEF u, v
  <2>3. umul128_32(L, u, v) = umul128(L, u, v)
    BY <2>1, <2>2, MultiplicationsAgree, Zenon
  <2>4. Multiply64(arch, u, v) = umul128(L, u, v)
    BY <2>3, Zenon DEF Multiply64
  <2> QED
    BY <1>1, <1>2, <2>4, Zenon DEF umul128, MixProduct, u, v
<1>6. al = Lo(MixSum(p, n)) /\ ah = Hi(MixSum(p, n))
  <2>1. prod[1] = MixProduct(p, n) % (L * L) /\ prod[2] = MixProduct(p, n) \div (L * L)
    BY <1>5
  <2>2. /\ al = (Lo(p.a) + MixProduct(p, n) \div (L * L)) % (L * L)
        /\ ah = (Hi(p.a) + (MixProduct(p, n) % (L * L))) % (L * L)
    BY <1>1, <2>1, Zenon
  <2> QED
    BY <2>2, MixParts, Zenon
<1>7. Block(al, ah) = MixSum(p, n)
  BY <1>3, <1>6, WordsBlock
<1> DEFINE x == Xor(MixSum(p, n), MixD(p, n))
<1>8. r2.al = Lo(x) /\ r2.ah = Hi(x) /\ r2.idx = Lo(x)
  BY <1>2, <1>3, <1>6, XorOfWords
<1>9. pad2 = [MixPad(p, n) EXCEPT ![Lo(MixC(p, n)) % n] = MixSum(p, n)]
  BY <1>1, <1>7, Zenon
<1>10. Mix(p, n) = [a |-> x, b |-> MixC(p, n), pad |-> pad2]
  <2>1. Mix(p, n) = [a |-> Xor(MixSum(p, n), MixD(p, n)), b |-> MixC(p, n),
                     pad |-> [MixPad(p, n) EXCEPT ![Lo(MixC(p, n)) % n] = MixSum(p, n)]]
    BY MixIs
  <2> QED
    BY <1>9, <2>1, Zenon DEF x
<1>11. Mix(p, n).a = x /\ Mix(p, n).b = MixC(p, n) /\ Mix(p, n).pad = pad2
  BY <1>10
<1> HIDE DEF x
<1>12. r2.bx = MixC(p, n)
  BY <1>1
<1> QED
  BY <1>8, <1>11, <1>12 DEF LoopAt

-----------------------------------------------------------------------------
(* The iterations of the standard *)

\* What the loop of the standard has after each number of iterations.
Mixing(h, pad, algo) ==
    CHOOSE m : m = [i \in 0 .. Iterations[algo] |->
                       IF i = 0 THEN MixStart(h, pad) ELSE Mix(m[i - 1], Cells[algo])]

\* m starts with the state and the pad, and makes one iteration after the other.
IsMixing(m, h, pad, algo) ==
    /\ m[0] = MixStart(h, pad)
    /\ \A i \in 1 .. Iterations[algo] : m[i] = Mix(m[i - 1], Cells[algo])
    /\ \A i \in 0 .. Iterations[algo] : m[i] \in Mixture(Cells[algo])

\* A scratchpad has blocks, and there is a number of iterations.
LEMMA Sizes ==
    ASSUME NEW algo \in Algos
    PROVE  Cells[algo] \in Nat \ {0} /\ Iterations[algo] \in Nat
  BY CryptoNightAssumption

\* The loop starts with two blocks and the pad.
LEMMA MixStarts ==
    ASSUME NEW n \in Nat \ {0}, NEW h \in [0 .. 24 -> Word], NEW pad \in [0 .. n - 1 -> Blocks]
    PROVE  MixStart(h, pad) \in Mixture(n)
<1> DEFINE zero == 0
           one == 1
           two == 2
           three == 3
<1>1. zero \in 0 .. 11 /\ one \in 0 .. 11 /\ two \in 0 .. 11 /\ three \in 0 .. 11
  OBVIOUS
<1> HIDE DEF zero, one, two, three
<1>2. /\ StateBlock(h, zero) \in Blocks /\ StateBlock(h, one) \in Blocks
      /\ StateBlock(h, two) \in Blocks /\ StateBlock(h, three) \in Blocks
  BY <1>1, StateBlocks
<1>3. Xor(StateBlock(h, zero), StateBlock(h, two)) \in Blocks /\ Xor(StateBlock(h, one), StateBlock(h, three)) \in Blocks
  BY <1>2, XorBlocks
<1>4. Xor(StateBlock(h, 0), StateBlock(h, 2)) \in Blocks /\ Xor(StateBlock(h, 1), StateBlock(h, 3)) \in Blocks
  BY <1>3, Zenon DEF zero, one, two, three
<1> QED
  BY <1>4 DEF MixStart, Mixture

\* There is such a sequence, and the standard takes its last member.
LEMMA MixingRuns ==
    ASSUME NEW algo \in Algos, NEW h \in [0 .. 24 -> Word],
           NEW pad \in [0 .. Cells[algo] - 1 -> Blocks]
    PROVE  /\ IsMixing(Mixing(h, pad, algo), h, pad, algo)
           /\ Mixed(h, pad, algo) = Mixing(h, pad, algo)[Iterations[algo]]
<1> DEFINE it == Iterations[algo]
           n == Cells[algo]
           Is(m) == m = [i \in 0 .. it |-> IF i = 0 THEN MixStart(h, pad) ELSE Mix(m[i - 1], n)]
           m == CHOOSE m : Is(m)
<1>1. it \in Nat /\ n \in Nat \ {0}
  BY Sizes
<1>2. Mixing(h, pad, algo) = m /\ Mixed(h, pad, algo) = m[it]
  BY Zenon DEF Mixing, Mixed
<1> HIDE DEF it, n
<1>3. MixStart(h, pad) \in Mixture(n)
  BY <1>1, MixStarts DEF n
<1>4. PICK g : /\ g = [k \in 0 .. it |-> g[k]]
               /\ g[0] = MixStart(h, pad)
               /\ \A k \in 1 .. it : g[k] = Mix(g[k - 1], n)
               /\ \A k \in 0 .. it : g[k] \in Mixture(n)
  <2> DEFINE S == [k \in 0 .. it |-> Mixture(n)]
             step == [k \in 1 .. it |-> [p \in Mixture(n) |-> Mix(p, n)]]
  <2>1. \A k \in 1 .. it : k - 1 \in 0 .. it /\ k \in 0 .. it
    BY <1>1
  <2>2. 0 \in 0 .. it
    BY <1>1
  <2>3. \A k \in 0 .. it : S[k] = Mixture(n)
    BY Zenon
  <2>4. \A k \in 1 .. it : \A p \in Mixture(n) : step[k][p] = Mix(p, n)
    BY Zenon
  <2>5. \A p \in Mixture(n) : Mix(p, n) \in Mixture(n)
    BY <1>1, MixIs
  <2> HIDE DEF S, step
  <2>6. MixStart(h, pad) \in S[0]
    BY <1>3, <2>2, <2>3, Zenon
  <2>7. \A k \in 1 .. it : \A p \in S[k - 1] : step[k][p] \in S[k]
    <3> SUFFICES ASSUME NEW k \in 1 .. it, NEW p \in S[k - 1] PROVE step[k][p] \in S[k]
      OBVIOUS
    <3>1. S[k - 1] = Mixture(n) /\ S[k] = Mixture(n)
      BY <2>1, <2>3, Zenon
    <3>2. p \in Mixture(n)
      BY <3>1, Zenon
    <3>3. step[k][p] = Mix(p, n) /\ Mix(p, n) \in Mixture(n)
      BY <2>4, <2>5, <3>2, Zenon
    <3> QED
      BY <3>1, <3>3, Zenon
  <2>8. PICK g : Runs(g, it, S, MixStart(h, pad), step)
    BY <1>1, <2>6, <2>7, Iteration, Zenon
  <2>9. /\ g = [k \in 0 .. it |-> g[k]]
        /\ g[0] = MixStart(h, pad)
        /\ \A k \in 1 .. it : g[k] = step[k][g[k - 1]]
        /\ \A k \in 0 .. it : g[k] \in Mixture(n)
    BY <2>3, <2>8, Zenon DEF Runs
  <2>10. \A k \in 1 .. it : g[k] = Mix(g[k - 1], n)
    BY <2>1, <2>4, <2>9, Zenon
  <2> QED
    BY <2>9, <2>10, Zenon
<1>5. Is(g)
  <2> DEFINE b == [i \in 0 .. it |-> IF i = 0 THEN MixStart(h, pad) ELSE Mix(g[i - 1], n)]
  <2>1. ASSUME NEW i \in 0 .. it PROVE g[i] = IF i = 0 THEN MixStart(h, pad) ELSE Mix(g[i - 1], n)
    <3>1. CASE i = 0
      BY <1>4, <3>1, Zenon
    <3>2. CASE i # 0
      <4>1. i \in 1 .. it
        BY <1>1, <3>2
      <4> QED
        BY <1>4, <3>2, <4>1, Zenon
    <3> QED
      BY <3>1, <3>2
  <2>2. [i \in 0 .. it |-> g[i]] = b
    BY <2>1, Zenon
  <2> QED
    BY <1>4, <2>2, Zenon
<1>6. Is(m)
  BY <1>5, Zenon
<1> HIDE DEF m
<1>7. \A i \in 0 .. it : m[i] = IF i = 0 THEN MixStart(h, pad) ELSE Mix(m[i - 1], n)
  <2> DEFINE b == [i \in 0 .. it |-> IF i = 0 THEN MixStart(h, pad) ELSE Mix(m[i - 1], n)]
  <2>1. \A i \in 0 .. it : b[i] = IF i = 0 THEN MixStart(h, pad) ELSE Mix(m[i - 1], n)
    BY Zenon
  <2>2. m = b
    BY <1>6, Zenon
  <2> HIDE DEF b
  <2> QED
    BY <2>1, <2>2, Zenon
<1>8. \A i \in 0 .. it : m[i] = g[i]
  <2> DEFINE P == {i \in 0 .. it : m[i] = g[i]}
  <2>1. 0 \in P
    <3>1. 0 \in 0 .. it
      BY <1>1
    <3> QED
      BY <1>4, <1>7, <3>1
  <2>2. ASSUME NEW i \in 1 .. it, i - 1 \in P PROVE i \in P
    <3>1. i \in 0 .. it /\ i # 0
      BY <1>1
    <3>2. m[i - 1] = g[i - 1]
      BY <2>2
    <3>3. m[i] = g[i]
      BY <1>4, <1>7, <3>1, <3>2, Zenon
    <3> QED
      BY <3>1, <3>3
  <2> HIDE DEF P
  <2>3. \A i \in 0 .. it : i \in P
    BY <1>1, <2>1, <2>2, Steps
  <2> QED
    BY <2>3 DEF P
<1>9. /\ m[0] = MixStart(h, pad)
      /\ \A i \in 0 .. it : m[i] \in Mixture(n)
  <2>1. 0 \in 0 .. it
    BY <1>1
  <2> QED
    BY <1>4, <1>8, <2>1, Zenon
<1>10. \A i \in 1 .. it : m[i] = Mix(m[i - 1], n)
  <2>1. \A i \in 1 .. it : i \in 0 .. it /\ i # 0
    BY <1>1
  <2> QED
    BY <1>7, <2>1, Zenon
<1>11. IsMixing(m, h, pad, algo)
  BY <1>9, <1>10, Zenon DEF IsMixing, it, n
<1> QED
  BY <1>2, <1>11, Zenon DEF it

-----------------------------------------------------------------------------
(* A lane *)

\* What the standard has for an input: each iteration, and the state at the end.
Mixings(in, algo) == Mixing(KeccakOf(in), Filled(KeccakOf(in), Cells[algo]), algo)
FoldedState(in, algo) ==
    Folded(KeccakOf(in), Mixings(in, algo)[Iterations[algo]].pad, Cells[algo])

\* The (d + 1)-th operation of a lane.
Doing(op, d, it) ==
    \/ op = "keccak" /\ d = 0
    \/ op = "explode" /\ d = 1
    \/ op = "registers" /\ d = 2
    \/ op = "load" /\ d \in 3 .. 2 + 6 * it /\ (d - 3) % 6 = 0
    \/ op = "aes" /\ d \in 3 .. 2 + 6 * it /\ (d - 3) % 6 = 1
    \/ op = "store" /\ d \in 3 .. 2 + 6 * it /\ (d - 3) % 6 = 2
    \/ op = "index" /\ d \in 3 .. 2 + 6 * it /\ (d - 3) % 6 = 3
    \/ op = "shift" /\ d \in 3 .. 2 + 6 * it /\ (d - 3) % 6 = 4
    \/ op = "multiply" /\ d \in 3 .. 2 + 6 * it /\ (d - 3) % 6 = 5
    \/ op = "implode" /\ d = 3 + 6 * it
    \/ op = "keccakf" /\ d = 4 + 6 * it
    \/ op = "extra" /\ d = 5 + 6 * it

\* What a lane has after d operations: what the standard has there.
LaneAt(d, c, in, s, r, pad, out) ==
    LET it == Iterations[c.algo]
        n  == Cells[c.algo]
    IN  /\ d \in 1 .. 3 + 6 * it => s = KeccakOf(in)
        /\ d = 2 => pad = Filled(KeccakOf(in), n)
        /\ d \in 3 .. 3 + 6 * it =>
               LoopAt(Mixings(in, c.algo)[(d - 3) \div 6], (d - 3) % 6, n, r, pad)
        /\ d = 4 + 6 * it => s = FoldedState(in, c.algo)
        /\ d = 5 + 6 * it => s = KeccakPerm(FoldedState(in, c.algo))
        /\ d = 6 + 6 * it => out = CnHash(in, c.algo)

\* The registers that operation registers sets.
FirstRegisters(s) ==
    [al  |-> XorWord(s[0], s[4]), ah |-> XorWord(s[1], s[5]),
     bx  |-> Block(XorWord(s[2], s[6]), XorWord(s[3], s[7])),
     cx  |-> Zero,
     idx |-> XorWord(s[0], s[4])]

\* The second half of an iteration, with the block d of the pad.
Multiplied(c, r, r2, pad, pad2, at, d) ==
    LET prod == Multiply64(c.arch, r.idx, Lo(d))
        al == (r.al + prod[2]) % (L * L)
        ah == (r.ah + prod[1]) % (L * L)
    IN  /\ pad2 = [pad EXCEPT ![at] = Block(al, ah)]
        /\ r2.al = XorWord(al, Lo(d)) /\ r2.ah = XorWord(ah, Hi(d)) /\ r2.idx = XorWord(al, Lo(d))
        /\ r2.bx = r.bx

\* What an operation does to the state, the registers, the pad and the output of its
\* lane.
Does(op, c, in, s, r, pad, s2, r2, pad2, out2) ==
    LET at == r.idx % Cells[c.algo]
    IN  \/ op = "keccak" /\ s2 = KeccakOf(in)
        \/ op = "explode" /\ s2 = s /\ pad2 = Exploded(c, s)
        \/ op = "registers" /\ s2 = s /\ pad2 = pad /\ r2 = FirstRegisters(s)
        \/ /\ op = "load" /\ s2 = s /\ pad2 = pad
           /\ r2.al = r.al /\ r2.ah = r.ah /\ r2.bx = r.bx /\ r2.idx = r.idx
           /\ r2.cx = pad[at]
        \/ /\ op = "aes" /\ s2 = s /\ pad2 = pad
           /\ r2.al = r.al /\ r2.ah = r.ah /\ r2.bx = r.bx /\ r2.idx = r.idx
           /\ \E lanes : r2.cx = LoopAes(c, lanes, r.cx, Block(r.al, r.ah))
        \/ op = "store" /\ s2 = s /\ r2 = r /\ pad2 = [pad EXCEPT ![at] = Xor(r.bx, r.cx)]
        \/ /\ op = "index" /\ s2 = s /\ pad2 = pad
           /\ r2.al = r.al /\ r2.ah = r.ah /\ r2.bx = r.bx /\ r2.cx = r.cx
           /\ r2.idx = Lo(r.cx)
        \/ /\ op = "shift" /\ s2 = s /\ pad2 = pad
           /\ r2.al = r.al /\ r2.ah = r.ah /\ r2.idx = r.idx /\ r2.cx = r.cx
           /\ r2.bx = r.cx
        \/ op = "multiply" /\ s2 = s /\ Multiplied(c, r, r2, pad, pad2, at, pad[at])
        \/ op = "implode" /\ s2 = Imploded(c, s, pad)
        \/ op = "keccakf" /\ s2 = KeccakPerm(s)
        \/ op = "extra" /\ out2 = ExtraHash(s[0] % 4, s)

\* The state that an input starts with has 25 words.
LEMMA InputState ==
    ASSUME NEW in \in Inputs
    PROVE  KeccakOf(in) \in [0 .. 24 -> Word]
  BY PrimitivesAssumption, Zenon DEF Word

\* A filled scratchpad has blocks, and it is the one that the standard fills.
LEMMA FilledPad ==
    ASSUME NEW c, c.algo \in Algos, NEW in \in Inputs
    PROVE  /\ Filled(KeccakOf(in), Cells[c.algo]) \in [0 .. Cells[c.algo] - 1 -> Blocks]
           /\ Exploded(c, KeccakOf(in)) = Filled(KeccakOf(in), Cells[c.algo])
<1>1. KeccakOf(in) \in [0 .. 24 -> Word]
  BY InputState
<1> QED
  BY <1>1, ExplodeFills, Zenon

\* The iterations for an input, and the hash that they lead to.
LEMMA HashMixes ==
    ASSUME NEW c, c.algo \in Algos, NEW in \in Inputs
    PROVE  /\ IsMixing(Mixings(in, c.algo), KeccakOf(in), Filled(KeccakOf(in), Cells[c.algo]), c.algo)
           /\ CnHash(in, c.algo) = ExtraHash(KeccakPerm(FoldedState(in, c.algo))[0] % 4,
                                             KeccakPerm(FoldedState(in, c.algo)))
<1> DEFINE h == KeccakOf(in)
           pad == Filled(h, Cells[c.algo])
           algo == c.algo
<1>1. h \in [0 .. 24 -> Word] /\ pad \in [0 .. Cells[c.algo] - 1 -> Blocks]
  BY InputState, FilledPad
<1>a. algo \in Algos
  OBVIOUS
<1>2. /\ IsMixing(Mixing(h, pad, algo), h, pad, algo)
      /\ Mixed(h, pad, algo) = Mixing(h, pad, algo)[Iterations[algo]]
  <2> HIDE DEF h, pad
  <2> QED
    BY <1>1, <1>a, MixingRuns, Zenon
<1> QED
  BY <1>2, Zenon DEF Mixings, FoldedState, CnHash

\* The number of an operation, and of the iteration that it belongs to.
LEMMA Position ==
    ASSUME NEW it \in Nat, NEW d \in 3 .. 2 + 6 * it
    PROVE  /\ d \in Nat /\ (d - 3) \div 6 \in 0 .. it - 1 /\ (d - 3) % 6 \in 0 .. 5
           /\ (d - 3) % 6 # 5 => /\ (d + 1 - 3) \div 6 = (d - 3) \div 6
                                 /\ (d + 1 - 3) % 6 = ((d - 3) % 6) + 1
           /\ (d - 3) % 6 = 5 => /\ (d + 1 - 3) \div 6 = (d - 3) \div 6 + 1
                                 /\ (d + 1 - 3) % 6 = 0
<1> DEFINE e == d - 3
           i == e \div 6
           q == e % 6
<1>1. e \in Nat /\ e <= 6 * it - 1
  OBVIOUS
<1> HIDE DEF e
<1>2. i \in Nat /\ q \in 0 .. 5 /\ e = 6 * i + q
  BY <1>1
<1>3. i \in 0 .. it - 1
  BY <1>1, <1>2
<1>4. q # 5 => (e + 1) \div 6 = i /\ (e + 1) % 6 = q + 1
  BY <1>1
<1>5. q = 5 => (e + 1) \div 6 = i + 1 /\ (e + 1) % 6 = 0
  BY <1>1
<1>6. d + 1 - 3 = e + 1 /\ d \in Nat
  BY DEF e
<1> QED
  BY <1>2, <1>3, <1>4, <1>5, <1>6 DEF e

\* The registers that the loop starts with.
LEMMA RegistersStart ==
    ASSUME NEW n \in Nat \ {0}, NEW h \in [0 .. 24 -> Word], NEW pad
    PROVE  LoopAt(MixStart(h, pad), 0, n, FirstRegisters(h), pad)
<1> DEFINE zero == 0
           one == 1
           two == 2
           three == 3
<1>1. zero \in 0 .. 11 /\ one \in 0 .. 11 /\ two \in 0 .. 11 /\ three \in 0 .. 11
  OBVIOUS
<1>2. /\ 2 * zero = 0 /\ 2 * zero + 1 = 1 /\ 2 * one = 2 /\ 2 * one + 1 = 3
      /\ 2 * two = 4 /\ 2 * two + 1 = 5 /\ 2 * three = 6 /\ 2 * three + 1 = 7
  OBVIOUS
<1> DEFINE b0 == StateBlock(h, zero)
           b1 == StateBlock(h, one)
           b2 == StateBlock(h, two)
           b3 == StateBlock(h, three)
<1>3. MixStart(h, pad) = [a |-> Xor(b0, b2), b |-> Xor(b1, b3), pad |-> pad]
  BY Zenon DEF MixStart
<1> HIDE DEF zero, one, two, three
<1>4. b0 \in Blocks /\ b1 \in Blocks /\ b2 \in Blocks /\ b3 \in Blocks
  BY <1>1, StateBlocks
<1>5. /\ Lo(b0) = h[2 * zero] /\ Hi(b0) = h[2 * zero + 1] /\ Lo(b1) = h[2 * one] /\ Hi(b1) = h[2 * one + 1]
      /\ Lo(b2) = h[2 * two] /\ Hi(b2) = h[2 * two + 1] /\ Lo(b3) = h[2 * three] /\ Hi(b3) = h[2 * three + 1]
  BY <1>1, StateBlocks
<1>6. /\ Lo(b0) = h[0] /\ Hi(b0) = h[1] /\ Lo(b1) = h[2] /\ Hi(b1) = h[3]
      /\ Lo(b2) = h[4] /\ Hi(b2) = h[5] /\ Lo(b3) = h[6] /\ Hi(b3) = h[7]
  BY <1>2, <1>5, Zenon
<1> HIDE DEF b0, b1, b2, b3
<1>7. /\ XorWord(h[0], h[4]) = Lo(Xor(b0, b2)) /\ XorWord(h[1], h[5]) = Hi(Xor(b0, b2))
      /\ XorWord(h[2], h[6]) = Lo(Xor(b1, b3)) /\ XorWord(h[3], h[7]) = Hi(Xor(b1, b3))
  BY <1>4, <1>6, XorOfWords
<1>8. Xor(b1, b3) \in Blocks
  BY <1>4, XorBlocks
<1>9. Block(XorWord(h[2], h[6]), XorWord(h[3], h[7])) = Xor(b1, b3)
  BY <1>7, <1>8, WordsBlock
<1> DEFINE r == FirstRegisters(h)
           p == MixStart(h, pad)
<1>10. r.al = Lo(p.a) /\ r.ah = Hi(p.a) /\ r.bx = p.b /\ r.idx = Lo(p.a) /\ p.pad = pad
  <2>1. p.a = Xor(b0, b2) /\ p.b = Xor(b1, b3) /\ p.pad = pad
    BY <1>3
  <2>2. /\ r.al = XorWord(h[0], h[4]) /\ r.ah = XorWord(h[1], h[5])
        /\ r.bx = Block(XorWord(h[2], h[6]), XorWord(h[3], h[7])) /\ r.idx = XorWord(h[0], h[4])
    BY DEF FirstRegisters
  <2> HIDE DEF r, p
  <2> QED
    BY <1>7, <1>9, <2>1, <2>2, Zenon
<1> HIDE DEF r, p
<1>11. LoopAt(p, 0, n, r, pad)
  BY <1>10 DEF LoopAt
<1> QED
  BY <1>11 DEF r, p

\* The operations before the loop.
LEMMA LaneBefore ==
    ASSUME NEW c, c.algo \in Algos, NEW in \in Inputs, NEW op, NEW d,
           NEW s, NEW r, NEW pad, NEW out, NEW s2, NEW r2, NEW pad2, NEW out2,
           op \in {"keccak", "explode", "registers"},
           Doing(op, d, Iterations[c.algo]),
           LaneAt(d, c, in, s, r, pad, out),
           Does(op, c, in, s, r, pad, s2, r2, pad2, out2)
    PROVE  LaneAt(d + 1, c, in, s2, r2, pad2, out2)
<1> DEFINE it == Iterations[c.algo]
           n == Cells[c.algo]
           h == KeccakOf(in)
<1>1. it \in Nat /\ n \in Nat \ {0}
  BY Sizes
<1>2. h \in [0 .. 24 -> Word]
  BY InputState
<1>3. Exploded(c, h) = Filled(h, n)
  BY FilledPad
<1>4. Mixings(in, c.algo)[0] = MixStart(h, Filled(h, n))
  BY HashMixes, Zenon DEF IsMixing
<1> HIDE DEF n, h
<1>5. CASE op = "keccak"
  <2>1. d = 0 /\ s2 = h
    BY <1>5 DEF Doing, Does, h
  <2> QED
    BY <1>1, <2>1 DEF LaneAt, h
<1>6. CASE op = "explode"
  <2>1. d = 1 /\ s2 = s /\ pad2 = Exploded(c, s)
    BY <1>6 DEF Doing, Does
  <2>2. s = h
    BY <1>1, <2>1 DEF LaneAt, h
  <2> QED
    BY <1>1, <1>3, <2>1, <2>2 DEF LaneAt, h, n
<1>7. CASE op = "registers"
  <2>1. d = 2 /\ s2 = s /\ pad2 = pad /\ r2 = FirstRegisters(s)
    BY <1>7 DEF Doing, Does
  <2>2. s = h /\ pad = Filled(h, n)
    BY <1>1, <2>1 DEF LaneAt, h, n
  <2>3. LoopAt(MixStart(h, Filled(h, n)), 0, n, r2, Filled(h, n))
    BY <1>1, <1>2, <2>1, <2>2, RegistersStart, Zenon
  <2>4. LoopAt(Mixings(in, c.algo)[0], 0, n, r2, pad2)
    BY <1>4, <2>1, <2>2, <2>3, Zenon
  <2>5. d + 1 = 3 /\ (d + 1 - 3) \div 6 = 0 /\ (d + 1 - 3) % 6 = 0
    BY <2>1
  <2>6. LoopAt(Mixings(in, c.algo)[(d + 1 - 3) \div 6], (d + 1 - 3) % 6, n, r2, pad2)
    BY <2>4, <2>5, Zenon
  <2> QED
    BY <1>1, <2>1, <2>2, <2>5, <2>6 DEF LaneAt, h, n
<1> QED
  BY <1>5, <1>6, <1>7

\* The operations of the loop.
LEMMA LaneInside ==
    ASSUME NEW c, c.algo \in Algos, NEW in \in Inputs, NEW op, NEW d \in Nat,
           NEW s, NEW r, NEW pad, NEW out, NEW s2, NEW r2, NEW pad2, NEW out2,
           op \in {"load", "aes", "store", "index", "shift", "multiply"},
           Doing(op, d, Iterations[c.algo]),
           LaneAt(d, c, in, s, r, pad, out),
           Does(op, c, in, s, r, pad, s2, r2, pad2, out2)
    PROVE  LaneAt(d + 1, c, in, s2, r2, pad2, out2)
<1> DEFINE it == Iterations[c.algo]
           n == Cells[c.algo]
           h == KeccakOf(in)
           m == Mixings(in, c.algo)
           i == (d - 3) \div 6
           q == (d - 3) % 6
           at == r.idx % n
<1>1. it \in Nat /\ n \in Nat \ {0}
  BY Sizes
<1> HIDE DEF it, n, h, m, at
<1>2. d \in 3 .. 2 + 6 * it /\ s2 = s
  BY DEF Doing, Does, it
<1>3. i \in 0 .. it - 1 /\ q \in 0 .. 5
  BY <1>1, <1>2, Position
<1>4. /\ q # 5 => (d + 1 - 3) \div 6 = i /\ (d + 1 - 3) % 6 = q + 1
      /\ q = 5 => (d + 1 - 3) \div 6 = i + 1 /\ (d + 1 - 3) % 6 = 0
  BY <1>1, <1>2, Position
<1>5. d \in 1 .. 3 + 6 * it /\ d \in 3 .. 3 + 6 * it
  BY <1>1, <1>2
<1>6. s = h /\ LoopAt(m[i], q, n, r, pad)
  BY <1>5 DEF LaneAt, it, n, h, m
<1>7. /\ \A j \in 1 .. it : m[j] = Mix(m[j - 1], n)
      /\ \A j \in 0 .. it : m[j] \in Mixture(n)
  BY HashMixes, Zenon DEF IsMixing, it, n, m
<1>8. m[i] \in Mixture(n) /\ m[i + 1] = Mix(m[i], n)
  <2>1. i \in 0 .. it /\ i + 1 \in 1 .. it /\ i + 1 - 1 = i
    BY <1>1, <1>3
  <2> HIDE DEF i
  <2> QED
    BY <1>7, <2>1
<1> HIDE DEF i, q
<1>9. LoopAt(m[(d + 1 - 3) \div 6], (d + 1 - 3) % 6, n, r2, pad2)
  <2> DEFINE p == m[i]
  <2>1. CASE op = "load"
    <3>1. /\ q = 0 /\ pad2 = pad /\ r2.al = r.al /\ r2.ah = r.ah /\ r2.bx = r.bx /\ r2.idx = r.idx
          /\ r2.cx = pad[at]
      BY <2>1 DEF Doing, Does, q, at, n
    <3>2. LoopAt(p, 1, n, r2, pad)
      BY <1>6, <3>1, LoopLoad, Zenon DEF at
    <3> QED
      BY <1>4, <1>8, <3>1, <3>2
  <2>2. CASE op = "aes"
    <3>1. /\ q = 1 /\ pad2 = pad /\ r2.al = r.al /\ r2.ah = r.ah /\ r2.bx = r.bx /\ r2.idx = r.idx
          /\ \E lanes : r2.cx = LoopAes(c, lanes, r.cx, Block(r.al, r.ah))
      BY <2>2 DEF Doing, Does, q
    <3>2. LoopAt(p, 2, n, r2, pad)
      BY <1>1, <1>6, <1>8, <3>1, LoopEncrypt, Zenon
    <3> QED
      BY <1>4, <1>8, <3>1, <3>2
  <2>3. CASE op = "store"
    <3>1. q = 2 /\ r2 = r /\ pad2 = [pad EXCEPT ![at] = Xor(r.bx, r.cx)]
      BY <2>3 DEF Doing, Does, q, at, n
    <3>2. LoopAt(p, 3, n, r, pad2)
      BY <1>6, <3>1, LoopStore, Zenon DEF at
    <3> QED
      BY <1>4, <1>8, <3>1, <3>2
  <2>4. CASE op = "index"
    <3>1. /\ q = 3 /\ pad2 = pad /\ r2.al = r.al /\ r2.ah = r.ah /\ r2.bx = r.bx /\ r2.cx = r.cx
          /\ r2.idx = Lo(r.cx)
      BY <2>4 DEF Doing, Does, q
    <3>2. LoopAt(p, 4, n, r2, pad)
      BY <1>6, <3>1, LoopIndex, Zenon
    <3> QED
      BY <1>4, <1>8, <3>1, <3>2
  <2>5. CASE op = "shift"
    <3>1. /\ q = 4 /\ pad2 = pad /\ r2.al = r.al /\ r2.ah = r.ah /\ r2.idx = r.idx /\ r2.cx = r.cx
          /\ r2.bx = r.cx
      BY <2>5 DEF Doing, Does, q
    <3>2. LoopAt(p, 5, n, r2, pad)
      BY <1>6, <3>1, LoopShift, Zenon
    <3> QED
      BY <1>4, <1>8, <3>1, <3>2
  <2>6. CASE op = "multiply"
    <3>1. q = 5 /\ Multiplied(c, r, r2, pad, pad2, at, pad[at])
      BY <2>6 DEF Doing, Does, q, at, n
    <3>2. LoopAt(Mix(p, n), 0, n, r2, pad2)
      BY <1>1, <1>6, <1>8, <3>1, LoopMultiply, Zenon DEF Multiplied, at
    <3> QED
      BY <1>4, <1>8, <3>1, <3>2
  <2> QED
    BY <2>1, <2>2, <2>3, <2>4, <2>5, <2>6
<1>10. d + 1 \in Nat /\ d + 1 \in 3 .. 3 + 6 * it
  BY <1>1, <1>2
<1> QED
  BY <1>1, <1>2, <1>6, <1>9, <1>10 DEF LaneAt, it, n, h, m

\* The operations after the loop.
LEMMA LaneAfter ==
    ASSUME NEW c, c.algo \in Algos, NEW in \in Inputs, NEW op, NEW d \in Nat,
           NEW s, NEW r, NEW pad, NEW out, NEW s2, NEW r2, NEW pad2, NEW out2,
           op \in {"implode", "keccakf", "extra"},
           Doing(op, d, Iterations[c.algo]),
           LaneAt(d, c, in, s, r, pad, out),
           Does(op, c, in, s, r, pad, s2, r2, pad2, out2)
    PROVE  LaneAt(d + 1, c, in, s2, r2, pad2, out2)
<1> DEFINE it == Iterations[c.algo]
           n == Cells[c.algo]
           h == KeccakOf(in)
           m == Mixings(in, c.algo)
           f == FoldedState(in, c.algo)
<1>1. it \in Nat /\ n \in Nat \ {0}
  BY Sizes
<1>2. h \in [0 .. 24 -> Word]
  BY InputState
<1>3. /\ \A j \in 0 .. it : m[j] \in Mixture(n)
      /\ CnHash(in, c.algo) = ExtraHash(KeccakPerm(f)[0] % 4, KeccakPerm(f))
      /\ f = Folded(h, m[it].pad, n)
  <2>1. IsMixing(m, h, Filled(h, n), c.algo)
    BY HashMixes
  <2>2. CnHash(in, c.algo) = ExtraHash(KeccakPerm(f)[0] % 4, KeccakPerm(f))
    BY HashMixes, Zenon
  <2> QED
    BY <2>1, <2>2, Zenon DEF IsMixing, FoldedState
<1> HIDE DEF it, n, h, m, f
<1>4. m[it] \in Mixture(n) /\ m[it].pad \in [0 .. n - 1 -> Blocks]
  <2>1. m[it] \in Mixture(n)
    BY <1>1, <1>3
  <2> QED
    BY <2>1 DEF Mixture
<1>5. CASE op = "implode"
  <2>1. d = 3 + 6 * it /\ s2 = Imploded(c, s, pad)
    BY <1>5 DEF Doing, Does, it
  <2>2. d \in 1 .. 3 + 6 * it /\ d \in 3 .. 3 + 6 * it /\ (d - 3) \div 6 = it /\ (d - 3) % 6 = 0
    BY <1>1, <2>1
  <2>3. s = h /\ LoopAt(m[it], 0, n, r, pad)
    BY <2>2 DEF LaneAt, h, n, m, it
  <2>4. pad = m[it].pad
    BY <2>3 DEF LoopAt
  <2>5. s2 = f
    BY <1>2, <1>3, <1>4, <2>1, <2>3, <2>4, ImplodeFolds, Zenon DEF n
  <2> QED
    BY <1>1, <2>1, <2>5 DEF LaneAt, f, it
<1>6. CASE op = "keccakf"
  <2>1. d = 4 + 6 * it /\ s2 = KeccakPerm(s)
    BY <1>6 DEF Doing, Does, it
  <2>2. s = f
    BY <2>1 DEF LaneAt, f, it
  <2> QED
    BY <1>1, <2>1, <2>2 DEF LaneAt, f, it
<1>7. CASE op = "extra"
  <2>1. d = 5 + 6 * it /\ out2 = ExtraHash(s[0] % 4, s)
    BY <1>7 DEF Doing, Does, it
  <2>2. s = KeccakPerm(f)
    BY <2>1 DEF LaneAt, f, it
  <2>3. out2 = CnHash(in, c.algo)
    BY <1>3, <2>1, <2>2, Zenon
  <2> QED
    BY <1>1, <2>1, <2>3 DEF LaneAt, it
<1> QED
  BY <1>5, <1>6, <1>7

\* Every operation of a lane, in its turn, keeps the lane where the standard is.
LEMMA LaneStep ==
    ASSUME NEW c, c.algo \in Algos, NEW in \in Inputs, NEW op, NEW d \in Nat,
           NEW s, NEW r, NEW pad, NEW out, NEW s2, NEW r2, NEW pad2, NEW out2,
           Doing(op, d, Iterations[c.algo]),
           LaneAt(d, c, in, s, r, pad, out),
           Does(op, c, in, s, r, pad, s2, r2, pad2, out2)
    PROVE  LaneAt(d + 1, c, in, s2, r2, pad2, out2)
<1>1. CASE op \in {"keccak", "explode", "registers"}
  BY <1>1, LaneBefore
<1>2. CASE op \in {"load", "aes", "store", "index", "shift", "multiply"}
  BY <1>2, LaneInside
<1>3. CASE op \in {"implode", "keccakf", "extra"}
  BY <1>3, LaneAfter
<1>4. \/ op \in {"keccak", "explode", "registers"}
      \/ op \in {"load", "aes", "store", "index", "shift", "multiply"}
      \/ op \in {"implode", "keccakf", "extra"}
  BY DEF Doing
<1> QED
  BY <1>1, <1>2, <1>3, <1>4

-----------------------------------------------------------------------------
(* The scratchpads of the lanes share one memory *)

\* The pad of lane l in a memory of pads of n blocks.
PadOf(mem, l, n) == [i \in 0 .. n - 1 |-> mem[l * n + i]]

\* mem has b pads of n blocks.
IsMemory(mem, b, n) == mem = [a \in 0 .. b * n - 1 |-> mem[a]]

\* The blocks of two pads are different places of the memory.
LEMMA Places ==
    ASSUME NEW b \in Nat, NEW n \in Nat \ {0}, NEW l \in 0 .. b - 1, NEW i \in 0 .. n - 1
    PROVE  /\ l * n \in Nat /\ l * n + i \in 0 .. b * n - 1 /\ (l * n + i) - l * n = i
           /\ \A k \in 0 .. b - 1 : \A j \in 0 .. n - 1 :
                  k # l => k * n + j # l * n + i /\ (k * n + j) - l * n \notin 0 .. n - 1
<1>1. l * n \in Nat /\ b * n \in Nat /\ l * n + n = (l + 1) * n
  BY SMT
<1>2. (l + 1) * n <= b * n
  BY SMT
<1>3. l * n + i \in 0 .. b * n - 1
  BY <1>1, <1>2
<1>4. ASSUME NEW k \in 0 .. b - 1, NEW j \in 0 .. n - 1, k # l
      PROVE  k * n + j # l * n + i /\ (k * n + j) - l * n \notin 0 .. n - 1
  <2>1. k * n \in Nat /\ k * n + n = (k + 1) * n
    BY SMT
  <2>2. CASE k < l
    <3>1. (k + 1) * n <= l * n
      BY <2>2, SMT
    <3> QED
      BY <1>1, <2>1, <3>1
  <2>3. CASE k > l
    <3>1. (l + 1) * n <= k * n
      BY <2>3, SMT
    <3> QED
      BY <1>1, <2>1, <3>1
  <2> QED
    BY <1>4, <2>2, <2>3
<1>5. (l * n + i) - l * n = i
  BY <1>1
<1> QED
  BY <1>1, <1>3, <1>4, <1>5

\* A memory in which a block is stored, and one in which a pad is filled.
Stored(mem2, mem, a, v) == mem2 = [mem EXCEPT ![a] = v]
PadFilled(mem2, mem, start, pad, D) ==
    mem2 = [a \in DOMAIN mem |-> IF a - start \in D THEN pad[a - start] ELSE mem[a]]

\* The pad of lane l becomes pad, and the pads of the other lanes stay.
PadBecomes(mem2, mem, b, n, l, pad) ==
    /\ IsMemory(mem2, b, n)
    /\ PadOf(mem2, l, n) = pad
    /\ \A k \in 0 .. b - 1 : k # l => PadOf(mem2, k, n) = PadOf(mem, k, n)

\* What one lane stores is in its own pad and in no other.
LEMMA PadStore ==
    ASSUME NEW b \in Nat, NEW n \in Nat \ {0}, NEW l \in 0 .. b - 1, NEW i \in 0 .. n - 1,
           NEW mem, NEW v, NEW mem2, IsMemory(mem, b, n), Stored(mem2, mem, l * n + i, v)
    PROVE  PadBecomes(mem2, mem, b, n, l, [PadOf(mem, l, n) EXCEPT ![i] = v])
<1> DEFINE size == b * n
           at == l * n + i
<1>1. at \in 0 .. size - 1
  BY Places
<1>2. mem = [a \in 0 .. size - 1 |-> mem[a]]
  BY DEF IsMemory
<1> HIDE DEF at, size
<1>3. mem2 = [a \in 0 .. size - 1 |-> IF a = at THEN v ELSE mem[a]]
  <2>1. [mem EXCEPT ![at] = v] = [a \in 0 .. size - 1 |-> IF a = at THEN v ELSE mem[a]]
    BY <1>2
  <2> QED
    BY <2>1 DEF at, Stored
<1>4. mem2 = [a \in 0 .. size - 1 |-> mem2[a]]
  BY <1>3
<1>5. \A a \in 0 .. size - 1 : mem2[a] = IF a = at THEN v ELSE mem[a]
  BY <1>3, Zenon
<1>6. ASSUME NEW j \in 0 .. n - 1
      PROVE  mem2[l * n + j] = IF j = i THEN v ELSE mem[l * n + j]
  <2>1. l * n + j \in 0 .. size - 1 /\ l * n \in Nat
    BY Places DEF size
  <2>2. l * n + j = at <=> j = i
    BY <2>1 DEF at
  <2> QED
    BY <1>5, <2>1, <2>2, Zenon
<1>7. PadOf(mem2, l, n) = [PadOf(mem, l, n) EXCEPT ![i] = v]
  <2> DEFINE place(j) == l * n + j
  <2>1. \A j \in 0 .. n - 1 : mem2[place(j)] = IF j = i THEN v ELSE mem[place(j)]
    BY <1>6
  <2> HIDE DEF place
  <2>2. [j \in 0 .. n - 1 |-> mem2[place(j)]] = [[j \in 0 .. n - 1 |-> mem[place(j)]] EXCEPT ![i] = v]
    BY <2>1
  <2> QED
    BY <2>2 DEF PadOf, place
<1>8. ASSUME NEW k \in 0 .. b - 1, k # l PROVE PadOf(mem2, k, n) = PadOf(mem, k, n)
  <2>1. \A j \in 0 .. n - 1 : k * n + j \in 0 .. size - 1
    BY Places DEF size
  <2>2. \A j \in 0 .. n - 1 : k * n + j # at
    BY <1>8, Places DEF at
  <2>3. \A j \in 0 .. n - 1 : mem2[k * n + j] = mem[k * n + j]
    BY <1>5, <2>1, <2>2, Zenon
  <2> QED
    BY <2>3, Zenon DEF PadOf
<1>9. IsMemory(mem2, b, n)
  BY <1>4 DEF IsMemory, size
<1> QED
  BY <1>7, <1>8, <1>9 DEF PadBecomes

\* A pad that is filled is that pad, and the others stay.
LEMMA PadFill ==
    ASSUME NEW b \in Nat, NEW n \in Nat \ {0}, NEW l \in 0 .. b - 1, NEW mem, NEW pad,
           NEW D, NEW mem2,
           IsMemory(mem, b, n), pad = [i \in 0 .. n - 1 |-> pad[i]], D = 0 .. n - 1,
           PadFilled(mem2, mem, l * n, pad, D)
    PROVE  PadBecomes(mem2, mem, b, n, l, pad)
<1> DEFINE size == b * n
<1>1. DOMAIN mem = 0 .. size - 1
  BY DEF IsMemory
<1> HIDE DEF size
<1>2. \A a \in 0 .. size - 1 : mem2[a] = IF a - l * n \in D THEN pad[a - l * n] ELSE mem[a]
  BY <1>1, Zenon DEF PadFilled
<1>3. mem2 = [a \in 0 .. size - 1 |-> mem2[a]]
  BY <1>1 DEF PadFilled
<1>4. ASSUME NEW j \in 0 .. n - 1 PROVE mem2[l * n + j] = pad[j]
  <2>1. l * n + j \in 0 .. size - 1 /\ (l * n + j) - l * n = j
    BY Places DEF size
  <2> QED
    BY <1>2, <2>1, Zenon
<1>5. PadOf(mem2, l, n) = pad
  <2>1. [j \in 0 .. n - 1 |-> mem2[l * n + j]] = [j \in 0 .. n - 1 |-> pad[j]]
    BY <1>4, Zenon
  <2> QED
    BY <2>1, Zenon DEF PadOf
<1>6. ASSUME NEW k \in 0 .. b - 1, k # l PROVE PadOf(mem2, k, n) = PadOf(mem, k, n)
  <2>1. \A j \in 0 .. n - 1 : k * n + j \in 0 .. size - 1
    BY Places DEF size
  <2>a. 0 \in 0 .. n - 1
    OBVIOUS
  <2>2. \A j \in 0 .. n - 1 : (k * n + j) - l * n \notin 0 .. n - 1
    BY <1>6, <2>a, Places
  <2>3. \A j \in 0 .. n - 1 : mem2[k * n + j] = mem[k * n + j]
    BY <1>2, <2>1, <2>2, Zenon
  <2> QED
    BY <2>3, Zenon DEF PadOf
<1> QED
  BY <1>3, <1>5, <1>6 DEF IsMemory, size, PadBecomes

-----------------------------------------------------------------------------
(* The operations *)

IsReg(r) == r = [al |-> r.al, ah |-> r.ah, bx |-> r.bx, cx |-> r.cx, idx |-> r.idx]

\* The shape of what a kernel works on.
KernelShape ==
    /\ conf \in [arch : Archs, aesni : BOOLEAN, algo : Algos]
    /\ input \in [Lanes -> Inputs]
    /\ state = [l \in Lanes |-> state[l]]
    /\ output = [l \in Lanes |-> output[l]]
    /\ reg = [l \in Lanes |-> reg[l]]
    /\ \A l \in Lanes : IsReg(reg[l])
    /\ IsMemory(memory, MaxHashBlocks, Cells[conf.algo])

\* One of the operations of lane l, as the kernel's step takes it.
Operate(op, l) ==
    \/ op = "keccak" /\ Keccak(l)
    \/ op = "explode" /\ Explode(l)
    \/ op = "registers" /\ Registers(l)
    \/ op = "load" /\ Load(l)
    \/ op = "aes" /\ Encrypt(l)
    \/ op = "store" /\ Store(l)
    \/ op = "index" /\ Index(l)
    \/ op = "shift" /\ Shift(l)
    \/ op = "multiply" /\ Multiply(l)
    \/ op = "implode" /\ Implode(l)
    \/ op = "keccakf" /\ KeccakF(l)
    \/ op = "extra" /\ Extra(l)

\* Lane l makes its operation.
Moves(op, l) ==
    Does(op, conf, input[l], state[l], reg[l], PadOf(memory, l, Cells[conf.algo]),
         state'[l], reg'[l], PadOf(memory', l, Cells[conf.algo]), output'[l])

\* Lane k keeps what it has.
Stays(k) ==
    /\ state'[k] = state[k] /\ reg'[k] = reg[k] /\ output'[k] = output[k]
    /\ PadOf(memory', k, Cells[conf.algo]) = PadOf(memory, k, Cells[conf.algo])

\* Only lane l changes.
Only(op, l) == Moves(op, l) /\ (\A k \in Lanes : k # l => Stays(k)) /\ KernelShape'

\* A member of a function that is changed at l.
LEMMA OneChange ==
    ASSUME NEW f, NEW l \in Lanes, NEW v, NEW f2, f = [k \in Lanes |-> f[k]], f2 = [f EXCEPT ![l] = v]
    PROVE  /\ f2 = [k \in Lanes |-> f2[k]]
           /\ f2[l] = v
           /\ \A k \in Lanes : k # l => f2[k] = f[k]
  OBVIOUS

\* Setting registers.
LEMMA SetOne ==
    ASSUME NEW al, NEW ah, NEW bx, NEW cx, NEW idx, NEW v, NEW q,
           q = [al |-> al, ah |-> ah, bx |-> bx, cx |-> cx, idx |-> idx]
    PROVE  /\ [q EXCEPT !.al = v] = [al |-> v, ah |-> ah, bx |-> bx, cx |-> cx, idx |-> idx]
           /\ [q EXCEPT !.ah = v] = [al |-> al, ah |-> v, bx |-> bx, cx |-> cx, idx |-> idx]
           /\ [q EXCEPT !.bx = v] = [al |-> al, ah |-> ah, bx |-> v, cx |-> cx, idx |-> idx]
           /\ [q EXCEPT !.cx = v] = [al |-> al, ah |-> ah, bx |-> bx, cx |-> v, idx |-> idx]
           /\ [q EXCEPT !.idx = v] = [al |-> al, ah |-> ah, bx |-> bx, cx |-> cx, idx |-> v]
<1>1. [q EXCEPT !.al = v] = [al |-> v, ah |-> ah, bx |-> bx, cx |-> cx, idx |-> idx]
  OBVIOUS
<1>2. [q EXCEPT !.ah = v] = [al |-> al, ah |-> v, bx |-> bx, cx |-> cx, idx |-> idx]
  OBVIOUS
<1>3. [q EXCEPT !.bx = v] = [al |-> al, ah |-> ah, bx |-> v, cx |-> cx, idx |-> idx]
  OBVIOUS
<1>4. [q EXCEPT !.cx = v] = [al |-> al, ah |-> ah, bx |-> bx, cx |-> v, idx |-> idx]
  OBVIOUS
<1>5. [q EXCEPT !.idx = v] = [al |-> al, ah |-> ah, bx |-> bx, cx |-> cx, idx |-> v]
  OBVIOUS
<1> QED
  BY <1>1, <1>2, <1>3, <1>4, <1>5, Zenon

\* The operations that change the state of their lane.
LEMMA StateOperations ==
    ASSUME KernelShape, NEW op, NEW l \in Lanes, Operate(op, l), UNCHANGED <<conf, input>>,
           op \in {"keccak", "implode", "keccakf"}
    PROVE  Only(op, l)
<1> DEFINE n == Cells[conf.algo]
           v == IF op = "keccak" THEN KeccakOf(input[l])
                ELSE IF op = "implode" THEN Imploded(conf, state[l], Pad(l)) ELSE KeccakPerm(state[l])
<1>1. state' = [state EXCEPT ![l] = v] /\ UNCHANGED <<memory, reg, output>>
  BY DEF Operate, Keccak, Implode, KeccakF
<1>2. state = [k \in Lanes |-> state[k]]
  BY DEF KernelShape
<1>3. Pad(l) = PadOf(memory, l, n)
  BY Zenon DEF Pad, PadOf, Base
<1> HIDE DEF v, n
<1>4. /\ state' = [k \in Lanes |-> state'[k]]
      /\ state'[l] = v
      /\ \A k \in Lanes : k # l => state'[k] = state[k]
  BY <1>1, <1>2, OneChange
<1>5. Moves(op, l)
  BY <1>3, <1>4 DEF Moves, Does, v, n
<1>6. \A k \in Lanes : k # l => Stays(k)
  BY <1>1, <1>4 DEF Stays
<1>7. KernelShape'
  BY <1>1, <1>4 DEF KernelShape
<1> QED
  BY <1>5, <1>6, <1>7 DEF Only

\* The operations that change one of the registers of their lane, or all of them.
LEMMA RegisterOperations ==
    ASSUME KernelShape, NEW op, NEW l \in Lanes, Operate(op, l), UNCHANGED <<conf, input>>,
           op \in {"registers", "load", "aes", "index", "shift"},
           op = "load" => reg[l].idx % Cells[conf.algo] \in 0 .. Cells[conf.algo] - 1
    PROVE  Only(op, l)
<1> DEFINE n == Cells[conf.algo]
           q == reg[l]
           at == q.idx % n
           r == reg'[l]
           al == q.al
           ah == q.ah
           bx == q.bx
           cx == q.cx
           idx == q.idx
<1>1. /\ reg = [k \in Lanes |-> reg[k]] /\ IsReg(q)
      /\ UNCHANGED <<state, memory, output>>
  BY DEF KernelShape, Operate, Registers, Load, Encrypt, Index, Shift
<1>2. q = [al |-> al, ah |-> ah, bx |-> bx, cx |-> cx, idx |-> idx]
  BY <1>1, Zenon DEF IsReg
<1>3. op = "load" => memory[Address(l)] = PadOf(memory, l, n)[at]
  <2>1. op = "load" => PadOf(memory, l, n)[at] = memory[l * n + at]
    BY DEF PadOf
  <2> QED
    BY <2>1, Zenon DEF Address, Base
<1> HIDE DEF al, ah, bx, cx, idx
<1>4. ASSUME NEW a, NEW b, NEW c, NEW d, NEW e,
             reg' = [reg EXCEPT ![l] = [al |-> a, ah |-> b, bx |-> c, cx |-> d, idx |-> e]]
      PROVE  /\ r.al = a /\ r.ah = b /\ r.bx = c /\ r.cx = d /\ r.idx = e
             /\ \A k \in Lanes : k # l => Stays(k)
             /\ KernelShape'
  <2> DEFINE v == [al |-> a, ah |-> b, bx |-> c, cx |-> d, idx |-> e]
  <2>1. IsReg(v) /\ v.al = a /\ v.ah = b /\ v.bx = c /\ v.cx = d /\ v.idx = e
    BY DEF IsReg
  <2> HIDE DEF v
  <2>2. reg' = [reg EXCEPT ![l] = v]
    BY <1>4 DEF v
  <2>3. /\ reg' = [k \in Lanes |-> reg'[k]]
        /\ r = v
        /\ \A k \in Lanes : k # l => reg'[k] = reg[k]
    BY <1>1, <2>2, OneChange
  <2>4. \A k \in Lanes : k # l => Stays(k)
    BY <1>1, <2>3 DEF Stays
  <2>5. \A k \in Lanes : IsReg(reg'[k])
    BY <2>1, <2>3 DEF KernelShape
  <2>6. KernelShape'
    BY <1>1, <2>3, <2>5 DEF KernelShape
  <2> QED
    BY <2>1, <2>3, <2>4, <2>6, Zenon
<1>5. state'[l] = state[l] /\ PadOf(memory', l, n) = PadOf(memory, l, n)
  BY <1>1
<1>6. CASE op = "registers"
  <2>1. reg' = [reg EXCEPT ![l] = FirstRegisters(state[l])]
    BY <1>6 DEF Operate, Registers, FirstRegisters
  <2>2. (\A k \in Lanes : k # l => Stays(k)) /\ KernelShape'
    BY <1>4, <2>1, Zenon DEF FirstRegisters
  <2>3. r = FirstRegisters(state[l])
    BY <1>1, <2>1, OneChange
  <2>4. Moves(op, l)
    BY <1>5, <1>6, <2>3 DEF Moves, Does
  <2> QED
    BY <2>2, <2>4 DEF Only
<1>7. CASE op = "load"
  <2> DEFINE v == memory[Address(l)]
  <2>1. reg' = [reg EXCEPT ![l].cx = v]
    BY <1>7 DEF Operate, Load
  <2> HIDE DEF v
  <2>2. reg' = [reg EXCEPT ![l] = [q EXCEPT !.cx = v]]
    BY <1>1, <2>1
  <2>3. [q EXCEPT !.cx = v] = [al |-> al, ah |-> ah, bx |-> bx, cx |-> v, idx |-> idx]
    BY <1>2, SetOne
  <2>4. /\ r.al = al /\ r.ah = ah /\ r.bx = bx /\ r.cx = v /\ r.idx = idx
        /\ (\A k \in Lanes : k # l => Stays(k)) /\ KernelShape'
    BY <1>4, <2>2, <2>3, Zenon
  <2>5. Moves(op, l)
    BY <1>3, <1>5, <1>7, <2>4 DEF Moves, Does, v, al, ah, bx, cx, idx
  <2> QED
    BY <2>4, <2>5 DEF Only
<1>8. CASE op = "aes"
  <2> DEFINE v == LoopAes(conf, factor, cx, Block(q.al, q.ah))
  <2>1. reg' = [reg EXCEPT ![l].cx = v]
    BY <1>8 DEF Operate, Encrypt, cx
  <2> HIDE DEF v
  <2>2. reg' = [reg EXCEPT ![l] = [q EXCEPT !.cx = v]]
    BY <1>1, <2>1
  <2>3. [q EXCEPT !.cx = v] = [al |-> al, ah |-> ah, bx |-> bx, cx |-> v, idx |-> idx]
    BY <1>2, SetOne
  <2>4. /\ r.al = al /\ r.ah = ah /\ r.bx = bx /\ r.cx = v /\ r.idx = idx
        /\ (\A k \in Lanes : k # l => Stays(k)) /\ KernelShape'
    BY <1>4, <2>2, <2>3, Zenon
  <2>5. Moves(op, l)
    BY <1>5, <1>8, <2>4 DEF Moves, Does, v, al, ah, bx, cx, idx
  <2> QED
    BY <2>4, <2>5 DEF Only
<1>9. CASE op = "index"
  <2> DEFINE v == Lo(q.cx)
  <2>1. reg' = [reg EXCEPT ![l].idx = v]
    BY <1>9 DEF Operate, Index
  <2> HIDE DEF v
  <2>2. reg' = [reg EXCEPT ![l] = [q EXCEPT !.idx = v]]
    BY <1>1, <2>1
  <2>3. [q EXCEPT !.idx = v] = [al |-> al, ah |-> ah, bx |-> bx, cx |-> cx, idx |-> v]
    BY <1>2, SetOne
  <2>4. /\ r.al = al /\ r.ah = ah /\ r.bx = bx /\ r.cx = cx /\ r.idx = v
        /\ (\A k \in Lanes : k # l => Stays(k)) /\ KernelShape'
    BY <1>4, <2>2, <2>3, Zenon
  <2>5. Moves(op, l)
    BY <1>5, <1>9, <2>4 DEF Moves, Does, v, al, ah, bx, cx, idx
  <2> QED
    BY <2>4, <2>5 DEF Only
<1>10. CASE op = "shift"
  <2> DEFINE v == q.cx
  <2>1. reg' = [reg EXCEPT ![l].bx = v]
    BY <1>10 DEF Operate, Shift
  <2> HIDE DEF v
  <2>2. reg' = [reg EXCEPT ![l] = [q EXCEPT !.bx = v]]
    BY <1>1, <2>1
  <2>3. [q EXCEPT !.bx = v] = [al |-> al, ah |-> ah, bx |-> v, cx |-> cx, idx |-> idx]
    BY <1>2, SetOne
  <2>4. /\ r.al = al /\ r.ah = ah /\ r.bx = v /\ r.cx = cx /\ r.idx = idx
        /\ (\A k \in Lanes : k # l => Stays(k)) /\ KernelShape'
    BY <1>4, <2>2, <2>3, Zenon
  <2>5. Moves(op, l)
    BY <1>5, <1>10, <2>4 DEF Moves, Does, v, al, ah, bx, cx, idx
  <2> QED
    BY <2>4, <2>5 DEF Only
<1> QED
  BY <1>6, <1>7, <1>8, <1>9, <1>10

\* What the memory is for the lanes, when lane l changes its pad only.
LEMMA MemoryChange ==
    ASSUME KernelShape, NEW l \in Lanes, UNCHANGED <<conf, input, state, reg, output>>,
           IsMemory(memory', MaxHashBlocks, Cells[conf.algo]),
           \A k \in 0 .. MaxHashBlocks - 1 :
               k # l => PadOf(memory', k, Cells[conf.algo]) = PadOf(memory, k, Cells[conf.algo])
    PROVE  (\A k \in Lanes : k # l => Stays(k)) /\ KernelShape'
<1>1. \A k \in Lanes : k # l => Stays(k)
  BY DEF Stays, Lanes
<1>2. KernelShape'
  BY DEF KernelShape
<1> QED
  BY <1>1, <1>2

\* The numbers of lanes and of blocks.
LEMMA Counts ==
    ASSUME conf \in [arch : Archs, aesni : BOOLEAN, algo : Algos]
    PROVE  /\ MaxHashBlocks \in Nat /\ Lanes = 0 .. MaxHashBlocks - 1
           /\ conf.algo \in Algos /\ Cells[conf.algo] \in Nat \ {0}
           /\ Iterations[conf.algo] \in Nat
<1>1. conf.algo \in Algos
  OBVIOUS
<1> QED
  BY <1>1, Sizes, CryptoNightAssumption DEF Lanes

\* Filling the pad.
LEMMA ExplodeOperation ==
    ASSUME KernelShape, NEW l \in Lanes, Explode(l), UNCHANGED <<conf, input>>,
           state[l] \in [0 .. 24 -> Word]
    PROVE  Only("explode", l)
<1> DEFINE n == Cells[conf.algo]
           b == MaxHashBlocks
           pad == Exploded(conf, state[l])
           D == DOMAIN pad
<1>1. /\ b \in Nat /\ n \in Nat \ {0} /\ l \in 0 .. b - 1 /\ conf.algo \in Algos
      /\ IsMemory(memory, b, n)
  BY Counts DEF KernelShape
<1>2. pad \in [0 .. n - 1 -> Blocks]
  BY <1>1, ExplodeFills
<1>3. PadFilled(memory', memory, l * n, pad, D)
  BY Zenon DEF Explode, Fill, Base, PadFilled
<1>4. UNCHANGED <<state, reg, output>>
  BY DEF Explode
<1> HIDE DEF n, b, pad
<1>5. pad = [i \in 0 .. n - 1 |-> pad[i]] /\ D = 0 .. n - 1
  BY <1>2
<1> HIDE DEF D
<1>6. PadBecomes(memory', memory, b, n, l, pad)
  BY <1>1, <1>3, <1>5, PadFill, Zenon
<1>7. (\A k \in Lanes : k # l => Stays(k)) /\ KernelShape'
  BY <1>4, <1>6, MemoryChange DEF n, b, PadBecomes
<1>8. Moves("explode", l)
  BY <1>4, <1>6 DEF Moves, Does, pad, n, PadBecomes
<1> QED
  BY <1>7, <1>8 DEF Only

\* Storing a block.
LEMMA StoreOperation ==
    ASSUME KernelShape, NEW l \in Lanes, Store(l), UNCHANGED <<conf, input>>,
           reg[l].idx % Cells[conf.algo] \in 0 .. Cells[conf.algo] - 1
    PROVE  Only("store", l)
<1> DEFINE n == Cells[conf.algo]
           b == MaxHashBlocks
           at == reg[l].idx % n
           v == Xor(reg[l].bx, reg[l].cx)
<1>1. /\ b \in Nat /\ n \in Nat \ {0} /\ l \in 0 .. b - 1 /\ at \in 0 .. n - 1
      /\ IsMemory(memory, b, n)
  BY Counts DEF KernelShape
<1>2. Stored(memory', memory, l * n + at, v)
  BY Zenon DEF Stored, Store, Address, Base
<1>3. UNCHANGED <<state, reg, output>>
  BY DEF Store
<1> HIDE DEF n, b, v, at
<1>4. PadBecomes(memory', memory, b, n, l, [PadOf(memory, l, n) EXCEPT ![at] = v])
  BY <1>1, <1>2, PadStore, Zenon
<1>5. (\A k \in Lanes : k # l => Stays(k)) /\ KernelShape'
  BY <1>3, <1>4, MemoryChange DEF n, b, PadBecomes
<1>6. Moves("store", l)
  BY <1>3, <1>4 DEF Moves, Does, v, n, at, PadBecomes
<1> QED
  BY <1>5, <1>6 DEF Only

\* The second half of an iteration.
LEMMA MultiplyOperation ==
    ASSUME KernelShape, NEW l \in Lanes, Multiply(l), UNCHANGED <<conf, input>>,
           reg[l].idx % Cells[conf.algo] \in 0 .. Cells[conf.algo] - 1
    PROVE  Only("multiply", l)
<1> DEFINE n == Cells[conf.algo]
           b == MaxHashBlocks
           q == reg[l]
           at == q.idx % n
           d == memory[Address(l)]
           prod == Multiply64(conf.arch, q.idx, Lo(d))
           sl == (q.al + prod[2]) % (L * L)
           sh == (q.ah + prod[1]) % (L * L)
           v == Block(sl, sh)
           x == XorWord(sl, Lo(d))
           y == XorWord(sh, Hi(d))
           r == reg'[l]
<1>1. /\ b \in Nat /\ n \in Nat \ {0} /\ l \in 0 .. b - 1 /\ at \in 0 .. n - 1
      /\ IsMemory(memory, b, n) /\ reg = [k \in Lanes |-> reg[k]] /\ IsReg(q)
  BY Counts DEF KernelShape
<1>2. d = PadOf(memory, l, n)[at]
  <2>1. PadOf(memory, l, n)[at] = memory[l * n + at]
    BY <1>1 DEF PadOf
  <2> QED
    BY <2>1, Zenon DEF Address, Base
<1>3. Stored(memory', memory, l * n + at, v)
  BY Zenon DEF Stored, Multiply, Address, Base
<1>4. reg' = [reg EXCEPT ![l].al = x, ![l].ah = y, ![l].idx = x] /\ UNCHANGED <<state, output>>
  BY Zenon DEF Multiply
<1> HIDE DEF d, prod, sl, sh, v, x, y, at, n, b
<1>5. reg' = [reg EXCEPT ![l] = [[[q EXCEPT !.al = x] EXCEPT !.ah = y] EXCEPT !.idx = x]]
  BY <1>1, <1>4
<1> DEFINE al == q.al
           ah == q.ah
           bx == q.bx
           cx == q.cx
           idx == q.idx
           q1 == [q EXCEPT !.al = x]
           q2 == [q1 EXCEPT !.ah = y]
           w == [al |-> x, ah |-> y, bx |-> bx, cx |-> cx, idx |-> x]
<1>6. q = [al |-> al, ah |-> ah, bx |-> bx, cx |-> cx, idx |-> idx]
  BY <1>1, Zenon DEF IsReg
<1> HIDE DEF al, ah, bx, cx, idx
<1>7. [[[q EXCEPT !.al = x] EXCEPT !.ah = y] EXCEPT !.idx = x] = w
  <2>1. q1 = [al |-> x, ah |-> ah, bx |-> bx, cx |-> cx, idx |-> idx]
    BY <1>6, SetOne
  <2> HIDE DEF q1
  <2>2. q2 = [al |-> x, ah |-> y, bx |-> bx, cx |-> cx, idx |-> idx]
    BY <2>1, SetOne
  <2> HIDE DEF q2
  <2>3. [q2 EXCEPT !.idx = x] = w
    BY <2>2, SetOne
  <2> QED
    BY <2>3 DEF q1, q2
<1>8. IsReg(w) /\ w.al = x /\ w.ah = y /\ w.bx = bx /\ w.idx = x
  BY DEF IsReg
<1> HIDE DEF w
<1>9. reg' = [reg EXCEPT ![l] = w]
  BY <1>5, <1>7, Zenon
<1>10. /\ reg' = [k \in Lanes |-> reg'[k]]
       /\ r = w
       /\ \A k \in Lanes : k # l => reg'[k] = reg[k]
  BY <1>1, <1>9, OneChange
<1>11. PadBecomes(memory', memory, b, n, l, [PadOf(memory, l, n) EXCEPT ![at] = v])
  BY <1>1, <1>3, PadStore, Zenon
<1>12. \A k \in Lanes : k # l => Stays(k)
  BY <1>4, <1>10, <1>11 DEF Stays, Lanes, b, n, PadBecomes
<1>13. KernelShape'
  <2>1. \A k \in Lanes : IsReg(reg'[k])
    BY <1>8, <1>10 DEF KernelShape
  <2> QED
    BY <1>4, <1>10, <1>11, <2>1 DEF KernelShape, b, n, PadBecomes
<1>14. Multiplied(conf, q, r, PadOf(memory, l, n), PadOf(memory', l, n), at, PadOf(memory, l, n)[at])
  <2>1. r.al = x /\ r.ah = y /\ r.idx = x /\ r.bx = q.bx
    BY <1>8, <1>10 DEF bx
  <2> QED
    BY <1>2, <1>11, <2>1, Zenon DEF PadBecomes, Multiplied, prod, sl, sh, v, x, y
<1>15. Moves("multiply", l)
  BY <1>4, <1>14 DEF Moves, Does, n, at
<1> QED
  BY <1>12, <1>13, <1>15 DEF Only

\* The result.
LEMMA ExtraOperation ==
    ASSUME KernelShape, NEW l \in Lanes, Extra(l), UNCHANGED <<conf, input>>
    PROVE  Only("extra", l)
<1> DEFINE v == ExtraHash(state[l][0] % 4, state[l])
<1>1. output' = [output EXCEPT ![l] = v] /\ UNCHANGED <<state, memory, reg>>
  BY Zenon DEF Extra
<1> HIDE DEF v
<1>2. output = [k \in Lanes |-> output[k]]
  BY DEF KernelShape
<1>3. /\ output' = [k \in Lanes |-> output'[k]]
      /\ output'[l] = v
      /\ \A k \in Lanes : k # l => output'[k] = output[k]
  BY <1>1, <1>2, OneChange
<1>4. \A k \in Lanes : k # l => Stays(k)
  BY <1>1, <1>3 DEF Stays
<1>5. KernelShape'
  BY <1>1, <1>3 DEF KernelShape
<1>6. Moves("extra", l)
  BY <1>3 DEF Moves, Does, v
<1> QED
  BY <1>4, <1>5, <1>6 DEF Only

\* What lane l has after d operations.
LaneHas(d, l) ==
    LaneAt(d, conf, input[l], state[l], reg[l], PadOf(memory, l, Cells[conf.algo]), output[l])

\* What it has after a step.
LaneGets(d, l) ==
    LaneAt(d, conf', input'[l], state'[l], reg'[l], PadOf(memory', l, Cells[conf'.algo]), output'[l])

\* A lane that accesses its pad has an index.
LEMMA LaneIndex ==
    ASSUME KernelShape, NEW l \in Lanes, NEW d \in Nat, NEW op \in {"load", "store", "multiply"},
           Doing(op, d, Iterations[conf.algo]), LaneHas(d, l)
    PROVE  reg[l].idx % Cells[conf.algo] \in 0 .. Cells[conf.algo] - 1
<1> DEFINE it == Iterations[conf.algo]
           n == Cells[conf.algo]
           m == Mixings(input[l], conf.algo)
           i == (d - 3) \div 6
           q == (d - 3) % 6
           r == reg[l]
           pad == PadOf(memory, l, n)
<1>1. /\ it \in Nat /\ n \in Nat \ {0} /\ conf.algo \in Algos
      /\ input[l] \in Inputs
  BY Counts DEF KernelShape
<1>2. \A j \in 0 .. it : m[j] \in Mixture(n)
  BY <1>1, HashMixes, Zenon DEF IsMixing
<1> HIDE DEF it, n, m, r, pad
<1>3. d \in 3 .. 2 + 6 * it
  BY DEF Doing, it
<1>4. d \in 3 .. 3 + 6 * it /\ i \in 0 .. it /\ q \in 0 .. 5
  BY <1>1, <1>3, Position
<1>5. LoopAt(m[i], q, n, r, pad)
  BY <1>4 DEF LaneHas, LaneAt, it, n, m, r, pad
<1> HIDE DEF i, q
<1>6. m[i] \in Mixture(n)
  BY <1>2, <1>4
<1>7. Lo(m[i].a) % n \in 0 .. n - 1 /\ Lo(MixC(m[i], n)) % n \in 0 .. n - 1
  BY <1>1, <1>6, MixParts
<1>8. r.idx = Lo(m[i].a) \/ r.idx = Lo(MixC(m[i], n))
  BY <1>4, <1>5 DEF LoopAt
<1>9. r.idx % n \in 0 .. n - 1
  BY <1>7, <1>8
<1> QED
  BY <1>9 DEF r, n

\* An operation in its turn brings its lane on and leaves the others where they are.
LEMMA LaneMoves ==
    ASSUME KernelShape, NEW l \in Lanes, NEW d \in Nat, NEW op,
           Doing(op, d, Iterations[conf.algo]), LaneHas(d, l),
           Operate(op, l), UNCHANGED <<conf, input>>
    PROVE  /\ LaneGets(d + 1, l)
           /\ \A k \in Lanes : k # l => Stays(k)
           /\ KernelShape'
<1>1. conf.algo \in Algos /\ input[l] \in Inputs
  BY Counts DEF KernelShape
<1>2. op \in {"load", "store", "multiply"} => reg[l].idx % Cells[conf.algo] \in 0 .. Cells[conf.algo] - 1
  BY LaneIndex
<1>3. Only(op, l)
  <2>1. CASE op \in {"keccak", "implode", "keccakf"}
    BY <2>1, StateOperations
  <2>2. CASE op \in {"registers", "load", "aes", "index", "shift"}
    BY <1>2, <2>2, RegisterOperations
  <2>3. CASE op = "explode"
    <3>1. d = 1 /\ Explode(l)
      BY <2>3 DEF Doing, Operate
    <3>2. state[l] = KeccakOf(input[l])
      <4>1. Iterations[conf.algo] \in Nat
        BY <1>1, Sizes
      <4>2. 1 \in 1 .. 3 + 6 * Iterations[conf.algo]
        BY <4>1
      <4> QED
        BY <3>1, <4>2 DEF LaneHas, LaneAt
    <3>3. state[l] \in [0 .. 24 -> Word]
      BY <1>1, <3>2, InputState
    <3> QED
      BY <2>3, <3>1, <3>3, ExplodeOperation
  <2>4. CASE op = "store"
    <3>1. Store(l)
      BY <2>4 DEF Operate
    <3> QED
      BY <1>2, <2>4, <3>1, StoreOperation
  <2>5. CASE op = "multiply"
    <3>1. Multiply(l)
      BY <2>5 DEF Operate
    <3> QED
      BY <1>2, <2>5, <3>1, MultiplyOperation
  <2>6. CASE op = "extra"
    <3>1. Extra(l)
      BY <2>6 DEF Operate
    <3> QED
      BY <2>6, <3>1, ExtraOperation
  <2>7. \/ op \in {"keccak", "implode", "keccakf"} \/ op \in {"registers", "load", "aes", "index", "shift"}
        \/ op = "explode" \/ op = "store" \/ op = "multiply" \/ op = "extra"
    BY DEF Doing
  <2> QED
    BY <2>1, <2>2, <2>3, <2>4, <2>5, <2>6, <2>7
<1>4. Does(op, conf, input[l], state[l], reg[l], PadOf(memory, l, Cells[conf.algo]),
           state'[l], reg'[l], PadOf(memory', l, Cells[conf.algo]), output'[l])
  BY <1>3, Zenon DEF Only, Moves
<1>5. LaneAt(d + 1, conf, input[l], state'[l], reg'[l], PadOf(memory', l, Cells[conf.algo]), output'[l])
  <2>1. LaneAt(d, conf, input[l], state[l], reg[l], PadOf(memory, l, Cells[conf.algo]), output[l])
    BY DEF LaneHas
  <2> QED
    BY <1>1, <1>4, <2>1, LaneStep, Zenon
<1>6. LaneGets(d + 1, l)
  BY <1>5 DEF LaneGets
<1> QED
  BY <1>3, <1>6 DEF Only

\* A lane that stays where it is has what it had.
LEMMA LaneStays ==
    ASSUME NEW k, NEW d, LaneHas(d, k), Stays(k), UNCHANGED <<conf, input>>
    PROVE  LaneGets(d, k)
<1>1. /\ state'[k] = state[k] /\ reg'[k] = reg[k] /\ output'[k] = output[k]
      /\ PadOf(memory', k, Cells[conf.algo]) = PadOf(memory, k, Cells[conf.algo])
      /\ conf' = conf /\ input' = input
  BY DEF Stays
<1>2. LaneAt(d, conf, input[k], state[k], reg[k], PadOf(memory, k, Cells[conf.algo]), output[k])
  BY DEF LaneHas
<1>3. LaneAt(d, conf', input'[k], state'[k], reg'[k], PadOf(memory', k, Cells[conf'.algo]), output'[k])
  BY <1>1, <1>2, Zenon
<1> QED
  BY <1>3 DEF LaneGets

-----------------------------------------------------------------------------
(* The order of the operations *)

\* What a lane may be made to do.
Operations == {"keccak", "explode", "registers", "load", "aes", "store", "index", "shift",
               "multiply", "implode", "keccakf", "extra"}

\* The steps of a kernel.
Work == Operations \X Int

\* c counts the operations that each of n lanes has made before and after every step
\* of s: each starts with d, each step is the next one of its lane, and each ends with e.
IsCount(c, s, n, it, d, e) ==
    /\ \A i \in 0 .. Len(s) : c[i] \in [0 .. n - 1 -> Nat]
    /\ c[0] = [l \in 0 .. n - 1 |-> d]
    /\ \A i \in 1 .. Len(s) : \E l \in 0 .. n - 1 :
           /\ s[i][2] = l /\ Doing(s[i][1], c[i - 1][l], it)
           /\ c[i] = [c[i - 1] EXCEPT ![l] = c[i - 1][l] + 1]
    /\ c[Len(s)] = [l \in 0 .. n - 1 |-> e]

\* s takes n lanes from their operation d to e.
Takes(s, n, it, d, e) == s \in Seq(Work) /\ \E c : IsCount(c, s, n, it, d, e)

\* A function on 1 .. n is a sequence of n steps.
LEMMA WorkSeq ==
    ASSUME NEW n \in Nat, NEW f \in [1 .. n -> Work]
    PROVE  f \in Seq(Work) /\ Len(f) = n
  OBVIOUS

\* An operation that a lane makes is one of a kernel.
LEMMA DoingOperation ==
    ASSUME NEW op, NEW d, NEW it, Doing(op, d, it)
    PROVE  op \in Operations
  BY DEF Doing, Operations

\* One operation of every lane.
LEMMA TakesAll ==
    ASSUME NEW n \in Nat, NEW it, NEW d \in Nat, NEW op, Doing(op, d, it)
    PROVE  Takes(All(op, n), n, it, d, d + 1)
<1> DEFINE s == All(op, n)
           c == [i \in 0 .. n |-> [l \in 0 .. n - 1 |-> IF l < i THEN d + 1 ELSE d]]
<1>1. s \in [1 .. n -> Work]
  <2>1. \A i \in 1 .. n : i - 1 \in Int
    OBVIOUS
  <2>2. op \in Operations
    BY DoingOperation
  <2> QED
    BY <2>1, <2>2, Zenon DEF All, Work
<1>2. s \in Seq(Work) /\ Len(s) = n
  BY <1>1, WorkSeq, Zenon
<1>3. \A i \in 1 .. n : s[i][1] = op /\ s[i][2] = i - 1
  BY DEF All
<1> HIDE DEF s
<1>4. \A i \in 0 .. n : c[i] \in [0 .. n - 1 -> Nat]
  OBVIOUS
<1>5. c[0] = [l \in 0 .. n - 1 |-> d] /\ c[n] = [l \in 0 .. n - 1 |-> d + 1]
  <2>1. c[0] = [l \in 0 .. n - 1 |-> IF l < 0 THEN d + 1 ELSE d]
    OBVIOUS
  <2>2. c[n] = [l \in 0 .. n - 1 |-> IF l < n THEN d + 1 ELSE d]
    OBVIOUS
  <2>3. \A l \in 0 .. n - 1 : ~(l < 0) /\ l < n
    OBVIOUS
  <2> QED
    BY <2>1, <2>2, <2>3, Zenon
<1>6. ASSUME NEW i \in 1 .. n
      PROVE  \E l \in 0 .. n - 1 : /\ s[i][2] = l /\ Doing(s[i][1], c[i - 1][l], it)
                                   /\ c[i] = [c[i - 1] EXCEPT ![l] = c[i - 1][l] + 1]
  <2> DEFINE l == i - 1
  <2>1. l \in 0 .. n - 1 /\ i - 1 \in 0 .. n /\ i \in 0 .. n
    OBVIOUS
  <2>2. c[l] = [k \in 0 .. n - 1 |-> IF k < l THEN d + 1 ELSE d] /\ c[l][l] = d
    BY <2>1
  <2>3. c[i] = [k \in 0 .. n - 1 |-> IF k < i THEN d + 1 ELSE d]
    BY <2>1
  <2>4. c[i] = [c[l] EXCEPT ![l] = c[l][l] + 1]
    <3> HIDE DEF c
    <3>1. \A k \in 0 .. n - 1 : (k < i <=> k < l \/ k = l)
      OBVIOUS
    <3>2. [c[l] EXCEPT ![l] = d + 1] = [k \in 0 .. n - 1 |-> IF k = l THEN d + 1 ELSE IF k < l THEN d + 1 ELSE d]
      BY <2>1, <2>2
    <3>3. [k \in 0 .. n - 1 |-> IF k < i THEN d + 1 ELSE d]
          = [k \in 0 .. n - 1 |-> IF k = l THEN d + 1 ELSE IF k < l THEN d + 1 ELSE d]
      BY <3>1, Zenon
    <3> QED
      BY <2>2, <2>3, <3>2, <3>3, Zenon
  <2> HIDE DEF c
  <2> QED
    BY <1>3, <2>1, <2>2, <2>4
<1> HIDE DEF c
<1>7. IsCount(c, s, n, it, d, d + 1)
  BY <1>2, <1>4, <1>5, <1>6, Zenon DEF IsCount
<1> QED
  BY <1>2, <1>7, Zenon DEF Takes, s

\* All the operations of ops of every lane, lane after lane.
Each(ops, n) ==
    [i \in 1 .. n * Len(ops) |-> <<ops[((i - 1) % Len(ops)) + 1], (i - 1) \div Len(ops)>>]

\* The lane of a step of Each, and the operation.
LEMMA EachPlace ==
    ASSUME NEW n \in Nat, NEW k \in Nat \ {0}, NEW i \in 1 .. n * k
    PROVE  /\ n * k \in Nat /\ (i - 1) \div k \in 0 .. n - 1 /\ (i - 1) % k \in 0 .. k - 1
           /\ (i - 1) % k < k - 1 => i \div k = (i - 1) \div k /\ i % k = ((i - 1) % k) + 1
           /\ (i - 1) % k = k - 1 => i \div k = ((i - 1) \div k) + 1 /\ i % k = 0
<1> DEFINE q == (i - 1) \div k
           r == (i - 1) % k
<1>1. n * k \in Nat
  BY SMT
<1>2. i - 1 \in Nat /\ i \in Nat /\ i - 1 < n * k
  BY <1>1
<1>3. q \in Nat /\ k * q <= i - 1
  BY <1>2, DivBounds
<1>4. r \in 0 .. k - 1
  BY <1>2, ModRange
<1>5. i - 1 = k * q + r
  BY <1>2, SMT
<1> HIDE DEF q, r
<1>6. q < n
  <2> SUFFICES ASSUME q >= n PROVE FALSE
    BY <1>3
  <2>1. k * q >= k * n /\ k * n = n * k
    BY <1>3, SMT
  <2>2. k * q \in Nat
    BY <1>3, SMT
  <2> QED
    BY <1>1, <1>2, <1>3, <2>1, <2>2
<1>7. k * q \in Nat /\ k * (q + 1) = k * q + k
  BY <1>3, SMT
<1>8. r < k - 1 => i \div k = q /\ i % k = r + 1
  <2> SUFFICES ASSUME r < k - 1 PROVE i \div k = q /\ i % k = r + 1
    OBVIOUS
  <2> DEFINE z == r + 1
  <2>1. z \in 0 .. k - 1 /\ i = k * q + z
    BY <1>2, <1>4, <1>5, <1>7
  <2> HIDE DEF z
  <2>2. i % k = z /\ i \div k = q
    BY <1>2, <1>3, <2>1, LowAndHigh
  <2> QED
    BY <2>2 DEF z
<1>9. r = k - 1 => i \div k = q + 1 /\ i % k = 0
  <2> SUFFICES ASSUME r = k - 1 PROVE i \div k = q + 1 /\ i % k = 0
    OBVIOUS
  <2> DEFINE z == 0
             t == q + 1
  <2>1. i = k * t + z /\ z \in 0 .. k - 1 /\ t \in Nat
    BY <1>2, <1>3, <1>4, <1>5, <1>7
  <2> HIDE DEF z, t
  <2>2. i % k = z /\ i \div k = t
    BY <1>2, <2>1, LowAndHigh
  <2> QED
    BY <2>2 DEF z, t
<1> QED
  BY <1>1, <1>3, <1>4, <1>6, <1>8, <1>9 DEF q, r

\* Each lane makes the operations of ops, one after the other.
LEMMA TakesEach ==
    ASSUME NEW n \in Nat, NEW it, NEW d \in Nat, NEW k \in Nat \ {0}, NEW ops, Len(ops) = k,
           \A j \in 0 .. k - 1 : Doing(ops[j + 1], d + j, it)
    PROVE  Takes(Each(ops, n), n, it, d, d + k)
<1> DEFINE s == Each(ops, n)
           m == n * k
           Made(i, l) == IF l < i \div k THEN d + k ELSE IF l = i \div k THEN d + (i % k) ELSE d
           c == [i \in 0 .. m |-> [l \in 0 .. n - 1 |-> Made(i, l)]]
<1>1. m \in Nat
  BY SMT
<1>2. s = [i \in 1 .. m |-> <<ops[((i - 1) % k) + 1], (i - 1) \div k>>]
  BY Zenon DEF Each
<1>3. \A i \in 1 .. m : /\ (i - 1) \div k \in 0 .. n - 1 /\ (i - 1) % k \in 0 .. k - 1
                        /\ Doing(ops[((i - 1) % k) + 1], d + ((i - 1) % k), it)
  BY EachPlace
<1> HIDE DEF s, m
<1>4. s \in [1 .. m -> Work]
  <2>1. \A i \in 1 .. m : (i - 1) \div k \in Int
    BY <1>3
  <2>2. \A i \in 1 .. m : ops[((i - 1) % k) + 1] \in Operations
    BY <1>3, DoingOperation
  <2> QED
    BY <1>2, <2>1, <2>2, Zenon DEF Work
<1>5. s \in Seq(Work) /\ Len(s) = m
  BY <1>1, <1>4, WorkSeq, Zenon
<1>6. \A i \in 1 .. m : s[i][1] = ops[((i - 1) % k) + 1] /\ s[i][2] = (i - 1) \div k
  BY <1>2
<1>7. \A i \in 0 .. m : c[i] \in [0 .. n - 1 -> Nat]
  <2>1. \A i \in 0 .. m : i % k \in Nat
    <3>1. \A i \in 0 .. m : i % k \in 0 .. k - 1
      BY <1>1, ModRange
    <3> QED
      BY <3>1
  <2>2. \A i \in 0 .. m : \A l \in 0 .. n - 1 : Made(i, l) \in Nat
    BY <2>1
  <2> HIDE DEF Made
  <2> QED
    BY <2>2, Zenon
<1>8. \A i \in 0 .. m : \A l \in 0 .. n - 1 : c[i][l] = Made(i, l)
  BY Zenon
<1>9. \A i \in 0 .. m : c[i] = [l \in 0 .. n - 1 |-> Made(i, l)]
  BY Zenon
<1>10. c[0] = [l \in 0 .. n - 1 |-> d]
  <2> DEFINE z == 0
  <2>1. z \in 0 .. k - 1 /\ z \in Nat /\ z = k * z + z
    BY SMT
  <2>2. z \div k = z /\ z % k = z
    <3> HIDE DEF z
    <3> QED
      BY <2>1, LowAndHigh
  <2>3. 0 \div k = 0 /\ 0 % k = 0
    BY <2>2
  <2>4. \A l \in 0 .. n - 1 : Made(0, l) = d
    BY <2>3
  <2>5. 0 \in 0 .. m
    BY <1>1
  <2> HIDE DEF Made, c
  <2> QED
    BY <1>9, <2>4, <2>5, Zenon
<1>11. c[m] = [l \in 0 .. n - 1 |-> d + k]
  <2> DEFINE z == 0
  <2>1. z \in 0 .. k - 1 /\ m = k * n + z
    BY SMT DEF m
  <2>2. m \div k = n
    <3> HIDE DEF z
    <3> QED
      BY <1>1, <2>1, LowAndHigh
  <2>3. \A l \in 0 .. n - 1 : Made(m, l) = d + k
    BY <2>2
  <2>4. m \in 0 .. m
    BY <1>1
  <2> HIDE DEF Made, c
  <2> QED
    BY <1>9, <2>3, <2>4, Zenon
<1>12. ASSUME NEW i \in 1 .. m
      PROVE  \E l \in 0 .. n - 1 : /\ s[i][2] = l /\ Doing(s[i][1], c[i - 1][l], it)
                                   /\ c[i] = [c[i - 1] EXCEPT ![l] = c[i - 1][l] + 1]
  <2> DEFINE l == (i - 1) \div k
             q == (i - 1) % k
  <2>1. i - 1 \in 0 .. m /\ i \in 0 .. m
    BY <1>1
  <2>2. /\ l \in 0 .. n - 1 /\ q \in 0 .. k - 1
        /\ q < k - 1 => i \div k = l /\ i % k = q + 1
        /\ q = k - 1 => i \div k = l + 1 /\ i % k = 0
    BY EachPlace DEF m
  <2>3. s[i][2] = l /\ Doing(s[i][1], d + q, it)
    BY <1>3, <1>6
  <2>4. Made(i - 1, l) = d + q
    BY <2>2
  <2>5. c[i - 1][l] = d + q
    BY <1>8, <2>1, <2>2, <2>4, Zenon
  <2>6. ASSUME NEW j \in 0 .. n - 1
        PROVE  Made(i, j) = IF j = l THEN d + q + 1 ELSE Made(i - 1, j)
    <3> HIDE DEF l, q
    <3>1. Made(i - 1, j) = IF j < l THEN d + k ELSE IF j = l THEN d + q ELSE d
      BY DEF l, q
    <3>2. CASE q < k - 1
      BY <2>2, <3>1, <3>2
    <3>3. CASE q = k - 1
      <4>1. Made(i, j) = IF j < l + 1 THEN d + k ELSE IF j = l + 1 THEN d + 0 ELSE d
        BY <2>2, <3>3
      <4> HIDE DEF Made
      <4> QED
        BY <2>2, <3>1, <3>3, <4>1
    <3> QED
      BY <2>2, <3>2, <3>3
  <2> HIDE DEF l, q, Made, c
  <2>7. [c[i - 1] EXCEPT ![l] = d + q + 1] = [j \in 0 .. n - 1 |-> IF j = l THEN d + q + 1 ELSE Made(i - 1, j)]
    <3>1. c[i - 1] = [j \in 0 .. n - 1 |-> Made(i - 1, j)]
      BY <1>9, <2>1, Zenon
    <3> QED
      BY <2>2, <3>1
  <2>8. c[i] = [j \in 0 .. n - 1 |-> IF j = l THEN d + q + 1 ELSE Made(i - 1, j)]
    BY <1>9, <2>1, <2>6, Zenon
  <2>9. c[i] = [c[i - 1] EXCEPT ![l] = c[i - 1][l] + 1]
    BY <2>5, <2>7, <2>8, Zenon
  <2> QED
    BY <2>2, <2>3, <2>5, <2>9
<1> HIDE DEF c
<1>13. IsCount(c, s, n, it, d, d + k)
  BY <1>5, <1>7, <1>10, <1>11, <1>12, Zenon DEF IsCount
<1> QED
  BY <1>5, <1>13, Zenon DEF Takes, s

\* What follows.
LEMMA TakesThen ==
    ASSUME NEW n \in Nat, NEW it, NEW d, NEW e, NEW f, NEW s, NEW t,
           Takes(s, n, it, d, e), Takes(t, n, it, e, f)
    PROVE  Takes(s \o t, n, it, d, f)
<1>1. PICK a : IsCount(a, s, n, it, d, e)
  BY Zenon DEF Takes
<1>2. PICK b : IsCount(b, t, n, it, e, f)
  BY Zenon DEF Takes
<1> DEFINE p == Len(s)
           q == Len(t)
           st == s \o t
           c == [i \in 0 .. p + q |-> IF i <= p THEN a[i] ELSE b[i - p]]
           Next1(g, u, i, l) == /\ u[i][2] = l /\ Doing(u[i][1], g[i - 1][l], it)
                                /\ g[i] = [g[i - 1] EXCEPT ![l] = g[i - 1][l] + 1]
<1>3. s \in Seq(Work) /\ t \in Seq(Work) /\ p \in Nat /\ q \in Nat
  BY DEF Takes
<1>4. st \in Seq(Work) /\ Len(st) = p + q
  BY <1>3
<1>5. \A i \in 1 .. p : st[i] = s[i]
  BY <1>3
<1>6. \A i \in 1 .. q : st[p + i] = t[i]
  BY <1>3
<1>7. /\ \A i \in 0 .. p : a[i] \in [0 .. n - 1 -> Nat]
      /\ a[0] = [l \in 0 .. n - 1 |-> d] /\ a[p] = [l \in 0 .. n - 1 |-> e]
      /\ \A i \in 1 .. p : \E l \in 0 .. n - 1 : Next1(a, s, i, l)
  BY <1>1, Zenon DEF IsCount
<1>8. /\ \A i \in 0 .. q : b[i] \in [0 .. n - 1 -> Nat]
      /\ b[0] = [l \in 0 .. n - 1 |-> e] /\ b[q] = [l \in 0 .. n - 1 |-> f]
      /\ \A i \in 1 .. q : \E l \in 0 .. n - 1 : Next1(b, t, i, l)
  BY <1>2, Zenon DEF IsCount
<1> HIDE DEF p, q, st
<1>9. \A i \in 0 .. p : c[i] = a[i]
  BY <1>3
<1>10. \A i \in 0 .. q : c[p + i] = b[i]
  <2>1. ASSUME NEW i \in 1 .. q PROVE c[p + i] = b[i]
    <3>1. p + i \in 0 .. p + q /\ ~(p + i <= p) /\ (p + i) - p = i
      BY <1>3
    <3> QED
      BY <3>1
  <2>2. c[p + 0] = b[0]
    <3> HIDE DEF c
    <3>1. p + 0 = p /\ p \in 0 .. p
      BY <1>3
    <3>2. c[p] = a[p]
      BY <1>9, <3>1, Zenon
    <3>3. a[p] = b[0]
      BY <1>7, <1>8, Zenon
    <3> QED
      BY <3>1, <3>2, <3>3, Zenon
  <2>3. \A i \in 0 .. q : i = 0 \/ i \in 1 .. q
    BY <1>3
  <2> HIDE DEF c
  <2> QED
    BY <2>1, <2>2, <2>3, Zenon
<1> HIDE DEF c
<1>11. \A i \in 0 .. p + q : c[i] \in [0 .. n - 1 -> Nat]
  <2>1. ASSUME NEW i \in 0 .. p + q PROVE c[i] \in [0 .. n - 1 -> Nat]
    <3>1. CASE i <= p
      <4>1. i \in 0 .. p
        BY <1>3, <3>1
      <4> QED
        BY <1>7, <1>9, <4>1, Zenon
    <3>2. CASE ~(i <= p)
      <4>1. i - p \in 0 .. q /\ p + (i - p) = i
        BY <1>3, <3>2
      <4> QED
        BY <1>8, <1>10, <4>1, Zenon
    <3> QED
      BY <3>1, <3>2
  <2> QED
    BY <2>1
<1>12. c[0] = [l \in 0 .. n - 1 |-> d] /\ c[p + q] = [l \in 0 .. n - 1 |-> f]
  <2>1. 0 \in 0 .. p /\ q \in 0 .. q
    BY <1>3
  <2> QED
    BY <1>7, <1>8, <1>9, <1>10, <2>1, Zenon
<1>13. ASSUME NEW i \in 1 .. p + q PROVE \E l \in 0 .. n - 1 : Next1(c, st, i, l)
  <2>1. CASE i <= p
    <3>1. i \in 1 .. p /\ i \in 0 .. p /\ i - 1 \in 0 .. p
      BY <1>3, <2>1
    <3>2. st[i] = s[i] /\ c[i] = a[i] /\ c[i - 1] = a[i - 1]
      BY <1>5, <1>9, <3>1, Zenon
    <3>3. PICK l \in 0 .. n - 1 : Next1(a, s, i, l)
      BY <1>7, <3>1, Zenon
    <3>4. Next1(c, st, i, l)
      BY <3>2, <3>3, Zenon
    <3> QED
      BY <3>4, Zenon
  <2>2. CASE ~(i <= p)
    <3> DEFINE j == i - p
    <3>1. j \in 1 .. q /\ j \in 0 .. q /\ j - 1 \in 0 .. q /\ i = p + j /\ i - 1 = p + (j - 1)
      BY <1>3, <2>2
    <3> HIDE DEF j
    <3>2. st[i] = t[j] /\ c[i] = b[j] /\ c[i - 1] = b[j - 1]
      BY <1>6, <1>10, <3>1, Zenon
    <3>3. PICK l \in 0 .. n - 1 : Next1(b, t, j, l)
      BY <1>8, <3>1, Zenon
    <3>4. Next1(c, st, i, l)
      BY <3>2, <3>3, Zenon
    <3> QED
      BY <3>4, Zenon
  <2> QED
    BY <2>1, <2>2
<1>14. IsCount(c, st, n, it, d, f)
  BY <1>4, <1>11, <1>12, <1>13, Zenon DEF IsCount
<1> QED
  BY <1>4, <1>14, Zenon DEF Takes, st

\* One more time.
LEMMA TimesMore ==
    ASSUME NEW m \in Nat, NEW s \in Seq(Work), Len(s) # 0
    PROVE  Times(m + 1, s) = Times(m, s) \o s /\ Times(m, s) \in Seq(Work)
<1> DEFINE k == Len(s)
           p == m * k
           t == Times(m, s)
           u == Times(m + 1, s)
<1>1. k \in Nat \ {0} /\ p \in Nat /\ (m + 1) * k = p + k
  <2>1. k \in Nat \ {0}
    OBVIOUS
  <2> HIDE DEF k
  <2> QED
    BY <2>1, SMT
<1>2. t = [i \in 1 .. p |-> s[((i - 1) % k) + 1]] /\ u = [i \in 1 .. p + k |-> s[((i - 1) % k) + 1]]
  BY <1>1, Zenon DEF Times
<1>3. \A i \in 1 .. k : s[i] \in Work
  OBVIOUS
<1>a. s = [i \in 1 .. k |-> s[i]]
  OBVIOUS
<1> HIDE DEF k, p, t, u
<1>4. \A i \in 1 .. p + k : ((i - 1) % k) + 1 \in 1 .. k
  <2>1. \A i \in 1 .. p + k : i - 1 \in Nat
    BY <1>1
  <2>2. \A i \in 1 .. p + k : (i - 1) % k \in 0 .. k - 1
    BY <1>1, <2>1, ModRange
  <2> QED
    BY <1>1, <2>2
<1>5. t \in Seq(Work) /\ Len(t) = p
  <2>1. t \in [1 .. p -> Work]
    <3>1. \A i \in 1 .. p : i \in 1 .. p + k
      BY <1>1
    <3> QED
      BY <1>2, <1>3, <1>4, <3>1, Zenon
  <2> QED
    BY <1>1, <2>1, WorkSeq, Zenon
<1>6. ASSUME NEW i \in 1 .. k PROVE ((p + i - 1) % k) + 1 = i
  <2> DEFINE j == i - 1
  <2>1. j \in 0 .. k - 1 /\ p + i - 1 = k * m + j /\ p + i - 1 \in Nat
    BY <1>1, SMT DEF p
  <2> HIDE DEF j
  <2>2. (p + i - 1) % k = j
    BY <1>1, <2>1, LowAndHigh
  <2> QED
    BY <2>2 DEF j
<1>7. t \o s = [i \in 1 .. p + k |-> IF i <= p THEN t[i] ELSE s[i - p]]
  <2> DEFINE r == t \o s
  <2>1. r \in Seq(Work) /\ Len(r) = p + k
    BY <1>1, <1>5 DEF k
  <2>2. \A i \in 1 .. p + k : r[i] = IF i <= p THEN t[i] ELSE s[i - p]
    BY <1>1, <1>5 DEF k
  <2> HIDE DEF r
  <2>3. r = [i \in 1 .. p + k |-> r[i]]
    BY <2>1
  <2> QED
    BY <2>2, <2>3, Zenon DEF r
<1>8. \A i \in 1 .. p + k : s[((i - 1) % k) + 1] = IF i <= p THEN t[i] ELSE s[i - p]
  <2> SUFFICES ASSUME NEW i \in 1 .. p + k
               PROVE  s[((i - 1) % k) + 1] = IF i <= p THEN t[i] ELSE s[i - p]
    OBVIOUS
  <2>1. CASE i <= p
    <3>1. i \in 1 .. p
      BY <1>1, <2>1
    <3> QED
      BY <1>2, <2>1, <3>1, Zenon
  <2>2. CASE ~(i <= p)
    <3> DEFINE j == i - p
    <3>1. j \in 1 .. k /\ i - 1 = p + j - 1
      BY <1>1, <2>2
    <3>2. ((i - 1) % k) + 1 = j
      BY <1>6, <3>1
    <3> QED
      BY <2>2, <3>2, Zenon
  <2> QED
    BY <2>1, <2>2
<1>9. u = t \o s
  <2>1. [i \in 1 .. p + k |-> s[((i - 1) % k) + 1]] = [i \in 1 .. p + k |-> IF i <= p THEN t[i] ELSE s[i - p]]
    BY <1>8, Zenon
  <2> QED
    BY <1>2, <1>7, <2>1, Zenon
<1> QED
  BY <1>5, <1>9 DEF t, u

\* The loop: every time that the body is taken brings the lanes six operations on.
LEMMA TakesTimes ==
    ASSUME NEW n \in Nat, NEW it \in Nat, NEW s \in Seq(Work), Len(s) # 0,
           \A i \in 0 .. it - 1 : Takes(s, n, it, 3 + 6 * i, 3 + 6 * (i + 1))
    PROVE  Takes(Times(it, s), n, it, 3, 3 + 6 * it)
<1> DEFINE P == {m \in 0 .. it : Takes(Times(m, s), n, it, 3, 3 + 6 * m)}
<1>1. 0 \in P
  <2> DEFINE t == Times(0, s)
             c == [i \in 0 .. 0 |-> [l \in 0 .. n - 1 |-> 3]]
  <2>1. t \in Seq(Work) /\ Len(t) = 0
    <3>1. Len(s) \in Nat
      OBVIOUS
    <3>2. 0 * Len(s) = 0
      BY <3>1
    <3>3. t = [i \in 1 .. 0 |-> s[((i - 1) % Len(s)) + 1]]
      BY <3>2, Zenon DEF Times
    <3> HIDE DEF t
    <3>4. t \in [1 .. 0 -> Work]
      BY <3>3
    <3> QED
      BY <3>4, WorkSeq
  <2> HIDE DEF t
  <2>2. c[0] = [l \in 0 .. n - 1 |-> 3]
    OBVIOUS
  <2> HIDE DEF c
  <2>3. IsCount(c, t, n, it, 3, 3)
    BY <2>1, <2>2 DEF IsCount
  <2>4. Takes(t, n, it, 3, 3)
    BY <2>1, <2>3, Zenon DEF Takes
  <2>5. 3 + 6 * 0 = 3 /\ 0 \in 0 .. it
    OBVIOUS
  <2>6. Takes(Times(0, s), n, it, 3, 3 + 6 * 0)
    BY <2>4, <2>5, Zenon DEF t
  <2> QED
    BY <2>5, <2>6, Zenon
<1>2. ASSUME NEW m \in 1 .. it, m - 1 \in P PROVE m \in P
  <2> DEFINE j == m - 1
  <2>1. j \in 0 .. it - 1 /\ j \in Nat /\ j + 1 = m /\ m \in 0 .. it
    OBVIOUS
  <2>2. Takes(Times(j, s), n, it, 3, 3 + 6 * j)
    BY <1>2
  <2> HIDE DEF j
  <2>3. Takes(s, n, it, 3 + 6 * j, 3 + 6 * (j + 1))
    BY <2>1
  <2>4. Takes(Times(j, s) \o s, n, it, 3, 3 + 6 * (j + 1))
    BY <2>2, <2>3, TakesThen, Zenon
  <2>5. Times(j + 1, s) = Times(j, s) \o s
    BY <2>1, TimesMore
  <2>6. Takes(Times(m, s), n, it, 3, 3 + 6 * m)
    BY <2>1, <2>4, <2>5, Zenon
  <2> QED
    BY <2>1, <2>6, Zenon
<1> HIDE DEF P
<1>3. \A m \in 0 .. it : m \in P
  BY <1>1, <1>2, Steps
<1>4. it \in P
  BY <1>3
<1> QED
  BY <1>4 DEF P

\* A sequence that takes a lane on is not empty.
LEMMA TakesSome ==
    ASSUME NEW n \in Nat \ {0}, NEW it, NEW d \in Nat, NEW e \in Nat, d # e, NEW s, Takes(s, n, it, d, e)
    PROVE  s \in Seq(Work) /\ Len(s) # 0
<1>1. PICK c : IsCount(c, s, n, it, d, e)
  BY Zenon DEF Takes
<1>2. s \in Seq(Work)
  BY DEF Takes
<1>3. c[0] = [l \in 0 .. n - 1 |-> d] /\ c[Len(s)] = [l \in 0 .. n - 1 |-> e]
  BY <1>1, Zenon DEF IsCount
<1>4. 0 \in 0 .. n - 1
  OBVIOUS
<1>5. c[0][0] = d /\ c[Len(s)][0] = e
  BY <1>3, <1>4
<1> QED
  BY <1>2, <1>5

\* The loops of the kernels.
UnrolledBody(n) == All("load", n) \o All("aes", n) \o All("store", n)
                       \o All("index", n) \o All("shift", n) \o All("multiply", n)
LoopedBody(n) == Each(<<"load", "aes", "store", "index", "shift", "multiply">>, n)

\* A round of the kernels unrolled by hand brings every lane one iteration on.
LEMMA UnrolledIterates ==
    ASSUME NEW n \in Nat \ {0}, NEW it \in Nat, NEW i \in 0 .. it - 1
    PROVE  Takes(UnrolledBody(n), n, it, 3 + 6 * i, 3 + 6 * (i + 1))
<1> DEFINE d == 3 + 6 * i
<1>a. n \in Nat
  OBVIOUS
<1>1. /\ d \in Nat /\ d + 1 \in Nat /\ d + 2 \in Nat /\ d + 3 \in Nat /\ d + 4 \in Nat /\ d + 5 \in Nat
      /\ 3 + 6 * (i + 1) = d + 5 + 1
      /\ d + 1 + 1 = d + 2 /\ d + 2 + 1 = d + 3 /\ d + 3 + 1 = d + 4 /\ d + 4 + 1 = d + 5
  OBVIOUS
<1>2. /\ Doing("load", d, it) /\ Doing("aes", d + 1, it) /\ Doing("store", d + 2, it)
      /\ Doing("index", d + 3, it) /\ Doing("shift", d + 4, it) /\ Doing("multiply", d + 5, it)
  BY DEF Doing
<1> HIDE DEF d
<1>3. Takes(All("load", n), n, it, d, d + 1)
  BY <1>a, <1>1, <1>2, TakesAll
<1>4. Takes(All("aes", n), n, it, d + 1, d + 2)
  BY <1>a, <1>1, <1>2, TakesAll
<1>5. Takes(All("store", n), n, it, d + 2, d + 3)
  BY <1>a, <1>1, <1>2, TakesAll
<1>6. Takes(All("index", n), n, it, d + 3, d + 4)
  BY <1>a, <1>1, <1>2, TakesAll
<1>7. Takes(All("shift", n), n, it, d + 4, d + 5)
  BY <1>a, <1>1, <1>2, TakesAll
<1>8. Takes(All("multiply", n), n, it, d + 5, d + 5 + 1)
  BY <1>a, <1>1, <1>2, TakesAll
<1> DEFINE s1 == All("load", n) \o All("aes", n)
           s2 == s1 \o All("store", n)
           s3 == s2 \o All("index", n)
           s4 == s3 \o All("shift", n)
           s5 == s4 \o All("multiply", n)
<1>9. Takes(s1, n, it, d, d + 2)
  BY <1>a, <1>3, <1>4, TakesThen, Zenon
<1> HIDE DEF s1
<1>10. Takes(s2, n, it, d, d + 3)
  BY <1>a, <1>5, <1>9, TakesThen, Zenon
<1> HIDE DEF s2
<1>11. Takes(s3, n, it, d, d + 4)
  BY <1>a, <1>6, <1>10, TakesThen, Zenon
<1> HIDE DEF s3
<1>12. Takes(s4, n, it, d, d + 5)
  BY <1>a, <1>7, <1>11, TakesThen, Zenon
<1> HIDE DEF s4
<1>13. Takes(s5, n, it, d, d + 5 + 1)
  BY <1>a, <1>8, <1>12, TakesThen, Zenon
<1>14. UnrolledBody(n) = s5
  BY Zenon DEF UnrolledBody, s1, s2, s3, s4
<1> QED
  BY <1>1, <1>13, <1>14, Zenon DEF d

\* So does one of the general kernel.
LEMMA LoopedIterates ==
    ASSUME NEW n \in Nat \ {0}, NEW it \in Nat, NEW i \in 0 .. it - 1
    PROVE  Takes(LoopedBody(n), n, it, 3 + 6 * i, 3 + 6 * (i + 1))
<1> DEFINE d == 3 + 6 * i
           k == 6
           ops == <<"load", "aes", "store", "index", "shift", "multiply">>
<1>1. n \in Nat /\ d \in Nat /\ k \in Nat \ {0} /\ 3 + 6 * (i + 1) = d + k /\ Len(ops) = k
  OBVIOUS
<1>2. /\ Doing("load", d, it) /\ Doing("aes", d + 1, it) /\ Doing("store", d + 2, it)
      /\ Doing("index", d + 3, it) /\ Doing("shift", d + 4, it) /\ Doing("multiply", d + 5, it)
  BY DEF Doing
<1>3. /\ ops[1] = "load" /\ ops[2] = "aes" /\ ops[3] = "store"
      /\ ops[4] = "index" /\ ops[5] = "shift" /\ ops[6] = "multiply"
  OBVIOUS
<1> HIDE DEF d, ops
<1>4. \A j \in 0 .. k - 1 : Doing(ops[j + 1], d + j, it)
  <2> SUFFICES ASSUME NEW j \in 0 .. k - 1 PROVE Doing(ops[j + 1], d + j, it)
    OBVIOUS
  <2>1. CASE j = 0
    BY <1>1, <1>2, <1>3, <2>1
  <2>2. CASE j = 1
    BY <1>2, <1>3, <2>2
  <2>3. CASE j = 2
    BY <1>2, <1>3, <2>3
  <2>4. CASE j = 3
    BY <1>2, <1>3, <2>4
  <2>5. CASE j = 4
    BY <1>2, <1>3, <2>5
  <2>6. CASE j = 5
    BY <1>2, <1>3, <2>6
  <2> QED
    BY <2>1, <2>2, <2>3, <2>4, <2>5, <2>6
<1> HIDE DEF k
<1>5. Takes(Each(ops, n), n, it, d, d + k)
  BY <1>1, <1>4, TakesEach, Zenon
<1> QED
  BY <1>1, <1>5, Zenon DEF LoopedBody, ops, d

\* So the whole loop brings every lane to its end.
LEMMA LoopsTake ==
    ASSUME NEW n \in Nat \ {0}, NEW it \in Nat
    PROVE  /\ Takes(Times(it, UnrolledBody(n)), n, it, 3, 3 + 6 * it)
           /\ Takes(Times(it, LoopedBody(n)), n, it, 3, 3 + 6 * it)
<1> DEFINE z == 0
           one == 1
<1>1. z \in 0 .. one - 1 /\ one \in Nat /\ n \in Nat
  OBVIOUS
<1>2. 3 + 6 * z \in Nat /\ 3 + 6 * (z + 1) \in Nat /\ 3 + 6 * z # 3 + 6 * (z + 1)
  OBVIOUS
<1> HIDE DEF z, one
<1>3. /\ Takes(UnrolledBody(n), n, one, 3 + 6 * z, 3 + 6 * (z + 1))
      /\ Takes(LoopedBody(n), n, one, 3 + 6 * z, 3 + 6 * (z + 1))
  BY <1>1, UnrolledIterates, LoopedIterates
<1>4. /\ UnrolledBody(n) \in Seq(Work) /\ Len(UnrolledBody(n)) # 0
      /\ LoopedBody(n) \in Seq(Work) /\ Len(LoopedBody(n)) # 0
  BY <1>2, <1>3, TakesSome, Zenon
<1>5. \A i \in 0 .. it - 1 : /\ Takes(UnrolledBody(n), n, it, 3 + 6 * i, 3 + 6 * (i + 1))
                              /\ Takes(LoopedBody(n), n, it, 3 + 6 * i, 3 + 6 * (i + 1))
  BY UnrolledIterates, LoopedIterates
<1> QED
  BY <1>1, <1>4, <1>5, TakesTimes, Zenon

\* The kernels unrolled by hand take every lane through all operations.
LEMMA UnrolledTakes ==
    ASSUME NEW n \in Nat \ {0}, NEW it \in Nat
    PROVE  Takes(Unrolled(n, it), n, it, 0, 6 + 6 * it)
<1> DEFINE e == 3 + 6 * it
<1>1. /\ n \in Nat /\ 0 \in Nat /\ 1 \in Nat /\ 2 \in Nat /\ 0 + 1 = 1 /\ 1 + 1 = 2 /\ 2 + 1 = 3
      /\ e \in Nat /\ e + 1 \in Nat /\ e + 2 \in Nat /\ e + 1 + 1 = e + 2 /\ e + 2 + 1 = 6 + 6 * it
  OBVIOUS
<1>2. /\ Doing("keccak", 0, it) /\ Doing("explode", 1, it) /\ Doing("registers", 2, it)
      /\ Doing("implode", e, it) /\ Doing("keccakf", e + 1, it) /\ Doing("extra", e + 2, it)
  BY DEF Doing
<1> HIDE DEF e
<1>3. Takes(All("keccak", n), n, it, 0, 1)
  BY <1>1, <1>2, TakesAll, Zenon
<1>4. Takes(All("explode", n), n, it, 1, 2)
  BY <1>1, <1>2, TakesAll, Zenon
<1>5. Takes(All("registers", n), n, it, 2, 3)
  BY <1>1, <1>2, TakesAll, Zenon
<1>6. Takes(Times(it, UnrolledBody(n)), n, it, 3, e)
  BY LoopsTake, Zenon DEF e
<1>7. Takes(All("implode", n), n, it, e, e + 1)
  BY <1>1, <1>2, TakesAll, Zenon
<1>8. Takes(All("keccakf", n), n, it, e + 1, e + 2)
  BY <1>1, <1>2, TakesAll, Zenon
<1>9. Takes(All("extra", n), n, it, e + 2, 6 + 6 * it)
  BY <1>1, <1>2, TakesAll, Zenon
<1> DEFINE s1 == All("keccak", n) \o All("explode", n)
           s2 == s1 \o All("registers", n)
           s3 == s2 \o Times(it, UnrolledBody(n))
           s4 == s3 \o All("implode", n)
           s5 == s4 \o All("keccakf", n)
           s6 == s5 \o All("extra", n)
<1>10. Takes(s1, n, it, 0, 2)
  BY <1>1, <1>3, <1>4, TakesThen, Zenon
<1> HIDE DEF s1
<1>11. Takes(s2, n, it, 0, 3)
  BY <1>1, <1>5, <1>10, TakesThen, Zenon
<1> HIDE DEF s2
<1>12. Takes(s3, n, it, 0, e)
  BY <1>1, <1>6, <1>11, TakesThen, Zenon
<1> HIDE DEF s3
<1>13. Takes(s4, n, it, 0, e + 1)
  BY <1>1, <1>7, <1>12, TakesThen, Zenon
<1> HIDE DEF s4
<1>14. Takes(s5, n, it, 0, e + 2)
  BY <1>1, <1>8, <1>13, TakesThen, Zenon
<1> HIDE DEF s5
<1>15. Takes(s6, n, it, 0, 6 + 6 * it)
  BY <1>1, <1>9, <1>14, TakesThen, Zenon
<1>16. Unrolled(n, it) = s6
  BY Zenon DEF Unrolled, UnrolledBody, s1, s2, s3, s4, s5
<1> QED
  BY <1>15, <1>16, Zenon

\* So does the general kernel.
LEMMA LoopedTakes ==
    ASSUME NEW n \in Nat \ {0}, NEW it \in Nat
    PROVE  Takes(Looped(n, it), n, it, 0, 6 + 6 * it)
<1> DEFINE e == 3 + 6 * it
           two == 2
           three == 3
           start == <<"explode", "registers">>
           end == <<"implode", "keccakf", "extra">>
<1>1. /\ n \in Nat /\ 0 \in Nat /\ 1 \in Nat /\ 0 + 1 = 1 /\ 1 + two = 3 /\ e \in Nat
      /\ e + three = 6 + 6 * it /\ two \in Nat \ {0} /\ three \in Nat \ {0}
      /\ Len(start) = two /\ Len(end) = three
  OBVIOUS
<1>2. /\ Doing("keccak", 0, it) /\ Doing("explode", 1, it) /\ Doing("registers", 2, it)
      /\ Doing("implode", e, it) /\ Doing("keccakf", e + 1, it) /\ Doing("extra", e + 2, it)
  BY DEF Doing
<1>3. /\ start[1] = "explode" /\ start[2] = "registers"
      /\ end[1] = "implode" /\ end[2] = "keccakf" /\ end[3] = "extra"
  OBVIOUS
<1> HIDE DEF e, start, end
<1>4. \A j \in 0 .. two - 1 : Doing(start[j + 1], 1 + j, it)
  <2> SUFFICES ASSUME NEW j \in 0 .. two - 1 PROVE Doing(start[j + 1], 1 + j, it)
    OBVIOUS
  <2>1. CASE j = 0
    BY <1>2, <1>3, <2>1
  <2>2. CASE j = 1
    BY <1>2, <1>3, <2>2
  <2> QED
    BY <2>1, <2>2
<1>5. \A j \in 0 .. three - 1 : Doing(end[j + 1], e + j, it)
  <2> SUFFICES ASSUME NEW j \in 0 .. three - 1 PROVE Doing(end[j + 1], e + j, it)
    OBVIOUS
  <2>1. CASE j = 0
    BY <1>1, <1>2, <1>3, <2>1
  <2>2. CASE j = 1
    BY <1>2, <1>3, <2>2
  <2>3. CASE j = 2
    BY <1>2, <1>3, <2>3
  <2> QED
    BY <2>1, <2>2, <2>3
<1> HIDE DEF two, three
<1>6. Takes(All("keccak", n), n, it, 0, 1)
  BY <1>1, <1>2, TakesAll, Zenon
<1>7. Takes(Each(start, n), n, it, 1, 3)
  BY <1>1, <1>4, TakesEach, Zenon
<1>8. Takes(Times(it, LoopedBody(n)), n, it, 3, e)
  BY LoopsTake, Zenon DEF e
<1>9. Takes(Each(end, n), n, it, e, 6 + 6 * it)
  BY <1>1, <1>5, TakesEach, Zenon
<1> DEFINE s1 == All("keccak", n) \o Each(start, n)
           s2 == s1 \o Times(it, LoopedBody(n))
           s3 == s2 \o Each(end, n)
<1>10. Takes(s1, n, it, 0, 3)
  BY <1>1, <1>6, <1>7, TakesThen, Zenon
<1> HIDE DEF s1
<1>11. Takes(s2, n, it, 0, e)
  BY <1>1, <1>8, <1>10, TakesThen, Zenon
<1> HIDE DEF s2
<1>12. Takes(s3, n, it, 0, 6 + 6 * it)
  BY <1>1, <1>9, <1>11, TakesThen, Zenon
<1>13. Looped(n, it) = s3
  BY Zenon DEF Looped, LoopedBody, Each, start, end, s1, s2
<1> QED
  BY <1>12, <1>13, Zenon

-----------------------------------------------------------------------------
(* The kernels of a build *)

\* The build whose hash function for hardware AES is compiled out.
Hollow == conf.arch = "armv7" /\ conf.aesni

\* Every other build has a kernel for every number of lanes, and it takes every lane
\* through all its operations.
LEMMA KernelTakes ==
    ASSUME conf \in [arch : Archs, aesni : BOOLEAN, algo : Algos], ~Hollow, NEW n \in Nat \ {0}
    PROVE  Takes(Kernel(conf, n), n, Iterations[conf.algo], 0, 6 + 6 * Iterations[conf.algo])
<1> DEFINE it == Iterations[conf.algo]
<1>1. it \in Nat
  BY Counts
<1> HIDE DEF it
<1>2. Takes(Unrolled(n, it), n, it, 0, 6 + 6 * it) /\ Takes(Looped(n, it), n, it, 0, 6 + 6 * it)
  BY <1>1, UnrolledTakes, LoopedTakes
<1>3. arm_kernel(n, it) \in {Unrolled(n, it), Looped(n, it)}
  BY DEF arm_kernel, arm_hash1, arm_hash2, arm_hash3, arm_hash4, arm_hash5, arm_hashN
<1>4. x86_kernel(n, it) \in {Unrolled(n, it), Looped(n, it)}
  BY DEF x86_kernel, x86_hash1, x86_hash2, x86_hash3, x86_hash4, x86_hash5, x86_hashN
<1>5. Kernel(conf, n) \in {Unrolled(n, it), Looped(n, it)}
  BY <1>3, <1>4, Zenon DEF Kernel, Hollow, it
<1>6. Takes(Kernel(conf, n), n, it, 0, 6 + 6 * it)
  BY <1>2, <1>5
<1> QED
  BY <1>6 DEF it

\* Only the hash function for hardware AES on ARMv7 is empty.
LEMMA OnlyHollowIsEmpty ==
    ASSUME conf \in [arch : Archs, aesni : BOOLEAN, algo : Algos], NEW n \in Nat \ {0}
    PROVE  Kernel(conf, n) = <<>> <=> Hollow
<1>1. CASE Hollow
  BY <1>1, Zenon DEF Kernel, Hollow
<1>2. CASE ~Hollow
  <2> DEFINE e == 6 + 6 * Iterations[conf.algo]
             s == Kernel(conf, n)
             z == 0
  <2>1. z \in Nat /\ e \in Nat /\ z # e
    BY Counts
  <2>2. Takes(s, n, Iterations[conf.algo], z, e)
    BY <1>2, KernelTakes
  <2> HIDE DEF e, s, z
  <2>3. Len(s) # 0
    BY <2>1, <2>2, TakesSome
  <2>4. s # <<>>
    BY <2>3
  <2> QED
    BY <1>2, <2>4 DEF s
<1> QED
  BY <1>1, <1>2

\* How many operations each lane of the running kernel has made before every step.
Progress ==
    CHOOSE c : IsCount(c, Kernel(conf, factor), factor, Iterations[conf.algo],
                       0, 6 + 6 * Iterations[conf.algo])

\* Every lane of the kernel that runs is where the standard is.
LanesRun == pc <= Len(Kernel(conf, factor)) + 1
            /\ \A l \in 0 .. factor - 1 : LaneHas(Progress[pc - 1][l], l)

\* An empty function leaves the buffer as it was, so the first comparison fails and
\* no later one makes up for it.
HollowFails ==
    Hollow => /\ phase \in {"test", "failed"}
              /\ \A l \in Lanes : output[l] = Junk
              /\ factor > 1 => ~passed

\* Every other build passes.
WorkingPasses ==
    ~Hollow => /\ phase # "failed" /\ passed
               /\ phase \in {"test", "mine"} => LanesRun

\* The inductive invariant.
KernelInv ==
    /\ KernelShape
    /\ phase \in {"test", "idle", "mine", "failed"}
    /\ factor \in 1 .. MaxHashBlocks
    /\ passed \in BOOLEAN
    /\ pc \in Nat \ {0}
    /\ phase = "test" => input = [l \in Lanes |-> TestInput(l)]
    /\ HollowFails
    /\ WorkingPasses

\* What is counted.
LEMMA ProgressCounts ==
    ASSUME conf \in [arch : Archs, aesni : BOOLEAN, algo : Algos], factor \in 1 .. MaxHashBlocks, ~Hollow
    PROVE  /\ IsCount(Progress, Kernel(conf, factor), factor, Iterations[conf.algo],
                      0, 6 + 6 * Iterations[conf.algo])
           /\ Kernel(conf, factor) \in Seq(Work)
<1>1. factor \in Nat \ {0}
  BY Counts
<1> QED
  BY <1>1, KernelTakes, Zenon DEF Takes, Progress

\* A kernel starts with lanes that have made no operation.
LEMMA LanesStart ==
    ASSUME KernelShape, factor \in 1 .. MaxHashBlocks, pc = 1, ~Hollow
    PROVE  LanesRun
<1>1. conf \in [arch : Archs, aesni : BOOLEAN, algo : Algos]
  BY DEF KernelShape
<1>2. /\ Progress[0] = [l \in 0 .. factor - 1 |-> 0]
      /\ Kernel(conf, factor) \in Seq(Work)
  BY <1>1, ProgressCounts, Zenon DEF IsCount
<1>3. \A l \in 0 .. factor - 1 : Progress[pc - 1][l] = 0
  BY <1>2
<1>4. Iterations[conf.algo] \in Nat
  BY <1>1, Counts
<1>5. \A l : LaneHas(0, l)
  BY <1>4 DEF LaneHas, LaneAt
<1>6. pc <= Len(Kernel(conf, factor)) + 1
  BY <1>2
<1> QED
  BY <1>3, <1>5, <1>6, Zenon DEF LanesRun

\* A kernel that returns has brought its lanes to the end.
LEMMA LanesEnd ==
    ASSUME KernelShape, factor \in 1 .. MaxHashBlocks, pc \in Nat \ {0}, ~Hollow, LanesRun,
           pc > Len(Kernel(conf, factor))
    PROVE  \A l \in 0 .. factor - 1 : output[l] = CnHash(input[l], conf.algo)
<1> DEFINE s == Kernel(conf, factor)
           e == 6 + 6 * Iterations[conf.algo]
<1>1. conf \in [arch : Archs, aesni : BOOLEAN, algo : Algos]
  BY DEF KernelShape
<1>2. Progress[Len(s)] = [l \in 0 .. factor - 1 |-> e] /\ s \in Seq(Work)
  BY <1>1, ProgressCounts, Zenon DEF IsCount
<1>3. pc - 1 = Len(s)
  BY <1>2 DEF LanesRun
<1>4. \A l \in 0 .. factor - 1 : LaneHas(Progress[Len(s)][l], l)
  BY <1>3, Zenon DEF LanesRun
<1> HIDE DEF s, e
<1>5. \A l \in 0 .. factor - 1 : LaneHas(e, l)
  BY <1>2, <1>4
<1>6. \A l \in 0 .. factor - 1 : LaneHas(e, l) => output[l] = CnHash(input[l], conf.algo)
  BY Zenon DEF LaneHas, LaneAt, e
<1> QED
  BY <1>5, <1>6, Zenon

\* The test begins with the first kernel and a buffer that nothing was written to.
LEMMA KernelStart == Init => KernelInv
<1> SUFFICES ASSUME Init PROVE KernelInv
  OBVIOUS
<1>1. \A l \in Lanes : output[l] = Junk
  BY DEF Init
<1>2. conf \in [arch : Archs, aesni : BOOLEAN, algo : Algos]
  BY DEF Init
<1>3. KernelShape
  <2>1. input \in [Lanes -> Inputs]
    BY DEF Init, Inputs
  <2>2. \A l \in Lanes : IsReg(reg[l])
    BY DEF Init, IsReg
  <2>3. IsMemory(memory, MaxHashBlocks, Cells[conf.algo])
    <3> DEFINE size == MaxHashBlocks * Cells[conf.algo]
    <3>1. memory = [a \in 0 .. size - 1 |-> Zero]
      BY Zenon DEF Init
    <3> HIDE DEF size
    <3>2. memory = [a \in 0 .. size - 1 |-> memory[a]]
      BY <3>1
    <3> QED
      BY <3>2 DEF IsMemory, size
  <2>4. state = [l \in Lanes |-> state[l]] /\ output = [l \in Lanes |-> output[l]] /\ reg = [l \in Lanes |-> reg[l]]
    BY DEF Init
  <2> QED
    BY <1>2, <2>1, <2>2, <2>3, <2>4 DEF KernelShape
<1>4. factor = 1 /\ factor \in 1 .. MaxHashBlocks /\ pc = 1 /\ phase = "test" /\ passed = TRUE
  BY CryptoNightAssumption DEF Init
<1>5. ~Hollow => LanesRun
  BY <1>3, <1>4, LanesStart
<1>6. input = [l \in Lanes |-> TestInput(l)]
  BY DEF Init
<1> QED
  BY <1>1, <1>3, <1>4, <1>5, <1>6 DEF KernelInv, HollowFails, WorkingPasses

\* A step of a kernel brings one lane on.
LEMMA KernelStep ==
    ASSUME KernelInv, Step
    PROVE  ~Hollow /\ KernelShape' /\ LanesRun'
<1>1. KernelShape /\ factor \in 1 .. MaxHashBlocks /\ pc \in Nat \ {0} /\ Running
  BY DEF KernelInv, Step
<1>2. conf \in [arch : Archs, aesni : BOOLEAN, algo : Algos]
  BY <1>1 DEF KernelShape
<1>3. ~Hollow
  <2> SUFFICES ASSUME Hollow PROVE FALSE
    OBVIOUS
  <2>1. Kernel(conf, factor) = <<>>
    BY DEF Kernel, Hollow
  <2>2. Len(Kernel(conf, factor)) = 0
    BY <2>1
  <2> QED
    BY <1>1, <2>2 DEF Running
<1>4. LanesRun
  BY <1>1, <1>3 DEF KernelInv, WorkingPasses, Running
<1> DEFINE s == Kernel(conf, factor)
           n == factor
           it == Iterations[conf.algo]
           c == Progress
<1>5. IsCount(c, s, n, it, 0, 6 + 6 * it) /\ s \in Seq(Work)
  BY <1>1, <1>2, <1>3, ProgressCounts
<1>6. /\ pc' = pc + 1 /\ UNCHANGED <<conf, input, phase, factor>>
      /\ \E op, l : op = s[pc][1] /\ l = s[pc][2] /\ Operate(op, l)
  BY Zenon DEF Step, Operate
<1>7. c' = c /\ s' = s
  BY <1>6 DEF Progress
<1> HIDE DEF s, c, it
<1>8. pc \in 1 .. Len(s) /\ pc - 1 \in 0 .. Len(s) /\ Len(s) \in Nat
  BY <1>1, <1>5 DEF Running, s
<1>9. PICK l \in 0 .. n - 1 : /\ s[pc][2] = l /\ Doing(s[pc][1], c[pc - 1][l], it)
                              /\ c[pc] = [c[pc - 1] EXCEPT ![l] = c[pc - 1][l] + 1]
  BY <1>5, <1>8, Zenon DEF IsCount
<1>10. c[pc - 1] \in [0 .. n - 1 -> Nat]
  BY <1>5, <1>8, Zenon DEF IsCount
<1> DEFINE op == s[pc][1]
           d == c[pc - 1][l]
<1>11. \A k \in 0 .. n - 1 : k \in Lanes
  BY <1>1, <1>2, Counts
<1>12. l \in Lanes /\ d \in Nat /\ Operate(op, l) /\ Doing(op, d, it) /\ LaneHas(d, l)
  <2>1. l \in Lanes /\ d \in Nat
    BY <1>10, <1>11
  <2>2. Operate(op, l) /\ Doing(op, d, it)
    BY <1>6, <1>9, Zenon
  <2>3. LaneHas(d, l)
    BY <1>4, Zenon DEF LanesRun, c
  <2> QED
    BY <2>1, <2>2, <2>3
<1> HIDE DEF op, d
<1>13. /\ LaneGets(d + 1, l)
       /\ \A k \in Lanes : k # l => Stays(k)
       /\ KernelShape'
  BY <1>1, <1>6, <1>12, LaneMoves DEF it
<1>14. ASSUME NEW k \in 0 .. n - 1 PROVE LaneGets(c[pc][k], k)
  <2>1. CASE k = l
    <3>1. c[pc][k] = d + 1
      BY <1>9, <1>10, <2>1 DEF d
    <3> QED
      BY <1>13, <2>1, <3>1
  <2>2. CASE k # l
    <3>1. c[pc][k] = c[pc - 1][k]
      BY <1>9, <1>10, <2>2
    <3>2. LaneHas(c[pc - 1][k], k)
      BY <1>4, Zenon DEF LanesRun, c
    <3>3. Stays(k)
      BY <1>11, <1>13, <2>2
    <3>4. LaneGets(c[pc - 1][k], k)
      BY <1>6, <3>2, <3>3, LaneStays
    <3> QED
      BY <3>1, <3>4
  <2> QED
    BY <2>1, <2>2
<1>15. LanesRun'
  <2>1. pc' - 1 = pc /\ pc' <= Len(s) + 1 /\ factor' = factor
    BY <1>1, <1>6, <1>8
  <2>2. c' = c /\ s' = s
    BY <1>7
  <2>3. \A k \in 0 .. factor' - 1 : LaneGets(c'[pc' - 1][k], k)
    BY <1>14, <2>1, <2>2, Zenon
  <2> QED
    BY <2>1, <2>2, <2>3, Zenon DEF LanesRun, LaneHas, LaneGets, c, s
<1> QED
  BY <1>3, <1>13, <1>15

\* A kernel that starts.
Starts == KernelShape /\ factor \in 1 .. MaxHashBlocks /\ pc = 1 /\ ~Hollow

\* A step that starts a kernel leads to lanes that have made no operation.
LEMMA NextStarts == Starts' => LanesRun'
<1>1. Starts => LanesRun
  BY LanesStart DEF Starts
<1> QED
  BY <1>1, PTL

\* A step that leaves the shape's variables alone leaves the shape.
LEMMA ShapeKept ==
    ASSUME KernelShape, UNCHANGED <<conf, state, memory, reg, output>>, input' \in [Lanes -> Inputs]
    PROVE  KernelShape'
<1>1. \A l \in Lanes : IsReg(reg'[l])
  BY DEF KernelShape
<1> QED
  BY <1>1 DEF KernelShape, IsReg, Lanes

\* Every step keeps what is known of the test.
LEMMA KernelNext == KernelInv /\ [Next]_vars => KernelInv'
<1> SUFFICES ASSUME KernelInv, [Next]_vars PROVE KernelInv'
  OBVIOUS
<1>a. /\ KernelShape /\ factor \in 1 .. MaxHashBlocks /\ pc \in Nat \ {0} /\ passed \in BOOLEAN
      /\ phase \in {"test", "idle", "mine", "failed"}
      /\ HollowFails /\ WorkingPasses
      /\ phase = "test" => input = [l \in Lanes |-> TestInput(l)]
  BY DEF KernelInv
<1>b. conf \in [arch : Archs, aesni : BOOLEAN, algo : Algos] /\ input \in [Lanes -> Inputs]
  BY <1>a DEF KernelShape
<1>1. CASE UNCHANGED vars
  <2>1. UNCHANGED <<conf, phase, factor, passed, input, pc, state, memory, reg, output>>
    BY <1>1 DEF vars
  <2>2. KernelShape'
    BY <1>a, <1>b, <2>1, ShapeKept
  <2>3. HollowFails'
    BY <1>a, <2>1 DEF HollowFails, Hollow
  <2>4. LanesRun => LanesRun'
    BY <2>1 DEF LanesRun, LaneHas, Progress
  <2>5. WorkingPasses'
    BY <1>a, <2>1, <2>4 DEF WorkingPasses, Hollow
  <2> QED
    BY <1>a, <2>1, <2>2, <2>3, <2>5 DEF KernelInv
<1>2. CASE Step
  <2>1. ~Hollow /\ KernelShape' /\ LanesRun'
    BY <1>2, KernelStep
  <2>2. /\ pc' = pc + 1
        /\ conf' = conf /\ phase' = phase /\ factor' = factor /\ passed' = passed /\ input' = input
    BY <1>2 DEF Step
  <2>3. ~Hollow'
    BY <2>1, <2>2 DEF Hollow
  <2> QED
    BY <1>a, <2>1, <2>2, <2>3 DEF KernelInv, HollowFails, WorkingPasses
<1>3. CASE selfTest
  <2>1. /\ UNCHANGED <<conf, input, state, memory, reg, output>>
        /\ phase = "test" /\ Returned /\ passed' = (passed /\ Matches)
    BY <1>3 DEF selfTest
  <2>2. KernelShape' /\ passed' \in BOOLEAN /\ (Hollow' <=> Hollow)
    BY <1>a, <1>b, <2>1, ShapeKept DEF Hollow
  <2>3. Hollow => ~passed'
    <3> SUFFICES ASSUME Hollow PROVE ~passed'
      OBVIOUS
    <3>1. CASE factor > 1
      BY <1>a, <2>1, <3>1 DEF HollowFails
    <3>2. CASE factor = 1
      <4>1. 0 \in Lanes /\ 0 \in 0 .. factor - 1
        BY <3>2, CryptoNightAssumption DEF Lanes
      <4>2. output[0] = Junk
        BY <1>a, <4>1 DEF HollowFails
      <4>3. CnHash(TestInput(0), conf.algo) # Junk
        <5>1. TestInput(0) = 0
          BY DEF TestInput
        <5>2. conf.algo \in Algos
          BY <1>b
        <5> QED
          BY <5>1, <5>2, DigestAssumption
      <4> QED
        BY <2>1, <4>1, <4>2, <4>3 DEF Matches
    <3> QED
      BY <1>a, <3>1, <3>2
  <2>4. ~Hollow => passed'
    <3> SUFFICES ASSUME ~Hollow PROVE passed'
      OBVIOUS
    <3>1. passed /\ LanesRun
      BY <1>a, <2>1 DEF WorkingPasses
    <3>2. pc > Len(Kernel(conf, factor))
      BY <2>1 DEF Returned
    <3>3. \A l \in 0 .. factor - 1 : output[l] = CnHash(input[l], conf.algo)
      BY <1>a, <3>1, <3>2, LanesEnd
    <3>4. \A l \in 0 .. factor - 1 : input[l] = TestInput(l)
      <4>1. \A l \in 0 .. factor - 1 : l \in Lanes
        BY <1>a, <1>b, Counts
      <4> QED
        BY <1>a, <2>1, <4>1
    <3>5. Matches
      BY <3>3, <3>4, Zenon DEF Matches
    <3> QED
      BY <2>1, <3>1, <3>5
  <2>5. HollowFails' <=> (Hollow => /\ phase' \in {"test", "failed"}
                                    /\ \A l \in Lanes : output'[l] = Junk
                                    /\ factor' > 1 => ~passed')
    BY <2>2 DEF HollowFails, Lanes
  <2>6. Hollow => \A l \in Lanes : output'[l] = Junk
    BY <1>a, <2>1 DEF HollowFails
  <2>7. CASE factor < 5 /\ factor' = factor + 1 /\ pc' = 1 /\ UNCHANGED phase
    <3>1. factor' \in 1 .. MaxHashBlocks /\ pc' = 1 /\ phase' = "test"
      BY <1>a, <2>1, <2>7, CryptoNightAssumption
    <3>2. ~Hollow => LanesRun'
      BY <2>2, <3>1, NextStarts DEF Starts
    <3>3. HollowFails'
      BY <2>3, <2>5, <2>6, <3>1
    <3>4. WorkingPasses'
      BY <2>2, <2>4, <3>1, <3>2 DEF WorkingPasses
    <3>5. input' = [l \in Lanes |-> TestInput(l)]
      BY <1>a, <2>1
    <3> QED
      BY <2>2, <3>1, <3>3, <3>4, <3>5 DEF KernelInv, Lanes, TestInput
  <2>8. CASE /\ factor = 5
             /\ phase' = IF passed' THEN "idle" ELSE "failed"
             /\ UNCHANGED <<factor, pc>>
    <3>1. factor' \in 1 .. MaxHashBlocks /\ pc' \in Nat \ {0} /\ phase' \in {"idle", "failed"}
      BY <1>a, <2>8
    <3>2. HollowFails'
      BY <2>3, <2>5, <2>6, <2>8
    <3>3. WorkingPasses'
      BY <2>2, <2>4, <2>8 DEF WorkingPasses
    <3> QED
      BY <2>2, <3>1, <3>2, <3>3 DEF KernelInv
  <2> QED
    BY <1>3, <2>7, <2>8 DEF selfTest
<1>4. ASSUME NEW n \in 1 .. MaxHashBlocks, NEW nonce \in Nonces, hash(n, nonce)
      PROVE  KernelInv'
  <2>1. /\ phase = "idle" /\ phase' = "mine" /\ factor' = n /\ pc' = 1
        /\ input' = [l \in Lanes |-> nonce + l] /\ passed' = passed
        /\ UNCHANGED <<conf, state, memory, reg, output>>
    BY <1>4 DEF hash
  <2>2. ~Hollow /\ ~Hollow' /\ passed
    BY <1>a, <2>1 DEF HollowFails, WorkingPasses, Hollow
  <2>3. input' \in [Lanes -> Inputs]
    BY <2>1 DEF Inputs
  <2>4. KernelShape'
    BY <1>a, <2>1, <2>3, ShapeKept
  <2>5. factor' \in 1 .. MaxHashBlocks
    BY <2>1
  <2>6. LanesRun'
    BY <2>1, <2>2, <2>4, <2>5, NextStarts DEF Starts
  <2> QED
    BY <1>a, <2>1, <2>2, <2>4, <2>5, <2>6 DEF KernelInv, HollowFails, WorkingPasses
<1> QED
  BY <1>1, <1>2, <1>3, <1>4 DEF Next

\* What is known of the test holds in every state.
LEMMA KernelInvariant == Spec => []KernelInv
  BY KernelStart, KernelNext, PTL DEF Spec

\* Whatever the builds, the number of lanes, the sizes of the scratchpads, the number of
\* iterations and the ciphers: when a kernel returns, every lane of the output is the
\* CryptoNight hash of that lane's own input, also on a context full of what earlier
\* kernels left (CryptoNight.cpp:76).
THEOREM LanesAgreeHolds == Spec => []LanesAgree
<1>1. KernelInv => LanesAgree
  <2> SUFFICES ASSUME KernelInv, Returned, Kernel(conf, factor) # <<>>
               PROVE  \A l \in 0 .. factor - 1 : output[l] = CnHash(input[l], conf.algo)
    BY DEF LanesAgree
  <2>1. /\ KernelShape /\ factor \in 1 .. MaxHashBlocks /\ pc \in Nat \ {0}
        /\ conf \in [arch : Archs, aesni : BOOLEAN, algo : Algos]
    BY DEF KernelInv, KernelShape
  <2>2. factor \in Nat \ {0}
    BY <2>1, CryptoNightAssumption
  <2>3. ~Hollow
    BY <2>1, <2>2, OnlyHollowIsEmpty
  <2>4. LanesRun /\ pc > Len(Kernel(conf, factor))
    BY <2>3 DEF KernelInv, WorkingPasses, Returned
  <2> QED
    BY <2>1, <2>3, <2>4, LanesEnd
<1> QED
  BY <1>1, KernelInvariant, PTL

\* A worker never mines with a hash function that does nothing, whatever the builds,
\* the scratchpads and the ciphers: the comparison with the published hashes stops
\* such a build at the first kernel (CryptoNight.cpp:110, App.cpp:169).
THEOREM WorkingKernelHolds == Spec => []WorkingKernel
<1>1. KernelInv => WorkingKernel
  <2>1. KernelInv => conf \in [arch : Archs, aesni : BOOLEAN, algo : Algos]
    BY DEF KernelInv, KernelShape
  <2>2. KernelInv => (Kernel(conf, 1) = <<>> <=> Hollow)
    BY <2>1, OnlyHollowIsEmpty
  <2> QED
    BY <2>2 DEF KernelInv, HollowFails, WorkingKernel
<1> QED
  BY <1>1, KernelInvariant, PTL

\* The self test stops that build and no other: every kernel of every other build
\* returns the published hashes (CryptoNight.cpp:110, App.cpp:169).
THEOREM OnlyWorkingKernelsHolds == Spec => []OnlyWorkingKernels
<1>1. KernelInv => OnlyWorkingKernels
  <2>1. KernelInv => conf \in [arch : Archs, aesni : BOOLEAN, algo : Algos]
    BY DEF KernelInv, KernelShape
  <2>2. KernelInv => (Kernel(conf, 1) = <<>> <=> Hollow)
    BY <2>1, OnlyHollowIsEmpty
  <2> QED
    BY <2>2 DEF KernelInv, HollowFails, WorkingPasses, OnlyWorkingKernels, WorkingKernel
<1> QED
  BY <1>1, KernelInvariant, PTL

=============================================================================
