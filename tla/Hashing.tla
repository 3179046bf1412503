------------------------------ MODULE Hashing ------------------------------
(***************************************************************************)
(* Calls of the digests and of the round functions, against their          *)
(* definitions: the padding rules of Keccak, BLAKE, Groestl, JH and Skein  *)
(* stated on the whole message, and the round functions stated on bits,    *)
(* bytes and words without tables, renaming or work in place.              *)
(***************************************************************************)
EXTENDS Digests, Primitives

CONSTANTS Lengths,      \* message lengths in bytes
          Rests,        \* bits behind the last byte, for the digests that take bits
          KeyLengths,   \* HMAC keys
          Rounds        \* rounds of a primitive that are looked at

ASSUME HashingAssumption ==
    /\ Lengths \subseteq Nat /\ KeyLengths \subseteq Nat
    /\ Rests \subseteq 0 .. 7
    /\ Rounds \subseteq 0 .. 17

VARIABLES call,     \* the function called and its arguments
          stage,    \* "idle", "init", "update" or "done"
          ctx       \* its context, or what it returned

vars == <<call, stage, ctx>>

Digesters == [fn : {"keccak"}, n : Lengths, md : {32, 64, 200}]
       \cup [fn : {"blake"}, n : Lengths, md : {224, 256}]
       \cup [fn : {"hmac"}, n : Lengths, md : {224, 256}, key : KeyLengths]
       \cup [fn : {"groestl", "jh", "skein"}, n : Lengths, r : Rests]

Bit == {0, 1}

Primitive == [fn : {"linear", "iota", "keyassist", "swaps", "F512", "output"}]
       \cup [fn : {"chi"}, x : [0 .. 4 -> Bit]]
       \cup [fn : {"aesenc"}, w : 0 .. 3, b : 0 .. 3]
       \cup [fn : {"sbox"}, x : [1 .. 8 -> Bit], c : [0 .. 1 -> Bit]]
       \cup [fn : {"mds"}, x : [1 .. 8 -> Bit]]
       \cup [fn : {"P", "Q"}, k : 0 .. 7, i : 0 .. 7]
       \cup [fn : {"threefish", "blakeround"}, R : Rounds]

NoCall == [fn |-> "none"]

Key(n) == [i \in 1 .. n |-> <<"key", i>>]
Lanes  == [i \in 0 .. 24 |-> {<<i, 0>>}]
Row    == <<[p \in 0 .. 63 |-> p], [p \in 0 .. 63 |-> 64 + p]>>
Words(n) == [i \in 0 .. n |-> <<"x", i>>]
Bytes(w) == [b \in 1 .. 4 |-> <<w, b>>]

Init == call = NoCall /\ stage = "idle" /\ ctx = <<>>

\* The Init of a digest.  keccak has no context and is one call.
Start(c) ==
    /\ stage = "idle"
    /\ call' = c
    /\ stage' = IF c.fn = "keccak" THEN "done" ELSE "init"
    /\ ctx' = CASE c.fn = "keccak"  -> keccak(Message(c.n), c.md)
                [] c.fn = "blake"   -> blake_init(c.md)
                [] c.fn = "hmac"    -> hmac_init(Key(c.key), c.md)
                [] c.fn = "groestl" -> groestl_init
                [] c.fn = "jh"      -> jh_init
                [] c.fn = "skein"   -> Skein_512_Init(256)

Update ==
    /\ stage = "init"
    /\ stage' = "update"
    /\ ctx' = CASE call.fn = "blake"   -> blake_update(ctx, Message(call.n))
                [] call.fn = "hmac"    -> hmac_update(ctx, Message(call.n))
                [] call.fn = "groestl" -> groestl_update(ctx, Message(call.n), Data(0), call.r)
                [] call.fn = "jh"      -> jh_update(ctx, Message(call.n), Data(0), call.r)
                [] call.fn = "skein"   -> skein_update(ctx, Message(call.n), Data(0), call.r)
    /\ UNCHANGED call

Final ==
    /\ stage = "update"
    /\ stage' = "done"
    /\ ctx' = CASE call.fn = "blake"   -> blake_final(ctx, call.md)
                [] call.fn = "hmac"    -> hmac_final(ctx, call.md)
                [] call.fn = "groestl" -> groestl_final(ctx)
                [] call.fn = "jh"      -> jh_final(ctx)
                [] call.fn = "skein"   -> Skein_512_Final(ctx)
    /\ UNCHANGED call

\* A round function on symbols, bits or words.
Apply(c) ==
    /\ stage = "idle"
    /\ call' = c
    /\ stage' = "done"
    /\ ctx' = CASE c.fn = "linear"     -> RhoPi(Theta(Lanes))
                [] c.fn = "chi"        -> Chi(c.x)
                [] c.fn = "iota"       -> keccakf_rndc
                [] c.fn = "aesenc"     -> soft_aesenc(c.w, c.b)
                [] c.fn = "keyassist"  -> soft_aeskeygenassist(Bytes(1), Bytes(3))
                [] c.fn = "sbox"       -> SS(c.x, c.c[0], c.c[1])
                [] c.fn = "mds"        -> MDS(c.x)
                [] c.fn = "swaps"      -> Swaps(Row)
                [] c.fn = "P"          -> COLUMN([j \in 0 .. 7 |-> RND512P(c.k, j)], c.i)
                [] c.fn = "Q"          -> COLUMN([j \in 0 .. 7 |-> RND512Q(c.k, j)], c.i)
                [] c.fn = "F512"       -> F512(<<"h">>, <<"m">>)
                [] c.fn = "output"     -> OutputTransformation(<<"h">>)
                [] c.fn = "threefish"  -> Threefish4(Words(7), c.R)
                [] c.fn = "blakeround" -> blake_round(Words(15), c.R)

Next == \/ stage = "idle" /\ \E c \in Digesters : Start(c)
        \/ stage = "idle" /\ \E c \in Primitive : Apply(c)
        \/ Update
        \/ Final

Spec == Init /\ [][Next]_vars

-----------------------------------------------------------------------------
\* Definitions.

Done(fn) == stage = "done" /\ call.fn = fn

\* The message, a one bit (after r bits of a last byte) and zeros up to k bytes.
Marked(n, r) == Message(n) \o <<IF r = 0 THEN Lit(128) ELSE Cut(Data(0), r)>>
UpTo(s, k, m) == s \o Zeros((k - Len(s)) % m)

\* pad10*1 with the lowest bit first: 1, zeros, 0x80, or both in one byte.
KeccakPadded(n, rate) ==
    LET gap == rate - (n % rate)
    IN  Blocks(Message(n) \o (IF gap = 1 THEN <<Lit(129)>>
                              ELSE <<Lit(1)>> \o Zeros(gap - 2) \o <<Lit(128)>>), rate)

Counter(bits) == <<bits % CounterRange, bits \div CounterRange>>

\* A block counts the bits of the message up to its end, or zero if it has none.
BlakePadded(s, iv) ==
    LET one == IF iv = 256 THEN 1 ELSE 0
        gap == ((55 - Len(s)) % 64) + 1
        pad == IF gap = 1 THEN <<Lit(128 + one)>>
               ELSE <<Lit(128)>> \o Zeros(gap - 2) \o <<Lit(one)>>
        len == Counter(8 * Len(s))
        all == Blocks(s \o pad \o BigEndian(len[2], 4) \o BigEndian(len[1], 4), 64)
        upTo(i) == IF 64 * (i - 1) >= Len(s) THEN 0
                   ELSE IF 64 * i < Len(s) THEN 64 * i ELSE Len(s)
    IN  <<<<"iv", iv>>>> \o [i \in 1 .. Len(all) |->
                                [block |-> all[i], t |-> Counter(8 * upTo(i))]]

\* H((K xor opad) || H((K xor ipad) || m))
Hmac(key, s, v) ==
    LET k == IF Len(key) > 64 THEN Digest(BlakePadded(key, v), v \div 8) ELSE key
        pad(x) == [i \in 1 .. 64 |-> IF i <= Len(k) THEN <<"xor", x, k[i]>> ELSE Lit(x)]
    IN  BlakePadded(pad(92) \o Digest(BlakePadded(pad(54) \o s, v), v \div 8), v)

GroestlPadded(n, r) ==
    LET body == UpTo(Marked(n, r), 56, 64)
    IN  Blocks(body \o BigEndian((Len(body) + 8) \div 64, 8), 64)

JhPadded(n, r) ==
    LET bits == 8 * n + r
        zeros == IF bits % 512 = 0 THEN 55 ELSE 56 + ((-Len(Marked(n, r))) % 64)
    IN  Blocks(Marked(n, r) \o Zeros(zeros) \o BigEndian(bits, 8), 64)

\* Every block of a Skein message has the number of bytes up to its end; the first
\* and the last are flagged, and a bit padded one is.
SkeinPadded(n, r) ==
    LET s    == Message(n) \o (IF r = 0 THEN <<>> ELSE <<Cut(Data(0), r)>>)
        all  == Blocks(IF s = <<>> THEN Zeros(64) ELSE UpTo(s, 0, 64), 64)
        last == Len(all)
        flags(i) == (IF i = 1 THEN {"first"} ELSE {}) \cup (IF i < last THEN {}
                    ELSE {"final"} \cup (IF r = 0 THEN {} ELSE {"bitpad"}))
    IN  <<<<"iv", 256>>>>
        \o [i \in 1 .. last |-> [block |-> all[i], pos |-> IF i < last THEN 64 * i ELSE Len(s),
                                 type |-> "MSG", flags |-> flags(i)]]
        \o <<[block |-> Zeros(64), pos |-> 8, type |-> "OUT", flags |-> {"first", "final"}]>>

\* The lane x + 5 y of Keccak after theta, rho and pi.
RhoOffset(x, y) ==
    LET walk[t \in 0 .. 24, p \in (0 .. 4) \X (0 .. 4)] ==
            IF t = 24 THEN 0
            ELSE IF p = <<x, y>> THEN (((t + 1) * (t + 2)) \div 2) % 64
            ELSE walk[t + 1, <<p[2], (2 * p[1] + 3 * p[2]) % 5>>]
    IN  walk[0, <<1, 0>>]

KeccakLinear ==
    LET theta(x, y) ==
            {<<x + 5 * y, 0>>} \cup {<<((x + 4) % 5) + 5 * k, 0>> : k \in 0 .. 4}
                               \cup {<<((x + 1) % 5) + 5 * k, 1>> : k \in 0 .. 4}
        source(x, y) == <<(x + 3 * y) % 5, x>>
    IN  [i \in 0 .. 24 |->
            LET s == source(i % 5, i \div 5)
            IN  Rotl(theta(s[1], s[2]), RhoOffset(s[1], s[2]))]

\* Bit 2^j - 1 of round constant i is output 7 i + j of the shift register.
Register == [t \in 0 .. 168 |->
    LET r[k \in 0 .. t, v \in 0 .. 255] ==
            IF k = t THEN v
            ELSE r[k + 1, IF v < 128 THEN 2 * v
                          ELSE LET d == (2 * v) % 256
                                   f(n) == IF (d \div n) % 2 = 1 THEN -n ELSE n
                               IN  d + f(1) + f(16) + f(32) + f(64)]
    IN  r[0, 1] % 2]

RoundConstants ==
    [i \in 1 .. 24 |-> {2^j - 1 : j \in {j \in 0 .. 6 : Register[7 * (i - 1) + j] = 1}}]

S0 == <<9, 0, 4, 11, 13, 12, 3, 15, 1, 10, 2, 6, 7, 5, 8, 14>>
S1 == <<3, 12, 6, 13, 5, 7, 1, 9, 15, 2, 0, 4, 11, 10, 14, 8>>

Nibble(x) == 8 * x[1] + 4 * x[2] + 2 * x[3] + x[4]
SBox(x, c) == (IF c = 0 THEN S0 ELSE S1)[Nibble(x) + 1]

\* Twice a nibble in GF(16), and the sum.
XorNibble(a, b) ==
    LET bit(n) == (((a \div n) + (b \div n)) % 2) * n IN bit(1) + bit(2) + bit(4) + bit(8)
Double(a) == IF a < 8 THEN 2 * a ELSE XorNibble((2 * a) % 16, 3)

\* Byte <<row, column>> after ShiftBytes, and the coefficient of MixBytes it meets.
GroestlColumn(shift, k, i) ==
    {<<row, (k + shift[row + 1]) % 8, (i - row) % 8>> : row \in 0 .. 7}

\* Ten rounds of a permutation of Groestl.
Permuted(name, x) ==
    LET r[i \in 0 .. 10] == IF i = 0 THEN x ELSE <<name, i - 1, r[i - 1]>> IN r[10]

\* Four rounds of Threefish with the permutation carried out, and the subkey.
ThreefishRounds(R) ==
    LET pi == <<2, 1, 4, 7, 6, 5, 0, 3>>
        mix(X, rot) == [w \in 0 .. 7 |->
            LET i == w \div 2
                sum == <<"add", X[2 * i], X[2 * i + 1]>>
            IN  IF w % 2 = 0 THEN sum ELSE <<"mix", X[w], rot[i + 1], sum>>]
        permute(X) == [w \in 0 .. 7 |-> X[pi[w + 1]]]
        run[d \in 0 .. 4] ==
            IF d = 0 THEN Words(7)
            ELSE permute(mix(run[d - 1], R_512[((4 * R + d - 1) % 8) + 1]))
        s == R + 1
    IN  [i \in 0 .. 7 |-> <<run[4][i],
            <<(s + i) % 9, CASE i = 5 -> <<"ts", s % 3>> [] i = 6 -> <<"ts", (s + 1) % 3>>
                             [] i = 7 -> <<"R", s>> [] OTHER -> <<"none", 0>>>>>>]

\* A round of BLAKE: the columns, then the diagonals, all at once.
BlakeRound(R) ==
    LET quad(v, i, a, b, c, d) ==
            <<v[a], v[b], v[c], v[d], sigma[(R % 10) + 1][2 * i + 1], sigma[(R % 10) + 1][2 * i + 2]>>
        name(w) == <<"a", "b", "c", "d">>[(w \div 4) + 1]
        column == [w \in 0 .. 15 |-> LET k == w % 4 IN
                      <<name(w), quad(Words(15), k, k, k + 4, k + 8, k + 12)>>]
    IN  [w \in 0 .. 15 |-> LET k == (w - (w \div 4)) % 4 IN
            <<name(w), quad(column, 4 + k, k, 4 + ((k + 1) % 4), 8 + ((k + 2) % 4),
                            12 + ((k + 3) % 4))>>]

-----------------------------------------------------------------------------
\* Properties.

\* The digests compress the message as their standards pad it, for every length and,
\* where they count bits, for every number of bits in the last byte.
\* keccak() absorbs it with pad10*1 at every rate (c_keccak.c:157).
\* BLAKE compresses every block with the counter of the message bits in it, zero for a
\* block of padding, although the code counts the padding down before it counts it up,
\* across the wrap of t[0] (c_blake256.c:165); HMAC over it is HMAC, but for the long
\* keys that BLAKE-224 hashes with BLAKE-256.
\* Groestl's length field counts all blocks, the one that holds it included, whether
\* the padding takes one block or two (c_groestl.c:293).
\* JH pads with at least a whole block, and no byte of an earlier block is left in the
\* buffer (c_jh.c:304).
\* Skein keeps a full last block back for Final, so that exactly the first and the last
\* block are flagged, and a partial byte only flags the last (c_skein.c:509).
DigestsAgree ==
    /\ Done("keccak") => ctx = KeccakPadded(call.n, rsiz(call.md))
    /\ Done("blake") => ctx = BlakePadded(Message(call.n), call.md)
    /\ Done("hmac") /\ (call.md = 224 => call.key <= 64) =>
           ctx = Hmac(Key(call.key), Message(call.n), call.md)
    /\ Done("groestl") => ctx = GroestlPadded(call.n, call.r)
    /\ Done("jh") => ctx = JhPadded(call.n, call.r)
    /\ Done("skein") => ctx = SkeinPadded(call.n, call.r)

\* The round functions compute what their definitions say, whatever is done in
\* place, by table, bit-sliced or by renaming the words.
RoundsAgree ==
    /\ Done("linear") => ctx = KeccakLinear
    /\ Done("chi") => \A i \in 0 .. 4 :
           ctx[i] = Flip(call.x[i], AndNot(call.x[(i + 1) % 5], call.x[(i + 2) % 5]))
    /\ Done("iota") => ctx = RoundConstants
    /\ Done("aesenc") =>       \* ShiftRows, then row b of MixColumns
           ctx = {<<k, (call.w + k) % 4, <<2, 3, 1, 1>>[((k - call.b) % 4) + 1]>> : k \in 0 .. 3}
    /\ Done("keyassist") =>    \* RotWord is to the lower byte
           \A i \in {1, 3} : /\ ctx[i] = Bytes(i)
                             /\ ctx[i + 1] = <<<<"rcon", <<i, 2>>>>, <<i, 3>>, <<i, 4>>, <<i, 1>>>>
    /\ Done("sbox") => /\ Nibble(SubSeq(ctx, 1, 4)) = SBox(SubSeq(call.x, 1, 4), call.c[0])
                       /\ Nibble(SubSeq(ctx, 5, 8)) = SBox(SubSeq(call.x, 5, 8), call.c[1])
    /\ Done("mds") =>
           LET a == Nibble(SubSeq(call.x, 1, 4))
               d == XorNibble(Nibble(SubSeq(call.x, 5, 8)), Double(a))
           IN  /\ Nibble(SubSeq(ctx, 5, 8)) = d
               /\ Nibble(SubSeq(ctx, 1, 4)) = XorNibble(a, Double(d))
    /\ Done("swaps") => \A w \in 0 .. 1, p \in 0 .. 63 : ctx[w + 1][p] = 127 - (64 * w + p)
    /\ Done("P") => ctx = GroestlColumn(<<0, 1, 2, 3, 4, 5, 6, 7>>, call.k, call.i)
    /\ Done("Q") => ctx = GroestlColumn(<<1, 3, 5, 7, 0, 2, 4, 6>>, call.k, call.i)
    /\ Done("F512") =>
           ctx = {<<"h">>, Permuted("P", <<<<"h">>, <<"m">>>>), Permuted("Q", <<<<"m">>>>)}
    /\ Done("output") => ctx = {<<"h">>, Permuted("P", <<<<"h">>>>)}
    /\ Done("threefish") => ctx = ThreefishRounds(call.R)
    /\ Done("blakeround") => ctx = BlakeRound(call.R)
=============================================================================
