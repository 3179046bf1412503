--------------------------- MODULE CryptoNight ---------------------------
(***************************************************************************)
(* The CryptoNight kernels (crypto/CryptoNight_x86.h, CryptoNight_arm.h)   *)
(* and their dispatch and self test (crypto/CryptoNight.cpp).              *)
(*                                                                         *)
(* A kernel hashes n inputs at once: it interleaves the steps of n lanes   *)
(* over one context, one flat scratchpad and one output buffer.  The model *)
(* keeps every step, its order and the address arithmetic.  Numbers are    *)
(* scaled: a 32-bit limb becomes a number below L, a 64-bit word two limbs,*)
(* a 128-bit block four, and the scratchpad is a few blocks.  The byte     *)
(* substitutions inside an AES round and the Keccak permutation are        *)
(* parameters: module Primitives has their own definitions.                *)
(***************************************************************************)
EXTENDS Integers, Sequences

CONSTANTS
    Archs,            \* the builds, among "x86_64", "i386", "armv8", "armv7"
    MaxHashBlocks,    \* MAX_NUM_HASH_BLOCKS
    Nonces,           \* the first nonces a worker may start a round with
    Cells,            \* algo -> blocks of a scratchpad (MEM / 16)
    Iterations,       \* algo -> ITERATIONS
    AesPerm(_),       \* an AES round without its key, on a block
    SubWord(_),       \* the S-box on the bytes of a limb
    RotWord(_),       \* a limb rotated by a byte
    KeccakOf(_),      \* keccak of an input: the 25 words of a state
    KeccakPerm(_),    \* keccakf, 24 rounds, on the words of a state
    ExtraHash(_, _)   \* ExtraHash(i, s): extra_hashes[i] of the state s

VARIABLES
    conf,             \* [arch, aesni, algo]: the build and what init() was given
    phase,            \* "test", "idle", "mine" or "failed"
    factor,           \* number of lanes of the kernel that runs
    passed,           \* resultSingle && ... for the kernels tested so far
    input,            \* lane -> input
    pc,               \* the next step of the kernel
    state,            \* ctx->state
    memory,           \* ctx->memory
    reg,              \* lane -> al, ah, bx, cx, idx
    output            \* lane -> digest

vars == <<conf, phase, factor, passed, input, pc, state, memory, reg, output>>

Algos == {"cryptonight", "lite"}

L == 16               \* limbs are 0 .. L - 1
Limb == 0 .. L - 1

ASSUME CryptoNightAssumption ==
    /\ Archs \subseteq {"x86_64", "i386", "armv8", "armv7"}
    /\ MaxHashBlocks \in Nat /\ MaxHashBlocks >= 5
    /\ Nonces \subseteq Nat
    /\ \A a \in Algos : Iterations[a] \in Nat /\ Cells[a] \in Nat \ {0} /\ Cells[a] % 8 = 0

Lanes == 0 .. MaxHashBlocks - 1

\* test_input holds two blobs in turn.
TestInput(l) == l % 2

\* What a lane may have to hash.
Inputs == {TestInput(l) : l \in Lanes} \cup {nonce + l : nonce \in Nonces, l \in Lanes}

-----------------------------------------------------------------------------
\* Limbs, words and blocks.

XorTable ==
    [a \in Limb |-> [b \in Limb |->
        LET bit(i) == ((a \div 2^i + b \div 2^i) % 2) * 2^i
        IN  bit(0) + bit(1) + bit(2) + bit(3)]]

XorWord(a, b) == XorTable[a \div L][b \div L] * L + XorTable[a % L][b % L]

\* A block is the sequence of its limbs, the lowest first.
Xor(x, y) == <<XorTable[x[1]][y[1]], XorTable[x[2]][y[2]],
               XorTable[x[3]][y[3]], XorTable[x[4]][y[4]]>>

Blocks == Limb \X Limb \X Limb \X Limb

Zero == <<0, 0, 0, 0>>

\* The AES round maps blocks to blocks, its key schedule limbs to limbs, and a state
\* is 25 words.
ASSUME PrimitivesAssumption ==
    /\ \A x \in Blocks : AesPerm(x) \in Blocks
    /\ \A a \in Limb : SubWord(a) \in Limb /\ RotWord(a) \in Limb
    /\ \A in \in Inputs : KeccakOf(in) \in [0 .. 24 -> 0 .. L * L - 1]

Lo(x) == x[1] + L * x[2]
Hi(x) == x[3] + L * x[4]

\* _mm_set_epi64x(hi, lo)
Block(lo, hi) == <<lo % L, lo \div L, hi % L, hi \div L>>

\* Block i of a state of 25 words.
StateBlock(h, i) == Block(h[2 * i], h[2 * i + 1])

\* The 64 x 64 multiplication, in one piece: <<low word, high word>>.  Words have
\* two limbs below h, the half.
umul128(h, a, b) == <<(a * b) % (h * h), (a * b) \div (h * h)>>

\* The same from 32-bit halves, for builds without a 128-bit integer.  Every
\* intermediate is a 64-bit word and wraps.
umul128_32(h, x, y) ==
    LET a == x \div h
        b == x % h
        c == y \div h
        d == y % h
        adbc == (a * d + b * c) % (h * h)
        adbc_carry == IF adbc < a * d THEN 1 ELSE 0
        lo == (b * d + adbc * h) % (h * h)
        lo_carry == IF lo < b * d THEN 1 ELSE 0
    IN  <<lo, (a * c + adbc \div h + adbc_carry * h + lo_carry) % (h * h)>>

Multiply64(arch, a, b) ==
    IF arch \in {"x86_64", "armv8"} THEN umul128(L, a, b) ELSE umul128_32(L, a, b)

-----------------------------------------------------------------------------
\* AES: key schedule and rounds.

\* Each limb becomes the xor of itself and the limbs below it.
sl_xor(x) ==
    LET shift(t) == <<0, t[1], t[2], t[3]>>
        t4a == shift(x)
        t4b == shift(t4a)
        t4c == shift(t4b)
    IN  Xor(Xor(Xor(x, t4a), t4b), t4c)

\* AESKEYGENASSIST.
KeyGenAssist(x, rcon) ==
    <<SubWord(x[2]), XorTable[RotWord(SubWord(x[2]))][rcon],
      SubWord(x[4]), XorTable[RotWord(SubWord(x[4]))][rcon]>>

\* PSHUFD that copies limb i everywhere.
Splat(x, i) == <<x[i], x[i], x[i], x[i]>>

\* One step of the schedule on a pair of blocks: the first half is replaced first,
\* and the second half uses the new first half.
aes_genkey_sub(rcon, x) ==
    LET half(y0, x2) == <<y0, Xor(sl_xor(x2), Splat(KeyGenAssist(y0, 0), 3))>>
    IN  half(Xor(sl_xor(x[1]), Splat(KeyGenAssist(x[2], rcon), 4)), x[2])

\* The ten round keys from two blocks.
aes_genkey(m0, m1) ==
    LET pair[i \in 0 .. 4] == IF i = 0 THEN <<m0, m1>> ELSE aes_genkey_sub(2^(i - 1), pair[i - 1])
    IN  [k \in 1 .. 10 |-> pair[(k - 1) \div 2][((k - 1) % 2) + 1]]

\* AESENC: the key is added last.
aesenc(x, key) == Xor(AesPerm(x), key)

\* vaesmcq(vaeseq(x, key)): the key is added first.
vaes(x, key) == AesPerm(Xor(x, key))

\* Ten rounds of AESENC on one block.
x86_rounds(x, k) ==
    LET r[i \in 0 .. 10] ==
            [y \in Blocks |-> IF i = 0 THEN y ELSE r[i - 1][aesenc(y, k[11 - i])]]
    IN  r[10][x]

\* Ten rounds on ARM with the crypto extension: a round with a zero key, a round
\* with each of the first nine keys, and the last key added alone.
arm_rounds(x, k) ==
    LET r[i \in 0 .. 9] ==
            [y \in Blocks |-> IF i = 0 THEN Xor(y, k[10]) ELSE r[i - 1][vaes(y, k[10 - i])]]
    IN  r[9][vaes(x, Zero)]

Rounds(c, x, k) ==
    IF c.arch = "armv8" /\ c.aesni THEN arm_rounds(x, k) ELSE x86_rounds(x, k)

\* The AES round of the main loop of a kernel for n lanes.  The one for any
\* number of lanes uses AESENC on ARM, too.
LoopAes(c, n, x, key) ==
    IF c.arch = "armv8" /\ c.aesni /\ n <= 5 THEN Xor(vaes(x, Zero), key) ELSE aesenc(x, key)

-----------------------------------------------------------------------------
\* The steps of a lane.  Base is where its scratchpad starts.

Base(l) == l * Cells[conf.algo]

\* &l[idx & MASK]
Address(l) == Base(l) + (reg[l].idx % Cells[conf.algo])

Keccak(l) ==
    /\ state' = [state EXCEPT ![l] = KeccakOf(input[l])]
    /\ UNCHANGED <<memory, reg, output>>

\* Blocks 4 to 11 of the state, encrypted again and again, fill a scratchpad.
Exploded(c, h) ==
    LET k == aes_genkey(StateBlock(h, 0), StateBlock(h, 1))
        n == Cells[c.algo]
        xin[i \in 0 .. n \div 8] ==
            [j \in 0 .. 7 |-> IF i = 0 THEN StateBlock(h, 4 + j) ELSE Rounds(c, xin[i - 1][j], k)]
    IN  [a \in 0 .. n - 1 |-> xin[a \div 8 + 1][a % 8]]

Fill(l, pad) ==
    memory' = [a \in DOMAIN memory |->
                  IF a - Base(l) \in DOMAIN pad THEN pad[a - Base(l)] ELSE memory[a]]

Explode(l) ==
    /\ Fill(l, Exploded(conf, state[l]))
    /\ UNCHANGED <<state, reg, output>>

\* al, ah, bx and idx from the first eight words of the state.
Registers(l) ==
    LET h == state[l]
    IN  /\ reg' = [reg EXCEPT ![l] =
                      [al  |-> XorWord(h[0], h[4]), ah |-> XorWord(h[1], h[5]),
                       bx  |-> Block(XorWord(h[2], h[6]), XorWord(h[3], h[7])),
                       cx  |-> Zero,
                       idx |-> XorWord(h[0], h[4])]]
        /\ UNCHANGED <<state, memory, output>>

Load(l) ==
    /\ reg' = [reg EXCEPT ![l].cx = memory[Address(l)]]
    /\ UNCHANGED <<state, memory, output>>

Encrypt(l) ==
    /\ reg' = [reg EXCEPT ![l].cx =
                  LoopAes(conf, factor, @, Block(reg[l].al, reg[l].ah))]
    /\ UNCHANGED <<state, memory, output>>

Store(l) ==
    /\ memory' = [memory EXCEPT ![Address(l)] = Xor(reg[l].bx, reg[l].cx)]
    /\ UNCHANGED <<state, reg, output>>

\* idx = EXTRACT64(cx)
Index(l) ==
    /\ reg' = [reg EXCEPT ![l].idx = Lo(reg[l].cx)]
    /\ UNCHANGED <<state, memory, output>>

Shift(l) ==
    /\ reg' = [reg EXCEPT ![l].bx = reg[l].cx]
    /\ UNCHANGED <<state, memory, output>>

\* The second half of an iteration: multiply, add, store, xor, next address.
Multiply(l) ==
    LET cl == Lo(memory[Address(l)])
        ch == Hi(memory[Address(l)])
        p  == Multiply64(conf.arch, reg[l].idx, cl)
        al == (reg[l].al + p[2]) % (L * L)
        ah == (reg[l].ah + p[1]) % (L * L)
    IN  /\ memory' = [memory EXCEPT ![Address(l)] = Block(al, ah)]
        /\ reg' = [reg EXCEPT ![l].al = XorWord(al, cl), ![l].ah = XorWord(ah, ch),
                              ![l].idx = XorWord(al, cl)]
        /\ UNCHANGED <<state, output>>

\* A state whose blocks 4 to 11 are replaced.
Replaced(h, blocks) ==
    [w \in 0 .. 24 |->
        IF w \in 8 .. 23
        THEN LET b == blocks[w \div 2 - 4] IN IF w % 2 = 0 THEN Lo(b) ELSE Hi(b)
        ELSE h[w]]

\* The scratchpad is encrypted back into blocks 4 to 11 of the state.
Imploded(c, h, pad) ==
    LET k == aes_genkey(StateBlock(h, 2), StateBlock(h, 3))
        n == Cells[c.algo] \div 8
        xout[i \in 0 .. n] ==
            [j \in 0 .. 7 |-> IF i = 0 THEN StateBlock(h, 4 + j)
                              ELSE Rounds(c, Xor(pad[8 * (i - 1) + j], xout[i - 1][j]), k)]
    IN  Replaced(h, xout[n])

Pad(l) == [i \in 0 .. Cells[conf.algo] - 1 |-> memory[Base(l) + i]]

Implode(l) ==
    /\ state' = [state EXCEPT ![l] = Imploded(conf, @, Pad(l))]
    /\ UNCHANGED <<memory, reg, output>>

KeccakF(l) ==
    /\ state' = [state EXCEPT ![l] = KeccakPerm(@)]
    /\ UNCHANGED <<memory, reg, output>>

\* extra_hashes[state[0] & 3] into the lane's part of the output.
Extra(l) ==
    /\ output' = [output EXCEPT ![l] = ExtraHash(state[l][0] % 4, state[l])]
    /\ UNCHANGED <<state, memory, reg>>

-----------------------------------------------------------------------------
\* A kernel is a sequence of steps <<operation, lane>>.

All(op, n) == [i \in 1 .. n |-> <<op, i - 1>>]

Times(n, s) == [i \in 1 .. n * Len(s) |-> s[((i - 1) % Len(s)) + 1]]

\* The kernels that are unrolled by hand take each step of the loop for all
\* lanes before the next one, up to the multiplication.
Unrolled(n, iterations) ==
    All("keccak", n) \o All("explode", n) \o All("registers", n)
        \o Times(iterations,
                 All("load", n) \o All("aes", n) \o All("store", n)
                     \o All("index", n) \o All("shift", n) \o All("multiply", n))
        \o All("implode", n) \o All("keccakf", n) \o All("extra", n)

\* The general kernel takes a whole iteration of one lane before the next lane.
Looped(n, iterations) ==
    LET each(ops) == [i \in 1 .. n * Len(ops) |->
                         <<ops[((i - 1) % Len(ops)) + 1], (i - 1) \div Len(ops)>>]
    IN  All("keccak", n) \o each(<<"explode", "registers">>)
            \o Times(iterations,
                     each(<<"load", "aes", "store", "index", "shift", "multiply">>))
            \o each(<<"implode", "keccakf", "extra">>)

x86_hash1(iterations) == Unrolled(1, iterations)
x86_hash2(iterations) == Unrolled(2, iterations)
x86_hash3(iterations) == Unrolled(3, iterations)
x86_hash4(iterations) == Unrolled(4, iterations)
x86_hash5(iterations) == Unrolled(5, iterations)

\* Mutant of x86_hashN: the last lane has no result.
x86_hashN_Short(n, iterations) ==
    SubSeq(Looped(n, iterations), 1, Len(Looped(n, iterations)) - 1)

x86_hashN(n, iterations) == Looped(n, iterations)

arm_hash1(iterations) == Unrolled(1, iterations)
arm_hash2(iterations) == Unrolled(2, iterations)
arm_hash3(iterations) == Unrolled(3, iterations)
arm_hash4(iterations) == Unrolled(4, iterations)
arm_hash5(iterations) == Unrolled(5, iterations)
arm_hashN(n, iterations) == Looped(n, iterations)

x86_kernel(n, iterations) ==
    CASE n = 1 -> x86_hash1(iterations)
      [] n = 2 -> x86_hash2(iterations)
      [] n = 3 -> x86_hash3(iterations)
      [] n = 4 -> x86_hash4(iterations)
      [] n = 5 -> x86_hash5(iterations)
      [] OTHER -> x86_hashN(n, iterations)

arm_kernel(n, iterations) ==
    CASE n = 1 -> arm_hash1(iterations)
      [] n = 2 -> arm_hash2(iterations)
      [] n = 3 -> arm_hash3(iterations)
      [] n = 4 -> arm_hash4(iterations)
      [] n = 5 -> arm_hash5(iterations)
      [] OTHER -> arm_hashN(n, iterations)

\* cryptonight_hash_ctx[n - 1].  On ARMv7 the function for hardware AES is empty.
Kernel(c, n) ==
    IF c.arch = "armv7" /\ c.aesni THEN <<>>
    ELSE IF c.arch \in {"armv8", "armv7"} THEN arm_kernel(n, Iterations[c.algo])
    ELSE x86_kernel(n, Iterations[c.algo])

-----------------------------------------------------------------------------
\* The hash of one input, as the CryptoNight standard defines it: the AES-256 key
\* expansion of FIPS 197, one lane, and a step of the loop on whole blocks.

\* What limb i + 8 of a key schedule adds to limb i, x being limb i + 7.
KeyLimb(i, x) ==
    CASE i % 8 = 1 -> XorTable[RotWord(SubWord(x))][2^(i \div 8)]
      [] i % 8 = 5 -> SubWord(x)
      [] OTHER     -> x

\* The forty limbs of a key schedule, from the first eight.
KeyWords(m0, m1) ==
    LET grow[i \in 0 .. 32] ==
            IF i = 0 THEN m0 \o m1
            ELSE LET w == grow[i - 1] IN Append(w, XorTable[w[i]][KeyLimb(i, w[i + 7])])
    IN  grow[32]

RoundKeys(m0, m1) ==
    LET w == KeyWords(m0, m1)
    IN  [k \in 1 .. 10 |-> <<w[4 * k - 3], w[4 * k - 2], w[4 * k - 1], w[4 * k]>>]

Encrypted(x, keys) ==
    LET r[i \in 0 .. 10] ==
            [y \in Blocks |-> IF i = 0 THEN y ELSE r[i - 1][Xor(AesPerm(y), keys[11 - i])]]
    IN  r[10][x]

\* The scratchpad of n blocks: blocks 4 to 11 of the state, and each further block
\* from the one eight blocks before it.
Filled(h, n) ==
    LET keys == RoundKeys(StateBlock(h, 0), StateBlock(h, 1))
        fill[c \in 0 .. n - 1] ==
            Encrypted(IF c < 8 THEN StateBlock(h, 4 + c) ELSE fill[c - 8], keys)
    IN  fill

\* What the loop starts with, and one iteration of it.
MixStart(h, pad) ==
    [a |-> Xor(StateBlock(h, 0), StateBlock(h, 2)),
     b |-> Xor(StateBlock(h, 1), StateBlock(h, 3)), pad |-> pad]

Mix(p, n) ==
    LET at(x) == Lo(x) % n
        add(x, y) == Block((Lo(x) + Lo(y)) % (L * L), (Hi(x) + Hi(y)) % (L * L))
        c == Xor(AesPerm(p.pad[at(p.a)]), p.a)
        pad1 == [p.pad EXCEPT ![at(p.a)] = Xor(p.b, c)]
        d == pad1[at(c)]
        prod == Lo(c) * Lo(d)
        a1 == add(p.a, Block(prod \div (L * L), prod % (L * L)))
    IN  [a |-> Xor(a1, d), b |-> c, pad |-> [pad1 EXCEPT ![at(c)] = a1]]

Mixed(h, pad, algo) ==
    LET m[i \in 0 .. Iterations[algo]] ==
            IF i = 0 THEN MixStart(h, pad) ELSE Mix(m[i - 1], Cells[algo])
    IN  m[Iterations[algo]]

\* The state that takes up the scratchpad of n blocks.
Folded(h, pad, n) ==
    LET keys == RoundKeys(StateBlock(h, 2), StateBlock(h, 3))
        text[i \in 0 .. n \div 8] ==
            [j \in 0 .. 7 |-> IF i = 0 THEN StateBlock(h, 4 + j)
                              ELSE Encrypted(Xor(text[i - 1][j], pad[8 * (i - 1) + j]), keys)]
    IN  Replaced(h, text[n \div 8])

CnHash(in, algo) ==
    LET h   == KeccakOf(in)
        pad == Mixed(h, Filled(h, Cells[algo]), algo).pad
        f   == KeccakPerm(Folded(h, pad, Cells[algo]))
    IN  ExtraHash(f[0] % 4, f)

-----------------------------------------------------------------------------
\* The dispatcher, the self test and a worker that hashes.

Junk == <<>>          \* what an output buffer held before

\* No published hash is what an untouched buffer holds.
ASSUME DigestAssumption == \A a \in Algos : CnHash(0, a) # Junk

Init ==
    /\ conf \in [arch : Archs, aesni : BOOLEAN, algo : Algos]
    /\ phase = "test"
    /\ factor = 1
    /\ passed = TRUE
    /\ input = [l \in Lanes |-> TestInput(l)]
    /\ pc = 1
    /\ state = [l \in Lanes |-> [w \in 0 .. 24 |-> 0]]
    /\ memory = [a \in 0 .. MaxHashBlocks * Cells[conf.algo] - 1 |-> Zero]
    /\ reg = [l \in Lanes |-> [al |-> 0, ah |-> 0, bx |-> Zero, cx |-> Zero, idx |-> 0]]
    /\ output = [l \in Lanes |-> Junk]

Running == phase \in {"test", "mine"} /\ pc <= Len(Kernel(conf, factor))

\* One step of the kernel.
Step ==
    /\ Running
    /\ LET op == Kernel(conf, factor)[pc][1]
           l  == Kernel(conf, factor)[pc][2]
       IN  \/ op = "keccak" /\ Keccak(l)
           \/ op = "explode" /\ Explode(l)
           \/ op = "registers" /\ Registers(l)
           \/ op = "load" /\ Load(l)
           \/ op = "aes" /\ Encrypt(l)
           \/ op = "store" /\ Store(l)
           \/ op = "index" /\ Index(l)
           \/ op = "shift" /\ Shift(l)
           \/ op = "multiply" /\ Multiply(l)
           \/ op = "implode" /\ Implode(l)
           \/ op = "keccakf" /\ KeccakF(l)
           \/ op = "extra" /\ Extra(l)
    /\ pc' = pc + 1
    /\ UNCHANGED <<conf, phase, factor, passed, input>>

Returned == phase \in {"test", "mine"} /\ pc > Len(Kernel(conf, factor))

\* Mutant of Matches: what the kernels return is not looked at.
Matches_Unchecked == TRUE

\* selfTest: the kernels of one to five lanes in turn, on one context.  All five
\* run; what each returns is compared with the published hashes of the test inputs.
Matches == \A l \in 0 .. factor - 1 : output[l] = CnHash(TestInput(l), conf.algo)

selfTest ==
    /\ Returned
    /\ phase = "test"
    /\ passed' = (passed /\ Matches)
    /\ \/ /\ factor < 5
          /\ factor' = factor + 1
          /\ pc' = 1
          /\ UNCHANGED phase
       \/ /\ factor = 5
          /\ phase' = IF passed' THEN "idle" ELSE "failed"
          /\ UNCHANGED <<factor, pc>>
    /\ UNCHANGED <<conf, input, state, memory, reg, output>>

\* CryptoNight::hash: a worker whose lanes have nonces of their own.
hash(n, nonce) ==
    /\ phase = "idle"
    /\ phase' = "mine"
    /\ factor' = n
    /\ input' = [l \in Lanes |-> nonce + l]
    /\ pc' = 1
    /\ UNCHANGED <<conf, passed, state, memory, reg, output>>

Next ==
    \/ Step
    \/ selfTest
    \/ \E n \in 1 .. MaxHashBlocks, nonce \in Nonces : hash(n, nonce)

Spec == Init /\ [][Next]_vars

-----------------------------------------------------------------------------
\* Properties.

\* When a kernel of any number of lanes returns, on any build, with either AES and
\* on a context full of what earlier kernels left, every lane of the output is the
\* CryptoNight hash of that lane's own input (CryptoNight.cpp:76).
LanesAgree ==
    Returned /\ Kernel(conf, factor) # <<>> =>
        \A l \in 0 .. factor - 1 : output[l] = CnHash(input[l], conf.algo)

\* A worker has a kernel that does something.
WorkingKernel == phase \in {"idle", "mine"} => Kernel(conf, 1) # <<>>

\* A worker never hashes with a function that does nothing: the self test stops
\* the build whose hardware AES is compiled out, and stops no other
\* (CryptoNight.cpp:110, App.cpp:169).
OnlyWorkingKernels ==
    /\ WorkingKernel
    /\ phase = "failed" => Kernel(conf, 1) = <<>>

=============================================================================
