------------------------------ MODULE Digests ------------------------------
(***************************************************************************)
(* The digests CryptoNight ends with: how c_keccak.c, c_blake256.c,        *)
(* c_groestl.c, c_jh.c and c_skein.c cut a message into blocks, pad it and *)
(* count it.  The module has no variables: a context is a record, and      *)
(* every function of the code is an operator from context to context.      *)
(*                                                                         *)
(* A compression function is not computed: the chaining value of a context *)
(* is the sequence of what has been compressed into it, so two contexts    *)
(* agree exactly if they have compressed the same blocks with the same     *)
(* counters.  The permutations inside are module Primitives.               *)
(***************************************************************************)
EXTENDS Integers, Sequences

CONSTANTS CounterRange      \* a 32-bit counter wraps here (2^32 in the code)

ASSUME DigestsAssumption == CounterRange \in {512 * i : i \in 1 .. 1000}

-----------------------------------------------------------------------------
(***************************************************************************)
(* Bytes.  A message of n bytes and r bits is n bytes "data" and, if r is  *)
(* not zero, one "data" byte of which the first r bits belong to it.       *)
(***************************************************************************)
Lit(n)     == <<"lit", n>>
Data(i)    == <<"data", i>>
Junk       == <<"junk", 0>>       \* a byte nobody has written
Cut(b, r)  == <<"cut", b, r>>     \* the first r bits of b, a one, and zeros

Repeat(b, n) == [i \in 1 .. n |-> b]
Zeros(n)     == Repeat(Lit(0), n)
Message(n)   == [i \in 1 .. n |-> Data(i)]

\* n as k bytes, the highest first.
BigEndian(n, k) == [i \in 1 .. k |-> Lit(IF k - i > 3 THEN 0 ELSE (n \div 256^(k - i)) % 256)]

\* memcpy of s to position p (from 0) of buffer b.
Copied(b, p, s) == [i \in DOMAIN b |-> IF i - p \in DOMAIN s THEN s[i - p] ELSE b[i]]

From(s, p) == SubSeq(s, p + 1, Len(s))

\* The full blocks of n bytes at the start of s.
Blocks(s, n) == [i \in 1 .. Len(s) \div n |-> SubSeq(s, n * (i - 1) + 1, n * i)]

-----------------------------------------------------------------------------
(***************************************************************************)
(* keccak(in, inlen, md, mdlen)                                            *)
(***************************************************************************)
HASH_DATA_AREA == 136

rsiz(mdlen) == IF mdlen = 200 THEN HASH_DATA_AREA ELSE 200 - 2 * mdlen

\* temp[rsiz - 1] |= 0x80, on a byte that is 0 or the 1 just written.
SetTop(b) == IF b \in {Lit(0), Lit(1)} THEN Lit(b[2] + 128) ELSE <<"or80", b>>

\* The blocks that are absorbed, each followed by keccakf.  temp has 144 bytes.
keccak(in, mdlen) ==
    LET r    == rsiz(mdlen)
        full == Blocks(in, r)
        rest == From(in, r * Len(full))
        temp == Copied(Repeat(Junk, 144), 0,
                       rest \o <<Lit(1)>> \o Zeros(r - Len(rest) - 1))
    IN  Append(full, SubSeq([temp EXCEPT ![r] = SetTop(@)], 1, r))

-----------------------------------------------------------------------------
(***************************************************************************)
(* BLAKE-256 and BLAKE-224.  Lengths are in bytes here and times 8 in the  *)
(* code.  variant is 256 or 224: the initial value and the padding differ. *)
(***************************************************************************)
blake_init(variant) ==
    [h |-> <<<<"iv", variant>>>>, t |-> <<0, 0>>, buflen |-> 0, nullt |-> FALSE,
     buf |-> Repeat(Junk, 64)]

\* Mutant of blake_compress: a block of padding only is counted like the others.
blake_compress_IgnoresNull(S, block) ==
    [S EXCEPT !.h = Append(@, [block |-> block, t |-> S.t])]

blake_compress(S, block) ==
    [S EXCEPT !.h = Append(@, [block |-> block, t |-> IF S.nullt THEN <<0, 0>> ELSE S.t])]

\* t[0] += 512, with a carry when it becomes zero.
blake_count(S) ==
    LET t0 == (S.t[1] + 512) % CounterRange
    IN  [S EXCEPT !.t = <<t0, S.t[2] + IF t0 = 0 THEN 1 ELSE 0>>]

\* The test for a full buffer looks at the length modulo a block.
blake_update(S, data) ==
    LET left  == S.buflen
        fill  == 64 - left
        fills == left > 0 /\ Len(data) % 64 >= fill
        S1    == IF fills THEN LET c == blake_count([S EXCEPT !.buf = Copied(@, left, SubSeq(data, 1, fill))])
                               IN  blake_compress(c, c.buf)
                          ELSE S
        rest  == IF fills THEN From(data, fill) ELSE data
        at    == IF fills THEN 0 ELSE left
        eat[n \in 0 .. Len(rest) \div 64] ==
            IF n = 0 THEN S1
            ELSE blake_compress(blake_count(eat[n - 1]), SubSeq(rest, 64 * (n - 1) + 1, 64 * n))
        S2    == eat[Len(rest) \div 64]
        tail  == From(rest, 64 * (Len(rest) \div 64))
    IN  IF tail = <<>> THEN [S2 EXCEPT !.buflen = 0]
        ELSE [S2 EXCEPT !.buf = Copied(@, at, tail), !.buflen = at + Len(tail)]

\* t[0] -= 8 * bytes
blake_uncount(S, bytes) == [S EXCEPT !.t[1] = (@ - 8 * bytes) % CounterRange]

\* blake256_final_h: three cases by the bytes in the buffer.
blake_final(S, variant) ==
    LET one    == IF variant = 256 THEN 1 ELSE 0
        lo     == (S.t[1] + 8 * S.buflen) % CounterRange
        hi     == S.t[2] + IF lo < 8 * S.buflen THEN 1 ELSE 0
        msglen == BigEndian(hi, 4) \o BigEndian(lo, 4)
        pad(n) == <<Lit(128)>> \o Zeros(n - 1)
        S1 == CASE S.buflen = 55 -> blake_update(blake_uncount(S, 1), <<Lit(128 + one)>>)
                [] S.buflen < 55 ->
                     LET a == [S EXCEPT !.nullt = S.buflen = 0]
                         b == blake_update(blake_uncount(a, 55 - S.buflen), pad(55 - S.buflen))
                     IN  blake_uncount(blake_update(b, <<Lit(one)>>), 1)
                [] S.buflen > 55 ->
                     LET a == blake_update(blake_uncount(S, 64 - S.buflen), pad(64 - S.buflen))
                         b == blake_update(blake_uncount(a, 55), Zeros(55))
                     IN  blake_uncount(blake_update([b EXCEPT !.nullt = TRUE], <<Lit(one)>>), 1)
    IN  blake_update(blake_uncount(S1, 8), msglen).h

blake_hash(in, variant) == blake_final(blake_update(blake_init(variant), in), variant)

-----------------------------------------------------------------------------
(***************************************************************************)
(* HMAC over BLAKE.  The bytes of a digest are symbols of what it digests. *)
(***************************************************************************)
Digest(h, n) == [i \in 1 .. n |-> <<"digest", i, h>>]

\* The key, a long one hashed first (with BLAKE-256 for both variants), xor a byte.
hmac_pad(key, variant, x) ==
    LET k == IF Len(key) > 64
             THEN Digest(blake_hash(key, 256), IF variant = 256 THEN 32 ELSE 28)
             ELSE key
    IN  [i \in 1 .. 64 |-> IF i <= Len(k) THEN <<"xor", x, k[i]>> ELSE Lit(x)]

hmac_init(key, variant) ==
    [inner |-> blake_update(blake_init(variant), hmac_pad(key, variant, 54)),
     outer |-> blake_update(blake_init(variant), hmac_pad(key, variant, 92))]

hmac_update(S, data) == [S EXCEPT !.inner = blake_update(@, data)]

hmac_final(S, variant) ==
    blake_final(blake_update(S.outer, Digest(blake_final(S.inner, variant), variant \div 8)),
                variant)

-----------------------------------------------------------------------------
(***************************************************************************)
(* Groestl-256.  A message is bytes (a sequence) and r bits of one more.   *)
(***************************************************************************)
groestl_init ==
    [chaining |-> <<>>, buf |-> Repeat(Junk, 64), ptr |-> 0, c1 |-> 0, c2 |-> 0, bits |-> 0]

groestl_count(ctx) ==
    LET c1 == (ctx.c1 + 1) % CounterRange
    IN  [ctx EXCEPT !.c1 = c1, !.c2 = @ + IF c1 = 0 THEN 1 ELSE 0]

groestl_transform(ctx, input) ==
    LET eat[n \in 0 .. Len(input) \div 64] ==
            IF n = 0 THEN ctx
            ELSE groestl_count([eat[n - 1] EXCEPT
                     !.chaining = Append(@, SubSeq(input, 64 * (n - 1) + 1, 64 * n))])
    IN  eat[Len(input) \div 64]

groestl_store(ctx, bytes) ==
    [ctx EXCEPT !.buf = Copied(@, ctx.ptr, bytes), !.ptr = @ + Len(bytes)]

\* The r bits of the byte behind the message.
groestl_bits(ctx, last, r) ==
    IF r = 0 THEN ctx ELSE groestl_store([ctx EXCEPT !.bits = r], <<last>>)

groestl_update(ctx, input, last, r) ==
    LET n    == IF ctx.ptr = 0 THEN 0
                ELSE IF Len(input) < 64 - ctx.ptr THEN Len(input) ELSE 64 - ctx.ptr
        full == groestl_store(ctx, SubSeq(input, 1, n))
        ctx1 == IF ctx.ptr = 0 THEN ctx
                ELSE groestl_transform([full EXCEPT !.ptr = 0], full.buf)
        rest == From(input, n)
        ctx2 == groestl_transform(ctx1, rest)
    IN  IF ctx.ptr > 0 /\ full.ptr < 64
        THEN groestl_bits(full, last, r)
        ELSE groestl_bits(groestl_store(ctx2, From(rest, 64 * (Len(rest) \div 64))), last, r)

\* The count of the last block is written before Transform counts it again.
groestl_final(ctx) ==
    LET a == IF ctx.bits > 0
             THEN [ctx EXCEPT !.buf[ctx.ptr] = Cut(@, ctx.bits), !.bits = 0]
             ELSE groestl_store(ctx, <<Lit(128)>>)
        b == IF a.ptr > 56
             THEN [groestl_transform(groestl_store(a, Zeros(64 - a.ptr)),
                                     groestl_store(a, Zeros(64 - a.ptr)).buf) EXCEPT !.ptr = 0]
             ELSE a
        c == groestl_count(groestl_store(b, Zeros(56 - b.ptr)))
        d == Copied(c.buf, 56, BigEndian(c.c2, 4) \o BigEndian(c.c1, 4))
    IN  groestl_transform(c, d).chaining

-----------------------------------------------------------------------------
(***************************************************************************)
(* JH-256.  Sizes are in bits, as in the code.                             *)
(***************************************************************************)
jh_init == [x |-> <<>>, buf |-> Repeat(Junk, 64), databitlen |-> 0, size |-> 0]

jh_F8(state, block) == [state EXCEPT !.buf = block, !.x = Append(@, block)]

\* The calls of jh_hash: the buffer is empty when a message begins.
jh_update(state, input, last, r) ==
    LET eat[n \in 0 .. Len(input) \div 64] ==
            IF n = 0 THEN [state EXCEPT !.databitlen = @ + 8 * Len(input) + r]
            ELSE jh_F8(eat[n - 1], SubSeq(input, 64 * (n - 1) + 1, 64 * n))
        full == eat[Len(input) \div 64]
        tail == From(input, 64 * (Len(input) \div 64)) \o (IF r > 0 THEN <<last>> ELSE <<>>)
    IN  IF tail = <<>> THEN full
        ELSE [full EXCEPT !.buf = Copied(@, 0, tail), !.size = 8 * (Len(input) % 64) + r]

jh_length(bits) == Zeros(56) \o BigEndian(bits, 8)

\* The bits of the last byte behind the message are zero: the one is or-ed in.
jh_final(state) ==
    LET n == (state.databitlen % 512) \div 8
        r == state.databitlen % 8
        clear == [i \in 1 .. 64 |-> IF i > n + (IF state.size % 8 = 0 THEN 0 ELSE 1)
                                    THEN Lit(0) ELSE state.buf[i]]
        mark == [clear EXCEPT ![n + 1] = IF r = 0 THEN Lit(128) ELSE Cut(@, r)]
    IN  IF state.databitlen % 512 = 0
        THEN jh_F8(state, Copied(jh_length(state.databitlen), 0, <<Lit(128)>>)).x
        ELSE jh_F8(jh_F8(state, mark), jh_length(state.databitlen)).x

-----------------------------------------------------------------------------
(***************************************************************************)
(* Skein-512-256.  The tweak is T[0], the bytes so far, and T[1], a type   *)
(* and flags.                                                              *)
(***************************************************************************)
Skein_Start_New_Type(ctx, type, final) ==
    [ctx EXCEPT !.T0 = 0, !.type = type, !.bCnt = 0,
                !.flags = {"first"} \cup (IF final THEN {"final"} ELSE {})]

Skein_512_Init(hashBitLen) ==
    Skein_Start_New_Type(
        [X |-> <<<<"iv", hashBitLen>>>>, b |-> Repeat(Junk, 64), bCnt |-> 0,
         T0 |-> 0, type |-> "MSG", flags |-> {}], "MSG", FALSE)

Skein_512_Process_Block(ctx, blocks, byteCntAdd) ==
    LET run[n \in 0 .. Len(blocks)] ==
            IF n = 0 THEN ctx
            ELSE LET c == run[n - 1]
                     t == c.T0 + byteCntAdd
                 IN  [c EXCEPT !.T0 = t, !.flags = @ \ {"first"},
                        !.X = Append(@, [block |-> blocks[n], pos |-> t,
                                         type |-> c.type, flags |-> c.flags])]
    IN  run[Len(blocks)]

\* A full block stays in the buffer until a byte follows it.
Skein_512_Update(ctx, msg) ==
    LET fits == Len(msg) + ctx.bCnt <= 64
        n    == IF fits \/ ctx.bCnt = 0 THEN 0 ELSE 64 - ctx.bCnt
        b1   == Copied(ctx.b, ctx.bCnt, SubSeq(msg, 1, n))
        ctx1 == IF ~fits /\ ctx.bCnt > 0
                THEN [Skein_512_Process_Block([ctx EXCEPT !.b = b1], <<b1>>, 64) EXCEPT !.bCnt = 0]
                ELSE ctx
        rest == From(msg, n)
        k    == IF ~fits /\ Len(rest) > 64 THEN (Len(rest) - 1) \div 64 ELSE 0
        ctx2 == Skein_512_Process_Block(ctx1, SubSeq(Blocks(rest, 64), 1, k), 64)
        tail == From(rest, 64 * k)
    IN  [ctx2 EXCEPT !.b = Copied(@, ctx2.bCnt, tail), !.bCnt = @ + Len(tail)]

\* Update of skein_hash, and of xmr_skein: a partial byte goes in by itself.
skein_update(ctx, input, last, r) ==
    IF r = 0 THEN Skein_512_Update(ctx, input)
    ELSE [Skein_512_Update(Skein_512_Update(ctx, input), <<Cut(last, r)>>)
             EXCEPT !.flags = @ \cup {"bitpad"}]

\* The final block, and one output block in counter mode.
Skein_512_Final(ctx) ==
    LET b   == Copied(ctx.b, ctx.bCnt, Zeros(64 - ctx.bCnt))
        end == Skein_512_Process_Block([ctx EXCEPT !.b = b, !.flags = @ \cup {"final"}],
                                       <<b>>, ctx.bCnt)
    IN  Skein_512_Process_Block(Skein_Start_New_Type(end, "OUT", TRUE), <<Zeros(64)>>, 8).X
=============================================================================
