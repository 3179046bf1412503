----------------------------- MODULE Primitives -----------------------------
(***************************************************************************)
(* The round functions inside the digests and AES, as the code computes    *)
(* them: keccakf (c_keccak.c), soft_aesenc (soft_aes.h), the bit-sliced    *)
(* rounds of JH (c_jh.c), the columns of Groestl (c_groestl.c), the        *)
(* renamed words of Threefish (c_skein.c) and the order of G in BLAKE      *)
(* (c_blake256.c).  No variables.                                          *)
(*                                                                         *)
(* The code works in place, on words, with tables and renamed variables;   *)
(* what it does to bits is kept exactly.  Where a function is linear, a    *)
(* word is the set of the inputs that are xor-ed into it; where it works   *)
(* on each bit alone, a word is one bit.                                   *)
(***************************************************************************)
EXTENDS Integers, Sequences

-----------------------------------------------------------------------------
\* keccakf.  A lane is a set of <<lane of the input, rotation>>.

SymDiff(a, b) == (a \ b) \cup (b \ a)
Rotl(s, n) == {<<p[1], (p[2] + n) % 64>> : p \in s}

Theta(st) ==
    LET bc == [x \in 0 .. 4 |->
                  SymDiff(SymDiff(SymDiff(SymDiff(st[x], st[x + 5]), st[x + 10]),
                                  st[x + 15]), st[x + 20])]
        t  == [x \in 0 .. 4 |-> SymDiff(bc[(x + 4) % 5], Rotl(bc[(x + 1) % 5], 1))]
    IN  [i \in 0 .. 24 |-> SymDiff(st[i], t[i % 5])]

\* st[a] = ROTL64(st[b], n), one after the other, with st[1] saved first.
Moves == <<<<1, 6, 44>>, <<6, 9, 20>>, <<9, 22, 61>>, <<22, 14, 39>>, <<14, 20, 18>>,
           <<20, 2, 62>>, <<2, 12, 43>>, <<12, 13, 25>>, <<13, 19, 8>>, <<19, 23, 56>>,
           <<23, 15, 41>>, <<15, 4, 27>>, <<4, 24, 14>>, <<24, 21, 2>>, <<21, 8, 55>>,
           <<8, 16, 45>>, <<16, 5, 36>>, <<5, 3, 28>>, <<3, 18, 21>>, <<18, 17, 15>>,
           <<17, 11, 10>>, <<11, 7, 6>>, <<7, 10, 3>>>>

\* Mutant of RhoPi: st[1] is not saved.
RhoPi_NotSaved(st) ==
    LET run[i \in 1 .. Len(Moves) + 1, s \in [0 .. 24 -> SUBSET ((0 .. 24) \X (0 .. 63))]] ==
            IF i > Len(Moves) THEN [s EXCEPT ![10] = Rotl(s[1], 1)]
            ELSE run[i + 1, [s EXCEPT ![Moves[i][1]] = Rotl(s[Moves[i][2]], Moves[i][3])]]
    IN  run[1, st]

RhoPi(st) ==
    LET run[i \in 1 .. Len(Moves) + 1, s \in [0 .. 24 -> SUBSET ((0 .. 24) \X (0 .. 63))]] ==
            IF i > Len(Moves) THEN [s EXCEPT ![10] = Rotl(st[1], 1)]
            ELSE run[i + 1, [s EXCEPT ![Moves[i][1]] = Rotl(s[Moves[i][2]], Moves[i][3])]]
    IN  run[1, st]

\* One bit of a row.  Rows 0 to 3 save two words; row 4 saves all five.
AndNot(a, b) == (1 - a) * b
Flip(a, b) == (a + b) % 2

Chi(st) ==
    LET a == [st EXCEPT ![0] = Flip(@, AndNot(st[1], st[2]))]
        b == [a  EXCEPT ![1] = Flip(@, AndNot(a[2], a[3]))]
        c == [b  EXCEPT ![2] = Flip(@, AndNot(b[3], b[4]))]
        d == [c  EXCEPT ![3] = Flip(@, AndNot(c[4], st[0]))]
    IN  [d EXCEPT ![4] = Flip(@, AndNot(st[0], st[1]))]

\* The bits that are set in each round constant.
keccakf_rndc ==
    <<{0}, {1, 7, 15}, {1, 3, 7, 15, 63}, {15, 31, 63}, {0, 1, 3, 7, 15}, {0, 31},
      {0, 7, 15, 31, 63}, {0, 3, 15, 63}, {1, 3, 7}, {3, 7}, {0, 3, 15, 31}, {1, 3, 31},
      {0, 1, 3, 7, 15, 31}, {0, 1, 3, 7, 63}, {0, 3, 7, 15, 63}, {0, 1, 15, 63},
      {1, 15, 63}, {7, 63}, {1, 3, 15}, {1, 3, 31, 63}, {0, 7, 15, 31, 63},
      {7, 15, 63}, {0, 31}, {3, 15, 31, 63}>>

-----------------------------------------------------------------------------
\* soft_aesenc: a byte is a function from S-box outputs to their coefficient.

\* saes_u0 .. saes_u3: the bytes of the entry of table k, lowest first.
saes_u(k) == CASE k = 0 -> <<2, 1, 1, 3>>
               [] k = 1 -> <<3, 2, 1, 1>>
               [] k = 2 -> <<1, 3, 2, 1>>
               [] k = 3 -> <<1, 1, 3, 2>>

\* Byte b of word w of the result: which byte of which word, times what.
soft_aesenc(w, b) == {<<k, (w + k) % 4, saes_u(k)[b + 1]>> : k \in 0 .. 3}

\* soft_aeskeygenassist on words X1 and X3 after sub_word: words 0 to 3, each a
\* sequence of bytes, with the byte that rcon is added to.
soft_aeskeygenassist(X1, X3) ==
    LET rotr8(x) == <<x[2], x[3], x[4], x[1]>>
        rcon(x) == [x EXCEPT ![1] = <<"rcon", @>>]
    IN  <<X1, rcon(rotr8(X1)), X3, rcon(rotr8(X3))>>

-----------------------------------------------------------------------------
\* JH, one bit position of eight words: m[0 .. 7].

\* SS: two S-boxes side by side, selected by the constant bits cc0 and cc1.
SS(m, cc0, cc1) ==
    LET or(a, b) == IF a = 1 \/ b = 1 THEN 1 ELSE 0
        box(a, cc) ==
            LET a3 == 1 - a[4]
                a0 == Flip(a[1], AndNot(a[3], cc))
                t  == Flip(cc, a0 * a[2])
                b0 == Flip(a0, a[3] * a3)
                b3 == Flip(a3, AndNot(a[2], a[3]))
                b1 == Flip(a[2], b0 * a[3])
                b2 == Flip(a[3], AndNot(b3, b0))
                c0 == Flip(b0, or(b1, b3))
                c3 == Flip(b3, b1 * b2)
                c1 == Flip(b1, t * c0)
            IN  <<c0, c1, Flip(b2, t), c3>>
    IN  box(SubSeq(m, 1, 4), cc0) \o box(SubSeq(m, 5, 8), cc1)

\* L: the MDS layer, in place.
MDS(m) ==
    LET m4 == Flip(m[5], m[2])
        m5 == Flip(m[6], m[3])
        m6 == Flip(m[7], Flip(m[1], m[4]))
        m7 == Flip(m[8], m[1])
    IN  <<Flip(m[1], m5), Flip(m[2], m6), Flip(m[3], Flip(m4, m7)), Flip(m[4], m4),
          m4, m5, m6, m7>>

\* SWAP1 .. SWAP32 on a 64-bit word, by masks and shifts.
SwapBits(x, n) ==
    [p \in 0 .. 63 |-> IF (p \div n) % 2 = 1 THEN x[p - n] ELSE x[p + n]]

\* The swapping layers of seven rounds on one odd row, two words x[i][0], x[i][1]:
\* within each word by 1, 2, 4, ..., 32, and then the two words change places.
Swaps(x) ==
    LET run[r \in 0 .. 6, w \in [0 .. 63 -> 0 .. 127]] ==
            IF r = 6 THEN w ELSE run[r + 1, SwapBits(w, 2^r)]
    IN  <<run[0, x[2]], run[0, x[1]]>>

-----------------------------------------------------------------------------
\* Groestl: where the bytes of column i of a round's result come from.

\* The word of x that COLUMN number k of the round reads its byte j from.
RND512P(k, j) == IF j < 4 THEN (2 * k + 2 * j) % 16 ELSE (2 * k + 9 + 2 * (j - 4)) % 16
RND512Q(k, j) == IF j < 4 THEN (2 * k + 2 + 4 * j) % 16 ELSE (2 * k + 1 + 4 * (j - 4)) % 16

\* COLUMN: byte (j mod 4) of the word c[j] read for j, through the table, rotated down
\* by j mod 4, and into the other half for j >= 4.  <<row, column>> of the byte
\* and the row of the table's column it meets in row i of the result.
COLUMN(c, i) ==
    {LET w    == c[j]
         down == j % 4
         half == IF j < 4 THEN i ELSE (i + 4) % 8
     IN  <<4 * (w % 2) + (j % 4), w \div 2, (half - down) % 8>> : j \in 0 .. 7}

\* The calls RND512(from, to, r), r = 0 .. 9, of a permutation that starts in buffer
\* a, goes to and fro between y and z, and ends in buffer b.
Passes(a, b) ==
    [i \in 1 .. 10 |->
        <<IF i = 1 THEN a ELSE IF i % 2 = 0 THEN "y" ELSE "z",
          IF i = 10 THEN b ELSE IF i % 2 = 1 THEN "y" ELSE "z", i - 1>>]

\* A round overwrites its source (the constants are added in place) and its target.
\* buffers: name -> what it holds, a term.
RunPasses(buffers, name, passes) ==
    LET step(m, c) == [m EXCEPT ![c[1]] = <<"spent">>, ![c[2]] = <<name, c[3], m[c[1]]>>]
        run[i \in 0 .. Len(passes)] == IF i = 0 THEN buffers ELSE step(run[i - 1], passes[i])
    IN  run[Len(passes)]

\* F512(h, m): Q of the message first, then P of h xor m, in the same buffers.
F512(h, m) ==
    LET start == [z |-> <<m>>, Ptmp |-> <<h, m>>, y |-> <<"spent">>, Qtmp |-> <<"spent">>]
        q     == RunPasses(start, "Q", Passes("z", "Qtmp"))
        p     == RunPasses(q, "P", Passes("Ptmp", "Ptmp"))
    IN  {h, p.Ptmp, p.Qtmp}

\* h <- P(h) + h
OutputTransformation(h) ==
    LET start == [temp |-> <<h>>, y |-> <<"spent">>, z |-> <<"spent">>]
    IN  {h, RunPasses(start, "P", Passes("temp", "temp")).temp}

-----------------------------------------------------------------------------
\* Threefish-512, on terms: a word is what has been done to it.

R_512 == <<<<46, 36, 19, 37>>, <<33, 27, 14, 42>>, <<17, 49, 36, 39>>, <<44, 9, 54, 56>>,
           <<39, 30, 34, 24>>, <<13, 50, 10, 17>>, <<25, 29, 39, 43>>, <<8, 35, 56, 22>>>>

\* Round512(p0, ..., p7, ROT) on the words X0 .. X7.
Round512(X, p, rot) ==
    LET in(w, q) == {i \in 0 .. 3 : p[2 * i + q] = w}
        sum(i)   == <<"add", X[p[2 * i + 1]], X[p[2 * i + 2]]>>
    IN  [w \in 0 .. 7 |->
            IF in(w, 1) # {} THEN sum(CHOOSE i \in in(w, 1) : TRUE)
            ELSE LET i == CHOOSE i \in in(w, 2) : TRUE
                 IN  <<"mix", X[w], rot[i + 1], sum(i)>>]

\* The four orders of the words, by which the permutation of a round is renamed away.
Orders == <<<<0, 1, 2, 3, 4, 5, 6, 7>>, <<2, 1, 4, 7, 6, 5, 0, 3>>,
            <<4, 1, 6, 3, 0, 5, 2, 7>>, <<6, 1, 0, 7, 2, 5, 4, 3>>>>

\* I512(R): the words of the key schedule and the tweak that are added.
I512(R) ==
    [i \in 0 .. 7 |-> <<(R + 1 + i) % 9,
                        CASE i = 5 -> <<"ts", (R + 1) % 3>> [] i = 6 -> <<"ts", (R + 2) % 3>>
                          [] i = 7 -> <<"R", R + 1>> [] OTHER -> <<"none", 0>>>>]

\* Rounds 4 R + 1 to 4 R + 4 and the injection behind them; R is even or odd.
Threefish4(X, R) ==
    LET rot(i) == R_512[4 * (R % 2) + i]
        X4 == Round512(Round512(Round512(Round512(X, Orders[1], rot(1)), Orders[2], rot(2)),
                                Orders[3], rot(3)), Orders[4], rot(4))
    IN  [i \in 0 .. 7 |-> <<X4[i], I512(R)[i]>>]

-----------------------------------------------------------------------------
\* BLAKE: one round of G on terms, in the order of the code.

sigma == <<<<0, 1, 2, 3, 4, 5, 6, 7, 8, 9, 10, 11, 12, 13, 14, 15>>,
           <<14, 10, 4, 8, 9, 15, 13, 6, 1, 12, 0, 2, 11, 7, 5, 3>>,
           <<11, 8, 12, 0, 5, 2, 15, 13, 10, 14, 3, 6, 7, 1, 9, 4>>,
           <<7, 9, 3, 1, 13, 12, 11, 14, 2, 6, 5, 10, 4, 0, 15, 8>>,
           <<9, 0, 5, 7, 2, 4, 10, 15, 14, 1, 11, 12, 6, 8, 3, 13>>,
           <<2, 12, 6, 10, 0, 11, 8, 3, 4, 13, 7, 5, 15, 14, 1, 9>>,
           <<12, 5, 1, 15, 14, 13, 4, 10, 0, 7, 6, 3, 9, 2, 8, 11>>,
           <<13, 11, 7, 14, 12, 1, 3, 9, 5, 0, 15, 4, 8, 6, 2, 10>>,
           <<6, 15, 14, 9, 11, 3, 0, 8, 12, 2, 13, 7, 1, 4, 10, 5>>,
           <<10, 2, 8, 4, 7, 6, 1, 5, 15, 11, 9, 14, 3, 12, 13, 0>>>>

\* G(a, b, c, d, e) in round i: each word becomes a term of the four and of the
\* two message words, whose constants are exchanged.
G(v, i, a, b, c, d, e) ==
    LET row == sigma[(i % 10) + 1]
        t   == <<v[a], v[b], v[c], v[d], row[e + 1], row[e + 2]>>
    IN  [v EXCEPT ![a] = <<"a", t>>, ![b] = <<"b", t>>, ![c] = <<"c", t>>, ![d] = <<"d", t>>]

blake_round(v, i) ==
    LET c == G(G(G(G(v, i, 0, 4, 8, 12, 0), i, 1, 5, 9, 13, 2),
               i, 2, 6, 10, 14, 4), i, 3, 7, 11, 15, 6)
    IN  G(G(G(G(c, i, 3, 4, 9, 14, 14), i, 2, 7, 8, 13, 12),
          i, 0, 5, 10, 15, 8), i, 1, 6, 11, 12, 10)
=============================================================================
