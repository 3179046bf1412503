------------------------- MODULE MCCryptoNight -------------------------
(* Small mixing functions in place of the AES round and of the digests. *)
EXTENDS CryptoNight

MCCells == [a \in Algos |-> IF a = "lite" THEN 8 ELSE 16]
MCIterations == [a \in Algos |-> IF a = "lite" THEN 1 ELSE 2]

MCSubWord(x) == <<6, 4, 12, 5, 0, 7, 2, 14, 1, 15, 3, 13, 8, 10, 9, 11>>[x + 1]
MCRotWord(x) == (x \div 2) + 8 * (x % 2)
MCAesPerm(x) ==
    LET mix(a, b) == XorTable[MCSubWord(a)][MCRotWord(MCSubWord(b))]
    IN  <<mix(x[1], x[2]), mix(x[2], x[3]), mix(x[3], x[4]), mix(x[4], x[1])>>
MCKeccakOf(in) == [w \in 0 .. 24 |-> (131 * in + 37 * w * w + 11 * w + 5 * in * w + 7) % 256]
MCKeccakPerm(s) == [w \in 0 .. 24 |-> XorWord(s[w], (s[(w + 9) % 25] * 5 + w) % 256)]
MCExtraHash(i, s) == <<i, [w \in 0 .. 24 |-> (s[w] * (2 * i + 1)) % 256]>>
=============================================================================
