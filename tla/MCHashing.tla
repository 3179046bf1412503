----------------------------- MODULE MCHashing ------------------------------
EXTENDS Hashing

\* Every length from nothing to the 200 bytes of a state that CryptoNight digests.
MCLengths == 0 .. 200
=============================================================================
