----------------------------- MODULE MCHashrate -----------------------------
(* Two threads, two and three hashes per batch, and a ring of four buckets. *)
EXTENDS Hashrate

MCFactor == [t \in 0 .. 1 |-> t + 2]

=============================================================================
