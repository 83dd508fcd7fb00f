---------------------------- MODULE MCBatchCodec ----------------------------
(* Instance of BatchCodec for TLC: batches of 16 elements (kBatch scaled   *)
(* down; still a multiple of every 2N), f32 vectors of 1, 2 or 4 lanes,    *)
(* counts up to 34 so that there are one, two and three batches.          *)
EXTENDS BatchCodec

MCNums == 1..34

\* Counts that are multiples of N = 2, as CompressTraits<bfloat16_t>::Dot
\* requires, but not all of 2N.
MCEvenNums == {n \in 1..34 : n % 2 = 0}
=============================================================================
