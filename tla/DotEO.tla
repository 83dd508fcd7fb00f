------------------------------- MODULE DotEO -------------------------------
(***************************************************************************)
(* CompressTraits<hwy::bfloat16_t>::DotEO (compression/compress-inl.h):    *)
(* the dot product of a bf16 matrix row `in` with an even-odd              *)
(* deinterleaved f32 vector `vec_aligned`, used by Dot<kVecEO = true>.     *)
(*                                                                         *)
(* With N32 = Lanes(df32), one bf16 vector holds N = 2 * N32 lanes.  The   *)
(* vector is laid out in blocks of N elements: first the N32 even-indexed  *)
(* elements of the block, then its N32 odd-indexed ones.  Each loop        *)
(* iteration consumes two such blocks: the first into sum0 (even lanes)    *)
(* and sum1 (odd lanes), the second into sum2 and sum3.                    *)
(*                                                                         *)
(* Values are abstracted to positions: a product is the pair <<m, v>> of   *)
(* the matrix address and the vector address it multiplies, and an         *)
(* accumulator is the bag of the products added into it, so that a product *)
(* added twice is seen.                                                    *)
(***************************************************************************)
EXTENDS Naturals, Bags

CONSTANTS
    LaneCounts,  \* N32 = hn::Lanes(df32) on the targets considered
    Blocks,      \* num, in units of 2 * N32 (DotEO asserts the alignment)
    OfsBlocks    \* in_ofs, in units of 2 * N32 (DotEO asserts the alignment)

ASSUME LanesAssumption == LaneCounts \subseteq Nat \ {0}
ASSUME BlocksAssumption == Blocks \subseteq Nat \ {0}
ASSUME OfsAssumption == OfsBlocks \subseteq Nat

VARIABLES
    n32,    \* hn::Lanes(df32)
    num,    \* element count
    ofs,    \* in_ofs
    i,      \* the loop index
    sum,    \* sum[k] is the accumulator sumk, k \in 0..3
    dot,    \* the reduced result, once the loop has ended
    phase

vars == <<n32, num, ofs, i, sum, dot, phase>>

\* N = Lanes(dbf16): a bf16 vector has twice the lanes of an f32 vector.
Lanes16 == 2 * n32

\* Mutant: PromoteEvenTo and PromoteOddTo exchanged.
EvenLanesSwapped(base) ==
    {<<ofs + base + 2 * j + 1, base + j>> : j \in 0..(n32 - 1)}

\* MulAdd(Load(vec + base), PromoteEvenTo(LoadU(in + ofs + base))): lane j
\* multiplies matrix element base + 2j by vector element base + j.
EvenLanes(base) ==
    {<<ofs + base + 2 * j, base + j>> : j \in 0..(n32 - 1)}

\* MulAdd(Load(vec + base + N/2), PromoteOddTo(...)): lane j multiplies
\* matrix element base + 2j + 1 by vector element base + N/2 + j.
OddLanes(base) ==
    {<<ofs + base + 2 * j + 1, base + Lanes16 \div 2 + j>> : j \in 0..(n32 - 1)}

\* Mutant: the loop also runs when i = num.
ContinueInclusive(k) == k <= num

\* The loop condition i < num.
Continue(k) == k < num

\* Where logical element k of the row sits in the deinterleaved vector.
VecPos(k) ==
    (k \div Lanes16) * Lanes16
      + (IF k % 2 = 0 THEN 0 ELSE Lanes16 \div 2)
      + (k % Lanes16) \div 2

\* The product of logical element k: matrix element ofs + k times the
\* vector's element k.
Term(k) == <<ofs + k, VecPos(k)>>

\* The products of the logical elements below n, each once.
Upto(n) == {Term(k) : k \in 0..(n - 1)}

\* The reference: the products of matrix element ofs + k with the vector's
\* element k, for every k < num, each once.
Want == SetToBag(Upto(num))

Products == Nat \X Nat

TypeOK ==
    /\ n32 \in LaneCounts
    /\ num \in {b * 2 * n32 : b \in Blocks}
    /\ ofs \in {b * 2 * n32 : b \in OfsBlocks}
    /\ i \in 0..num
    /\ \A k \in 0..3 : IsABag(sum[k]) /\ BagToSet(sum[k]) \subseteq Products
    /\ phase \in {"loop", "done"}

Init ==
    /\ n32 \in LaneCounts
    /\ num \in {b * 2 * n32 : b \in Blocks}
    /\ ofs \in {b * 2 * n32 : b \in OfsBlocks}
    /\ i = 0
    /\ sum = [k \in 0..3 |-> EmptyBag]
    /\ dot = EmptyBag
    /\ phase = "loop"

(* One iteration of the loop: a bf16 vector at i into sum0 and sum1, then  *)
(* the next one, at i + N, into sum2 and sum3.                             *)
Iterate ==
    /\ phase = "loop"
    /\ Continue(i)
    /\ sum' = [sum EXCEPT ![0] = @ (+) SetToBag(EvenLanes(i)),
                          ![1] = @ (+) SetToBag(OddLanes(i)),
                          ![2] = @ (+) SetToBag(EvenLanes(i + Lanes16)),
                          ![3] = @ (+) SetToBag(OddLanes(i + Lanes16))]
    /\ i' = i + 2 * Lanes16
    /\ UNCHANGED <<n32, num, ofs, dot, phase>>

\* The loop ends; the reduction tree adds the four accumulators.
Reduce ==
    /\ phase = "loop"
    /\ ~Continue(i)
    /\ dot' = (sum[0] (+) sum[1]) (+) (sum[2] (+) sum[3])
    /\ phase' = "done"
    /\ UNCHANGED <<n32, num, ofs, i, sum>>

Next == Iterate \/ Reduce

Spec == Init /\ [][Next]_vars

-----------------------------------------------------------------------------
(* DotEO returns the dot product of the row and the vector: every product  *)
(* of matrix element ofs + k with vector element k, for k < num, is added  *)
(* exactly once and no other product is, for every count DotEO's           *)
(* assertion admits.                                                       *)
DotEOMatches == phase = "done" => dot = Want

-----------------------------------------------------------------------------
(* Where the loop stands.                                                  *)

\* What one loop iteration adds to the index: two bf16 vectors, 2 * N.
Stride == 2 * Lanes16

\* The first multiple of 2 * N at or past num: where the loop's index stops.
Reach == ((num + Stride - 1) \div Stride) * Stride

\* The products of the logical elements below n of parity p that lie in a
\* bf16 vector (N elements) of parity q: sum_{p + 2q} once the index is n.
Part(p, q, n) ==
    {Term(k) : k \in {k \in 0..(n - 1) : k % 2 = p /\ (k \div Lanes16) % 2 = q}}

(* The loop invariant of DotEO, for every count and offset: the index is a *)
(* multiple of 2N that has not passed Reach, sum0..sum3 hold exactly the   *)
(* products of the even and odd elements of the even and odd bf16 vectors  *)
(* below it, and the reduction returns every product below Reach once.    *)
DInv ==
    /\ n32 \in LaneCounts
    /\ num \in {b * 2 * n32 : b \in Blocks}
    /\ ofs \in {b * 2 * n32 : b \in OfsBlocks}
    /\ i \in Nat /\ i % Stride = 0 /\ i <= Reach
    /\ sum = [k \in 0..3 |-> SetToBag(Part(k % 2, k \div 2, i))]
    /\ phase \in {"loop", "done"}
    /\ phase = "done" => i = Reach /\ dot = SetToBag(Upto(Reach))

(* What DotEO returns for every count its assertion admits: the product of *)
(* every element below the first multiple of 2N at or past num, each once; *)
(* for an odd number of 2*N32 blocks that is N elements past the row.      *)
DotEOReach == phase = "done" => dot = SetToBag(Upto(Reach))

\* The counts are even numbers of 2*N32 blocks, as the model dimensions give.
EvenBlocks == \A b \in Blocks : b % 2 = 0
=============================================================================
