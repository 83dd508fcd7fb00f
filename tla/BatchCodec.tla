----------------------------- MODULE BatchCodec -----------------------------
(***************************************************************************)
(* Bulk Compress and Decompress of compression/compress-inl.h for the f32  *)
(* and bf16 representations: the element range is cut into batches of     *)
(* kBatch that pool.Run hands to worker threads in any order, and each     *)
(* batch runs the CompressTraits<MatT> vector loop over its sub-range.     *)
(*                                                                         *)
(* Values are abstracted to positions: the caller's input element k is     *)
(* the value k, and compressing or decompressing it keeps that identity    *)
(* (the rounding of bf16 is irrelevant to where elements go).  Memory is a *)
(* function from addresses to values that runs Slack cells past the end of *)
(* the buffer: after CompressedArray::data_ lies scale_ (compress.h:105-   *)
(* 107), after the caller's output buffer some other object.  A vector    *)
(* loop is modelled by the set of addresses it loads and the function it   *)
(* stores; a lane that LoadN leaves unloaded is Zero, a load past the      *)
(* input buffer yields Junk.                                               *)
(*                                                                         *)
(* A batch is one step.  Batches of a correct split write disjoint ranges; *)
(* where they would not, batch order still shows which writer wins.        *)
(***************************************************************************)
EXTENDS Naturals, FiniteSets

CONSTANTS
    Types,       \* representations: "f32", "bf16"
    LaneCounts,  \* hn::Lanes(df) of f32 vectors on the targets considered
    Batch,       \* kBatch (8192 in the code)
    Nums,        \* element counts num passed to Compress / Decompress
    Slack,       \* cells modelled past the end of a buffer
    Junk,        \* bytes read past the end of the input buffer
    Zero,        \* a lane LoadN left unloaded
    Unset,       \* an output element not written yet
    Scale,       \* CompressedArray::scale_, stored right after data_
    Other,       \* memory after the caller's output buffer
    Aligned      \* callers keep to the alignment that debug builds assert

ASSUME TypesAssumption == Types \subseteq {"f32", "bf16"}
ASSUME BatchAssumption == Batch \in Nat \ {0}
ASSUME LanesAssumption ==
    LaneCounts \subseteq Nat \ {0} /\ \A n \in LaneCounts : Batch % (2 * n) = 0
ASSUME NumsAssumption == Nums \subseteq Nat \ {0} /\ IsFiniteSet(Nums)
ASSUME AlignedAssumption == Aligned \in BOOLEAN
ASSUME SlackAssumption == Slack \in Nat /\ \A n \in LaneCounts : 2 * n <= Slack

VARIABLES
    ty,      \* MatT
    lanes,   \* N = hn::Lanes(df)
    num,     \* element count (kCapacity for a whole CompressedArray)
    cmp,     \* compressed.data() and the scale_ after it
    dec,     \* Decompress's out buffer and what follows it
    cdone,   \* Compress batches that ran
    ddone,   \* Decompress batches that ran
    reads,   \* input elements Compress loaded
    creads,  \* compressed elements Decompress loaded
    phase

vars == <<ty, lanes, num, cmp, dec, cdone, ddone, reads, creads, phase>>

\* What a cell can hold: one of the num input elements, or a marker.
Values == (0..(num - 1)) \cup {Junk, Zero, Unset, Scale, Other}
Memory(n) == 0..(n + Slack - 1)

Min2(a, b) == IF a < b THEN a ELSE b
\* The k addresses from base on.
Span(base, k) == {base + l - 1 : l \in 1..k}

\* hwy::DivCeil.
DivCeil(a, b) == (a + b - 1) \div b

\* Memory m after the stores w (a function from addresses to values).
Stored(w, m) == [a \in DOMAIN w \cup DOMAIN m |-> IF a \in DOMAIN w THEN w[a] ELSE m[a]]

\* Element k of the caller's float input, or what lies after it.
In(k) == IF k < num THEN k ELSE Junk

-----------------------------------------------------------------------------
(* CompressTraits<float>: for (i = 0; i < num; i += 2N) two full vectors   *)
(* are loaded from in + i and stored at out + out_ofs + i (Compress), or   *)
(* loaded from in + in_ofs + i and stored at out + i (Decompress).         *)
F32Span(n) == {i + l : i \in {c \in 0..(n - 1) : c % (2 * lanes) = 0},
                       l \in 0..(2 * lanes - 1)}

F32Compress(i0, n, o) == [a \in {o + j : j \in F32Span(n)} |-> In(i0 + a - o)]
F32CompressReads(i0, n) == {i0 + j : j \in F32Span(n)}

F32Decompress(ci, n, o) == [a \in {o + j : j \in F32Span(n)} |-> cmp[ci + a - o]]
F32DecompressReads(ci, n) == {ci + j : j \in F32Span(n)}

\* Where `for (; i <= num - w; i += w)`, entered only if num >= w, stops.
MainEnd(n, w) == (n \div w) * w

(* CompressTraits<bfloat16_t>::Compress: full 2N chunks, then for a        *)
(* remainder rem: in0 = LoadN(in + i, rem), in1 = LoadN(in + i + N, rem1)  *)
(* and one StoreU of the 2N demoted lanes at out + out_ofs + i.            *)
Bf16Rem1(rem) == rem - Min2(rem, lanes \div 2)

Bf16Lane(i0, e, rem, j) ==
    IF j < lanes
      THEN IF j < Min2(rem, lanes) THEN In(i0 + e + j) ELSE Zero
      ELSE IF j - lanes < Bf16Rem1(rem) THEN In(i0 + e + j) ELSE Zero

Bf16Compress(i0, n, o) ==
    LET e   == MainEnd(n, 2 * lanes)
        rem == n - e
        St  == Span(0, e) \cup (IF rem # 0 THEN Span(e, 2 * lanes) ELSE {})
    IN  [a \in {o + j : j \in St} |->
           IF a - o < e THEN In(i0 + a - o) ELSE Bf16Lane(i0, e, rem, a - o - e)]

Bf16CompressReads(i0, n) ==
    LET e   == MainEnd(n, 2 * lanes)
        rem == n - e
    IN  Span(i0, e)
          \cup (IF rem # 0
                  THEN Span(i0 + e, Min2(rem, lanes))
                         \cup Span(i0 + e + lanes, Bf16Rem1(rem))
                  ELSE {})

(* CompressTraits<bfloat16_t>::Decompress: full chunks of N16 = 2N, then   *)
(* in16 = LoadN(in + in_ofs + i, rem), StoreN of its lower half with rem   *)
(* lanes at out + i and of its upper half with rem1 lanes at out + i + N;  *)
(* StoreN stores at most N lanes.                                          *)
Bf16DecRem1Half(rem) == rem - Min2(rem, lanes \div 2)

Bf16DecRem1(rem) == rem - Min2(rem, (2 * lanes) \div 2)

Bf16Decompress(ci, n, o) ==
    LET e   == MainEnd(n, 2 * lanes)
        rem == n - e
        Lane(l) == IF l < rem THEN cmp[ci + e + l] ELSE Zero
        St  == Span(0, e) \cup Span(e, Min2(rem, lanes))
                 \cup Span(e + lanes, Min2(Bf16DecRem1(rem), lanes))
    IN  [a \in {o + j : j \in St} |->
           IF a - o < e THEN cmp[ci + a - o] ELSE Lane(a - o - e)]

Bf16DecompressReads(ci, n) ==
    LET e == MainEnd(n, 2 * lanes) IN Span(ci, e) \cup Span(ci + e, n - e)

\* CompressTraits<MatT>, chosen statically by the array's type.
TraitsCompress(i0, n, o) ==
    IF ty = "f32" THEN F32Compress(i0, n, o) ELSE Bf16Compress(i0, n, o)
TraitsCompressReads(i0, n) ==
    IF ty = "f32" THEN F32CompressReads(i0, n) ELSE Bf16CompressReads(i0, n)
TraitsDecompress(ci, n, o) ==
    IF ty = "f32" THEN F32Decompress(ci, n, o) ELSE Bf16Decompress(ci, n, o)
TraitsDecompressReads(ci, n) ==
    IF ty = "f32" THEN F32DecompressReads(ci, n) ELSE Bf16DecompressReads(ci, n)

-----------------------------------------------------------------------------
(* The batch split shared by Compress and Decompress.                      *)
NumBatches == DivCeil(num, Batch)
Batches == 0..(NumBatches - 1)

\* Mutant: every batch, the last included, takes kBatch elements.
BatchNumUncapped(b) == Batch

\* my_num / batch: the last batch takes what is left.
BatchNum(b) == IF b = NumBatches - 1 THEN num - b * Batch ELSE Batch

\* CompressTraits<float>::Compress asserts (debug builds only) that num is a
\* multiple of 2N; with Aligned the callers keep to it, otherwise a release
\* build runs the loop on any count.
Admissible(t, n, l) == (Aligned /\ t = "f32") => n % (2 * l) = 0

TypeOK ==
    /\ ty \in Types
    /\ lanes \in LaneCounts
    /\ num \in Nums
    /\ cmp \in [Memory(num) -> Values]
    /\ dec \in [Memory(num) -> Values]
    /\ cdone \subseteq Batches
    /\ ddone \subseteq Batches
    /\ reads \in SUBSET Nat
    /\ creads \in SUBSET Nat
    /\ phase \in {"compress", "decompress", "done"}

(* Compress(in, work, compressed, pool) of a whole CompressedArray: out_ofs *)
(* 0, out_capacity kCapacity, then Decompress(compressed, 0, out, num,      *)
(* pool) of the same elements.                                             *)
Init ==
    /\ ty \in Types
    /\ lanes \in LaneCounts
    /\ num \in {n \in Nums : Admissible(ty, n, lanes)}
    /\ cmp = [a \in Memory(num) |-> IF a < num THEN Unset ELSE Scale]
    /\ dec = [a \in Memory(num) |-> IF a < num THEN Unset ELSE Other]
    /\ cdone = {} /\ ddone = {}
    /\ reads = {} /\ creads = {}
    /\ phase = "compress"

(* The pool.Run lambda of Compress for batch b: in_ofs = b * kBatch,       *)
(* Traits::Compress(df, in + in_ofs, my_num, .., out, out_ofs + in_ofs).   *)
(* pool.Run returns once every batch ran.                                  *)
CompressBatch(b) ==
    /\ phase = "compress"
    /\ b \in Batches \ cdone
    /\ cmp' = Stored(TraitsCompress(b * Batch, BatchNum(b), b * Batch), cmp)
    /\ reads' = reads \cup TraitsCompressReads(b * Batch, BatchNum(b))
    /\ cdone' = cdone \cup {b}
    /\ phase' = IF cdone' = Batches THEN "decompress" ELSE phase
    /\ UNCHANGED <<ty, lanes, num, dec, ddone, creads>>

\* Mutant: the batch reads the compressed array at compressed_ofs, not + ofs.
DecompressBatchNoOfs(b) ==
    /\ phase = "decompress"
    /\ b \in Batches \ ddone
    /\ dec' = Stored(TraitsDecompress(0, BatchNum(b), b * Batch), dec)
    /\ creads' = creads \cup TraitsDecompressReads(0, BatchNum(b))
    /\ ddone' = ddone \cup {b}
    /\ phase' = IF ddone' = Batches THEN "done" ELSE phase
    /\ UNCHANGED <<ty, lanes, num, cmp, cdone, reads>>

(* The pool.Run lambda of Decompress for batch b: ofs = b * kBatch,        *)
(* Traits::Decompress(d, .., compressed_ofs + ofs, out + ofs, batch).      *)
DecompressBatch(b) ==
    /\ phase = "decompress"
    /\ b \in Batches \ ddone
    /\ dec' = Stored(TraitsDecompress(b * Batch, BatchNum(b), b * Batch), dec)
    /\ creads' = creads \cup TraitsDecompressReads(b * Batch, BatchNum(b))
    /\ ddone' = ddone \cup {b}
    /\ phase' = IF ddone' = Batches THEN "done" ELSE phase
    /\ UNCHANGED <<ty, lanes, num, cmp, cdone, reads>>

Next ==
    \/ \E b \in Batches : CompressBatch(b)
    \/ \E b \in Batches : DecompressBatch(b)

Spec == Init /\ [][Next]_vars

-----------------------------------------------------------------------------
(* Properties.                                                             *)

\* The elements batch b covers.
BatchRange(b) == (b * Batch)..(b * Batch + BatchNum(b) - 1)

(* The inductive invariant behind RoundTrip: below num, the compressed      *)
(* array and the output hold nothing but the element of their own position *)
(* (or are still unset), every batch that ran filled its whole range, and  *)
(* decompression starts only after every compress batch ran.  Batches may  *)
(* run in any order and the bf16 tail store of the last batch may spill    *)
(* past num; neither may put a wrong element below num.                    *)
RInv ==
    /\ TypeOK
    /\ Admissible(ty, num, lanes)
    /\ \A j \in 0..(num - 1) : cmp[j] \in {Unset, j} /\ dec[j] \in {Unset, j}
    /\ \A b \in cdone : \A j \in BatchRange(b) : cmp[j] = j
    /\ \A b \in ddone : \A j \in BatchRange(b) : dec[j] = j
    /\ phase = "compress" => ddone = {}
    /\ phase \in {"decompress", "done"} => cdone = Batches
    /\ phase = "done" => ddone = Batches

(* Decompressing what Compress wrote gives back every element at its own   *)
(* position, whatever the type, lane count, element count and the order in *)
(* which the pool ran the batches: the batch split, the full-vector loops  *)
(* and the remainder handling of both directions must agree.               *)
RoundTrip ==
    phase = "done" => \A j \in 0..(num - 1) : dec[j] = j

(* Decompress loads only the num compressed elements it was asked for and  *)
(* stores only into out[0, num): the remainder's StoreN counts stop at the *)
(* end of the output buffer.                                               *)
DecompressInBounds ==
    /\ creads \subseteq 0..(num - 1)
    /\ \A a \in DOMAIN dec : a >= num => dec[a] = Other

(* Compress loads only the num input floats (spec 4.4: a count that breaks *)
(* the alignment gives undefined trailing bytes, not a crash).             *)
CompressReadsInBounds ==
    reads \subseteq 0..(num - 1)

(* Compress of a whole CompressedArray stores only into data_, never into  *)
(* the scale_ that follows it.                                             *)
CompressWritesInBounds ==
    \A a \in DOMAIN cmp : a >= num => cmp[a] = Scale
=============================================================================
