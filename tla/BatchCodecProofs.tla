-------------------------- MODULE BatchCodecProofs --------------------------
(***************************************************************************)
(* Proofs about BatchCodec for every value of the constants: the batch    *)
(* split covers the element range, the vector loops of both traits store   *)
(* each element at its own position, and so Decompress after Compress      *)
(* gives back the input whatever the order of the batches.                 *)
(***************************************************************************)
EXTENDS BatchCodec, TLAPS

USE TypesAssumption, BatchAssumption, LanesAssumption, NumsAssumption,
    AlignedAssumption, SlackAssumption

-----------------------------------------------------------------------------
(* Arithmetic of the loops.                                                *)

(* The main loop of a 2N-chunked trait stops at most one chunk short of n, *)
(* and exactly at n when n is a multiple of the chunk.                     *)
LEMMA MainEndFacts ==
    ASSUME NEW n \in Nat, NEW w \in Nat \ {0}
    PROVE  /\ MainEnd(n, w) \in 0..n
           /\ n - MainEnd(n, w) < w
           /\ n % w = 0 <=> MainEnd(n, w) = n
BY DEF MainEnd

(* A multiple of m below a multiple n of m ends a whole chunk before n.    *)
LEMMA ChunkBelow ==
    ASSUME NEW n \in Nat, NEW m \in Nat \ {0}, NEW c \in Nat,
           c % m = 0, n % m = 0, c < n
    PROVE  c + m <= n
<1>1. c = (c \div m) * m /\ n = (n \div m) * m
  OBVIOUS
<1>2. (c \div m) < (n \div m)
  BY <1>1
<1>3. (c \div m) * m + m <= (n \div m) * m
  BY <1>2
<1>4. QED
  BY <1>1, <1>3

(* A multiple of m leaves no remainder.                                   *)
LEMMA MultipleMod ==
    ASSUME NEW z \in Nat, NEW m \in Nat \ {0}
    PROVE  (z * m) % m = 0
<1> DEFINE q == (z * m) \div m
           r == (z * m) % m
<1>1. z * m = q * m + r /\ r \in 0..(m - 1) /\ q \in Nat
  OBVIOUS
<1>2. z = q
  <2>1. CASE z >= q + 1
    <3>1. z * m >= q * m + m
      BY <2>1
    <3>2. QED
      BY <1>1, <3>1
  <2>2. CASE q >= z + 1
    <3>1. q * m >= z * m + m
      BY <2>2
    <3>2. QED
      BY <1>1, <3>1
  <2>3. QED
    BY <2>1, <2>2
<1>3. QED
  BY <1>1, <1>2

(* Differences and multiples of multiples of m are multiples of m.         *)
LEMMA MultipleSub ==
    ASSUME NEW x \in Nat, NEW y \in Nat, NEW k \in Nat, NEW m \in Nat \ {0},
           x % m = 0, y % m = 0, k * y <= x
    PROVE  (x - k * y) % m = 0
<1>1. x = (x \div m) * m /\ y = (y \div m) * m
  OBVIOUS
<1>2. x - k * y = ((x \div m) - k * (y \div m)) * m
  BY <1>1
<1>3. (x \div m) - k * (y \div m) \in Nat
  BY <1>1, <1>2
<1>4. QED
  BY <1>2, <1>3, MultipleMod

-----------------------------------------------------------------------------
(* The batch split.                                                        *)

(* hwy::DivCeil(num, kBatch) batches of kBatch elements overshoot num by   *)
(* less than one batch.                                                    *)
LEMMA NumBatchesFacts ==
    ASSUME num \in Nat \ {0}
    PROVE  /\ NumBatches \in Nat \ {0}
           /\ NumBatches * Batch >= num
           /\ (NumBatches - 1) * Batch <= num - 1
<1>1. NumBatches \in Nat /\ NumBatches * Batch <= num + Batch - 1
      /\ NumBatches * Batch + Batch > num + Batch - 1
  BY DEF NumBatches, DivCeil
<1>2. (NumBatches - 1) * Batch = NumBatches * Batch - Batch
  BY <1>1
<1>3. NumBatches # 0
  BY <1>1
<1>4. QED
  BY <1>1, <1>2, <1>3

(* Each batch starts inside the range, takes between one and kBatch        *)
(* elements and ends at or before num; every batch but the last takes      *)
(* exactly kBatch, and the last ends exactly at num.                       *)
LEMMA BatchFacts ==
    ASSUME num \in Nat \ {0}, NEW b \in Batches
    PROVE  /\ b \in Nat /\ b * Batch \in Nat
           /\ BatchNum(b) \in 1..Batch
           /\ b * Batch + BatchNum(b) <= num
           /\ b # NumBatches - 1 => BatchNum(b) = Batch
           /\ b = NumBatches - 1 => b * Batch + BatchNum(b) = num
<1>1. NumBatches \in Nat \ {0} /\ NumBatches * Batch >= num
      /\ (NumBatches - 1) * Batch <= num - 1
  BY NumBatchesFacts
<1>2. b \in 0..(NumBatches - 1)
  BY DEF Batches
<1>3. b * Batch \in Nat /\ b * Batch <= (NumBatches - 1) * Batch
  BY <1>1, <1>2
<1>4. CASE b = NumBatches - 1
  BY <1>1, <1>2, <1>3, <1>4 DEF BatchNum
<1>5. CASE b # NumBatches - 1
  <2>1. b + 1 <= NumBatches - 1
    BY <1>1, <1>2, <1>5
  <2>2. (b + 1) * Batch <= (NumBatches - 1) * Batch
    BY <1>1, <1>2, <2>1
  <2>3. QED
    BY <1>1, <1>2, <1>3, <1>5, <2>2 DEF BatchNum
<1>6. QED
  BY <1>4, <1>5

(* The batches cover the element range: element j lies in batch            *)
(* j / kBatch.                                                             *)
LEMMA BatchesCover ==
    ASSUME num \in Nat \ {0}, NEW j \in 0..(num - 1)
    PROVE  \E b \in Batches : j \in BatchRange(b)
<1> DEFINE q == j \div Batch
<1>1. q \in Nat /\ q * Batch <= j /\ j < q * Batch + Batch
  OBVIOUS
<1>2. q \in Batches
  <2>1. NumBatches \in Nat \ {0} /\ NumBatches * Batch >= num
    BY NumBatchesFacts
  <2>2. q <= NumBatches - 1
    <3> SUFFICES ASSUME q >= NumBatches PROVE FALSE
      BY <2>1, <1>1
    <3>1. q * Batch >= NumBatches * Batch
      BY <2>1, <1>1
    <3>2. QED
      BY <1>1, <2>1, <3>1
  <2>3. QED
    BY <1>1, <2>2 DEF Batches
<1>3. j \in BatchRange(q)
  <2>1. CASE q = NumBatches - 1
    BY <1>1, <1>2, <2>1, BatchFacts DEF BatchRange
  <2>2. CASE q # NumBatches - 1
    BY <1>1, <1>2, <2>2, BatchFacts DEF BatchRange
  <2>3. QED
    BY <2>1, <2>2
<1>4. QED
  BY <1>2, <1>3

-----------------------------------------------------------------------------
(* The vector loops.                                                       *)

(* The lanes a loop over chunks of m lanes touches for n elements.        *)
Chunked(n, m) == {i + l : i \in {c \in 0..(n - 1) : c % m = 0}, l \in 0..(m - 1)}

(* A loop of m-lane chunks covers every element, runs at most m - 1 lanes  *)
(* past n, and none when n is a multiple of m.                             *)
LEMMA ChunkedFacts ==
    ASSUME NEW n \in Nat, NEW m \in Nat \ {0}
    PROVE  /\ 0..(n - 1) \subseteq Chunked(n, m)
           /\ Chunked(n, m) \subseteq 0..(n + m - 2)
           /\ n % m = 0 => Chunked(n, m) \subseteq 0..(n - 1)
<1> DEFINE Starts == {c \in 0..(n - 1) : c % m = 0}
<1>1. Chunked(n, m) = {i + l : i \in Starts, l \in 0..(m - 1)}
  BY DEF Chunked
<1>2. 0..(n - 1) \subseteq Chunked(n, m)
  <2> SUFFICES ASSUME NEW j \in 0..(n - 1) PROVE j \in Chunked(n, m)
    OBVIOUS
  <2>1. (j \div m) * m \in Starts
    <3>1. (j \div m) \in Nat /\ (j \div m) * m \in 0..j
      OBVIOUS
    <3>2. ((j \div m) * m) % m = 0
      BY <3>1, MultipleMod
    <3>3. QED
      BY <3>1, <3>2
  <2>2. j - (j \div m) * m \in 0..(m - 1)
    OBVIOUS
  <2>3. \E i \in Starts, l \in 0..(m - 1) : j = i + l
    BY <2>1, <2>2
  <2>4. QED
    BY <2>3 DEF Chunked, Starts
<1>3. Chunked(n, m) \subseteq 0..(n + m - 2)
  BY <1>1
<1>4. ASSUME n % m = 0 PROVE Chunked(n, m) \subseteq 0..(n - 1)
  <2> SUFFICES ASSUME NEW x \in Chunked(n, m) PROVE x \in 0..(n - 1)
    OBVIOUS
  <2>1. PICK i \in Starts, l \in 0..(m - 1) : x = i + l
    BY <1>1
  <2>2. i \in Nat /\ i % m = 0 /\ i < n
    BY DEF Starts
  <2>3. i + m <= n
    BY <1>4, <2>2, ChunkBelow
  <2>4. QED
    BY <2>1, <2>3
<1>5. QED
  BY <1>2, <1>3, <1>4

(* CompressTraits<float>'s loop of 2N-lane chunks covers every element,    *)
(* runs at most 2N - 1 lanes past n, and none when n is a multiple of 2N.  *)
LEMMA F32SpanFacts ==
    ASSUME lanes \in Nat \ {0}, NEW n \in Nat
    PROVE  /\ 0..(n - 1) \subseteq F32Span(n)
           /\ F32Span(n) \subseteq 0..(n + 2 * lanes - 2)
           /\ n % (2 * lanes) = 0 => F32Span(n) \subseteq 0..(n - 1)
<1>1. 2 * lanes \in Nat \ {0} /\ F32Span(n) = Chunked(n, 2 * lanes)
  BY DEF F32Span, Chunked
<1>2. QED
  BY <1>1, ChunkedFacts

(* The k addresses from base on form an interval.                          *)
LEMMA SpanIs ==
    ASSUME NEW base \in Nat, NEW k \in Nat
    PROVE  Span(base, k) = base..(base + k - 1)
<1>1. Span(base, k) \subseteq base..(base + k - 1)
  BY DEF Span
<1>2. ASSUME NEW a \in base..(base + k - 1) PROVE a \in Span(base, k)
  <2>1. a - base + 1 \in 1..k /\ a = base + (a - base + 1) - 1
    OBVIOUS
  <2>2. QED
    BY <2>1 DEF Span
<1>3. QED
  BY <1>1, <1>2

(* Addresses from a base in Nat are in Nat.                                *)
LEMMA SpanNat ==
    ASSUME NEW base \in Nat, NEW k
    PROVE  Span(base, k) \subseteq Nat
BY DEF Span

(* A batch of CompressTraits<float>: Compress stores input element a at    *)
(* address a for each address its loop touches, Decompress copies the     *)
(* compressed element a there; the touched addresses cover the batch, run *)
(* at most 2N - 1 past it, and stay in it when the batch is a multiple of  *)
(* 2N.  Both directions load exactly the addresses they store.            *)
LEMMA F32Shape ==
    ASSUME lanes \in Nat \ {0}, NEW o \in Nat, NEW n \in Nat \ {0}
    PROVE  /\ o..(o + n - 1) \subseteq DOMAIN F32Compress(o, n, o)
           /\ DOMAIN F32Compress(o, n, o) \subseteq o..(o + n + 2 * lanes - 1)
           /\ \A a \in DOMAIN F32Compress(o, n, o) :
                 F32Compress(o, n, o)[a] = In(a)
           /\ F32CompressReads(o, n) = DOMAIN F32Compress(o, n, o)
           /\ DOMAIN F32Decompress(o, n, o) = DOMAIN F32Compress(o, n, o)
           /\ \A a \in DOMAIN F32Decompress(o, n, o) :
                 F32Decompress(o, n, o)[a] = cmp[a]
           /\ F32DecompressReads(o, n) = DOMAIN F32Compress(o, n, o)
           /\ n % (2 * lanes) = 0 =>
                 DOMAIN F32Compress(o, n, o) \subseteq o..(o + n - 1)
<1> DEFINE Addr == {o + j : j \in F32Span(n)}
<1>1. /\ 0..(n - 1) \subseteq F32Span(n)
      /\ F32Span(n) \subseteq 0..(n + 2 * lanes - 2)
      /\ n % (2 * lanes) = 0 => F32Span(n) \subseteq 0..(n - 1)
  BY F32SpanFacts
<1>2. F32Span(n) \in SUBSET Nat /\ n - 1 \in Nat /\ n + 2 * lanes - 2 \in Nat
  BY <1>1
<1>3. /\ \A a \in Addr : a \in Nat /\ a - o \in F32Span(n)
      /\ o..(o + n - 1) \subseteq Addr
      /\ Addr \subseteq o..(o + n + 2 * lanes - 2)
      /\ n % (2 * lanes) = 0 => Addr \subseteq o..(o + n - 1)
  <2>1. \A a \in Addr : a \in Nat /\ a - o \in F32Span(n)
    BY <1>2
  <2>2. o..(o + n - 1) \subseteq Addr
    <3> SUFFICES ASSUME NEW a \in o..(o + n - 1) PROVE a \in Addr
      OBVIOUS
    <3>1. a - o \in F32Span(n) /\ a = o + (a - o)
      BY <1>1
    <3>2. QED
      BY <3>1
  <2>3. Addr \subseteq o..(o + n + 2 * lanes - 2)
    BY <1>1, <1>2
  <2>4. n % (2 * lanes) = 0 => Addr \subseteq o..(o + n - 1)
    BY <1>1, <1>2
  <2>5. QED
    BY <2>1, <2>2, <2>3, <2>4
<1>4. /\ DOMAIN F32Compress(o, n, o) = Addr
      /\ DOMAIN F32Decompress(o, n, o) = Addr
      /\ F32CompressReads(o, n) = Addr
      /\ F32DecompressReads(o, n) = Addr
  BY DEF F32Compress, F32Decompress, F32CompressReads, F32DecompressReads
<1>5. \A a \in Addr : F32Compress(o, n, o)[a] = In(a)
  <2> SUFFICES ASSUME NEW a \in Addr PROVE F32Compress(o, n, o)[a] = In(a)
    OBVIOUS
  <2>1. o + a - o = a
    BY <1>3
  <2>2. QED
    BY <2>1 DEF F32Compress
<1>6. \A a \in Addr : F32Decompress(o, n, o)[a] = cmp[a]
  <2> SUFFICES ASSUME NEW a \in Addr PROVE F32Decompress(o, n, o)[a] = cmp[a]
    OBVIOUS
  <2>1. o + a - o = a
    BY <1>3
  <2>2. QED
    BY <2>1 DEF F32Decompress
<1>7. QED
  BY <1>3, <1>4, <1>5, <1>6

(* A lane of the bf16 remainder store: LoadN loaded input element e + j of *)
(* the chunk, or left the lane Zero, and then only past the rem elements.  *)
LEMMA Bf16LaneFacts ==
    ASSUME lanes \in Nat \ {0}, NEW i0 \in Nat, NEW e \in Nat,
           NEW rem \in 1..(2 * lanes - 1), NEW j \in 0..(2 * lanes - 1)
    PROVE  \/ Bf16Lane(i0, e, rem, j) = In(i0 + e + j)
           \/ Bf16Lane(i0, e, rem, j) = Zero /\ j >= rem
BY DEF Bf16Lane, Bf16Rem1, Min2

(* A batch of CompressTraits<bfloat16_t>::Compress: its stores cover the   *)
(* batch and run at most 2N - 1 past it; each stores input element a at    *)
(* address a, or Zero past the batch when the batch leaves a remainder.   *)
LEMMA Bf16CompressShape ==
    ASSUME lanes \in Nat \ {0}, NEW o \in Nat, NEW n \in Nat \ {0}
    PROVE  /\ o..(o + n - 1) \subseteq DOMAIN Bf16Compress(o, n, o)
           /\ DOMAIN Bf16Compress(o, n, o) \subseteq o..(o + n + 2 * lanes - 1)
           /\ \A a \in DOMAIN Bf16Compress(o, n, o) :
                 \/ Bf16Compress(o, n, o)[a] = In(a)
                 \/ /\ Bf16Compress(o, n, o)[a] = Zero
                    /\ a >= o + n
                    /\ n % (2 * lanes) # 0
           /\ Bf16CompressReads(o, n) \subseteq Nat
<1> DEFINE m == 2 * lanes
           e == MainEnd(n, m)
           rem == n - e
           St == Span(0, e) \cup (IF rem # 0 THEN Span(e, m) ELSE {})
           W == Bf16Compress(o, n, o)
<1>1. m \in Nat \ {0}
  OBVIOUS
<1>2. e \in 0..n /\ rem < m /\ (n % m = 0 <=> e = n)
  BY <1>1, MainEndFacts
<1>3. St = 0..(e - 1) \cup (IF rem # 0 THEN e..(e + m - 1) ELSE {})
  <2>0. e \in Nat /\ 0 \in Nat
    BY <1>2
  <2>1. Span(0, e) = 0..(0 + e - 1)
    BY <2>0, SpanIs
  <2>2. Span(e, m) = e..(e + m - 1)
    BY <1>1, <2>0, SpanIs
  <2>3. 0..(0 + e - 1) = 0..(e - 1)
    BY <2>0
  <2>4. QED
    BY <2>1, <2>2, <2>3, Zenon DEF St
<1>4. /\ DOMAIN W = {o + j : j \in St}
      /\ \A a \in DOMAIN W :
            W[a] = IF a - o < e THEN In(o + a - o) ELSE Bf16Lane(o, e, rem, a - o - e)
  BY DEF Bf16Compress, W, St, e, rem, m
<1>5. \A a \in DOMAIN W : a \in Nat /\ a - o \in St
  BY <1>2, <1>3, <1>4
<1>6. o..(o + n - 1) \subseteq DOMAIN W
  <2> SUFFICES ASSUME NEW a \in o..(o + n - 1) PROVE a \in DOMAIN W
    OBVIOUS
  <2>1. a - o \in St /\ a = o + (a - o)
    BY <1>2, <1>3
  <2>2. QED
    BY <1>4, <2>1
<1>7. DOMAIN W \subseteq o..(o + n + 2 * lanes - 1)
  BY <1>2, <1>3, <1>5
<1>8. ASSUME NEW a \in DOMAIN W
      PROVE  \/ W[a] = In(a)
             \/ W[a] = Zero /\ a >= o + n /\ n % (2 * lanes) # 0
  <2>0. a \in Nat /\ a - o \in St /\ o + a - o = a
    BY <1>5
  <2>1. CASE a - o < e
    <3>1. W[a] = In(o + a - o)
      BY <1>4, <2>1
    <3>2. QED
      BY <2>0, <3>1
  <2>2. CASE a - o >= e
    <3>1. rem \in 1..(m - 1) /\ a - o - e \in 0..(m - 1) /\ e \in Nat
      BY <1>2, <1>3, <2>0, <2>2
    <3>2. \/ Bf16Lane(o, e, rem, a - o - e) = In(o + e + (a - o - e))
          \/ Bf16Lane(o, e, rem, a - o - e) = Zero /\ a - o - e >= rem
      BY <1>1, <3>1, Bf16LaneFacts DEF m
    <3>3. W[a] = Bf16Lane(o, e, rem, a - o - e)
      BY <1>2, <1>4, <2>0, <2>2
    <3>4. o + e + (a - o - e) = a
      BY <2>0, <3>1
    <3>5. QED
      BY <1>2, <3>1, <3>2, <3>3, <3>4 DEF rem, m
  <2>3. QED
    BY <1>2, <2>0, <2>1, <2>2
<1>9. Bf16CompressReads(o, n) \subseteq Nat
  BY <1>2, SpanNat DEF Bf16CompressReads
<1>10. QED
  BY <1>6, <1>7, <1>8, <1>9

(* A batch of CompressTraits<bfloat16_t>::Decompress: the full chunks and  *)
(* the two StoreN of the remainder store exactly the addresses of the      *)
(* batch, each the compressed element of the same address, and the loads   *)
(* are exactly the batch's compressed elements.                            *)
LEMMA Bf16DecompressShape ==
    ASSUME lanes \in Nat \ {0}, NEW o \in Nat, NEW n \in Nat \ {0}
    PROVE  /\ DOMAIN Bf16Decompress(o, n, o) = o..(o + n - 1)
           /\ \A a \in DOMAIN Bf16Decompress(o, n, o) :
                 Bf16Decompress(o, n, o)[a] = cmp[a]
           /\ Bf16DecompressReads(o, n) = o..(o + n - 1)
<1> DEFINE m == 2 * lanes
           e == MainEnd(n, m)
           rem == n - e
           k1 == Min2(rem, lanes)
           k2 == Min2(Bf16DecRem1(rem), lanes)
           St == Span(0, e) \cup Span(e, k1) \cup Span(e + lanes, k2)
           W == Bf16Decompress(o, n, o)
<1>1. m \in Nat \ {0}
  OBVIOUS
<1>2. e \in 0..n /\ rem \in 0..(m - 1)
  <2>1. e \in 0..n /\ rem < m
    BY <1>1, MainEndFacts
  <2>2. QED
    BY <2>1
<1>3. /\ k1 \in Nat /\ k2 \in Nat
      /\ rem <= lanes => k1 = rem /\ k2 = 0
      /\ rem > lanes => k1 = lanes /\ k2 = rem - lanes
  BY <1>2 DEF k1, k2, Bf16DecRem1, Min2, rem, m
<1>4. St = 0..(n - 1)
  <2>1. e \in Nat /\ 0 \in Nat /\ e + lanes \in Nat
    BY <1>2
  <2>2. Span(0, e) = 0..(0 + e - 1)
    BY <2>1, SpanIs
  <2>3. Span(e, k1) = e..(e + k1 - 1)
    BY <1>3, <2>1, SpanIs
  <2>4. Span(e + lanes, k2) = (e + lanes)..(e + lanes + k2 - 1)
    BY <1>3, <2>1, SpanIs
  <2>5. 0..(0 + e - 1) \cup e..(e + k1 - 1) \cup (e + lanes)..(e + lanes + k2 - 1)
          = 0..(n - 1)
    BY <1>2, <1>3
  <2>6. QED
    BY <2>2, <2>3, <2>4, <2>5, Zenon DEF St
<1>5. /\ DOMAIN W = {o + j : j \in St}
      /\ \A a \in DOMAIN W :
            W[a] = IF a - o < e THEN cmp[o + a - o]
                   ELSE IF a - o - e < rem THEN cmp[o + e + (a - o - e)] ELSE Zero
  BY DEF Bf16Decompress, W, St, e, rem, m, k1, k2
<1>6. DOMAIN W = o..(o + n - 1)
  <2>1. DOMAIN W \subseteq o..(o + n - 1)
    BY <1>4, <1>5
  <2>2. ASSUME NEW a \in o..(o + n - 1) PROVE a \in DOMAIN W
    <3>1. a - o \in St /\ a = o + (a - o)
      BY <1>4
    <3>2. QED
      BY <1>5, <3>1
  <2>3. QED
    BY <2>1, <2>2
<1>7. ASSUME NEW a \in DOMAIN W PROVE W[a] = cmp[a]
  <2>1. a \in o..(o + n - 1)
    BY <1>6
  <2>2. o + a - o = a /\ o + e + (a - o - e) = a /\ (a - o >= e => a - o - e < rem)
    BY <1>2, <2>1
  <2>3. QED
    BY <1>2, <1>5, <2>1, <2>2
<1>8. Bf16DecompressReads(o, n) = o..(o + n - 1)
  <2>1. e \in Nat /\ o + e \in Nat /\ n - e \in Nat
    BY <1>2
  <2>2. Span(o, e) = o..(o + e - 1) /\ Span(o + e, n - e) = (o + e)..(o + e + (n - e) - 1)
    BY <2>1, SpanIs
  <2>3. QED
    BY <1>2, <2>2 DEF Bf16DecompressReads
<1>9. QED
  BY <1>6, <1>7, <1>8

-----------------------------------------------------------------------------
(* The batches of Compress and Decompress.                                 *)

(* Every batch but the last is a whole number of 2N-lane chunks.           *)
LEMMA BatchChunks ==
    ASSUME num \in Nat \ {0}, lanes \in LaneCounts, NEW b \in Batches,
           BatchNum(b) % (2 * lanes) # 0
    PROVE  b * Batch + BatchNum(b) = num
BY BatchFacts

(* Compress batch b stores inside the modelled memory, over all of its     *)
(* range, and below num only the input element of the same address.      *)
LEMMA CompressBatchShape ==
    ASSUME ty \in {"f32", "bf16"}, lanes \in LaneCounts, num \in Nat \ {0},
           NEW b \in Batches
    PROVE  LET C == TraitsCompress(b * Batch, BatchNum(b), b * Batch)
           IN  /\ DOMAIN C \subseteq Memory(num)
               /\ BatchRange(b) \subseteq DOMAIN C
               /\ \A a \in DOMAIN C : C[a] \in Values
               /\ \A a \in DOMAIN C : a < num => C[a] = a
               /\ TraitsCompressReads(b * Batch, BatchNum(b)) \subseteq Nat
<1> DEFINE o == b * Batch
           n == BatchNum(b)
           C == TraitsCompress(o, n, o)
<1>1. o \in Nat /\ n \in Nat \ {0} /\ o + n <= num /\ lanes \in Nat \ {0}
      /\ 2 * lanes <= Slack
  BY BatchFacts
<1>2. /\ o..(o + n - 1) \subseteq DOMAIN C
      /\ DOMAIN C \subseteq o..(o + n + 2 * lanes - 1)
      /\ \A a \in DOMAIN C :
            \/ C[a] = In(a)
            \/ C[a] = Zero /\ a >= o + n /\ n % (2 * lanes) # 0
      /\ TraitsCompressReads(o, n) \subseteq Nat
  <2>1. CASE ty = "f32"
    <3>1. F32CompressReads(o, n) \subseteq Nat
      BY <1>1, F32Shape
    <3>2. QED
      BY <1>1, <2>1, <3>1, F32Shape DEF TraitsCompress, TraitsCompressReads
  <2>2. CASE ty = "bf16"
    BY <1>1, <2>2, Bf16CompressShape DEF TraitsCompress, TraitsCompressReads
  <2>3. QED
    BY <2>1, <2>2
<1>3. ASSUME NEW a \in DOMAIN C, a < num PROVE C[a] = a
  <2>1. ~(C[a] = Zero /\ a >= o + n /\ n % (2 * lanes) # 0)
    BY <1>1, <1>2, <1>3, BatchChunks
  <2>2. QED
    BY <1>2, <1>3, <2>1 DEF In
<1>4. \A a \in DOMAIN C : C[a] \in Values
  BY <1>1, <1>2 DEF In, Values
<1>5. QED
  BY <1>1, <1>2, <1>3, <1>4 DEF Memory, BatchRange

(* Decompress batch b stores inside the modelled memory, over all of its   *)
(* range, each address receiving the compressed element of the same       *)
(* address; with callers keeping to the alignment, both its stores and its *)
(* loads stay below num.                                                   *)
LEMMA DecompressBatchShape ==
    ASSUME ty \in {"f32", "bf16"}, lanes \in LaneCounts, num \in Nat \ {0},
           Admissible(ty, num, lanes), NEW b \in Batches
    PROVE  LET D == TraitsDecompress(b * Batch, BatchNum(b), b * Batch)
               R == TraitsDecompressReads(b * Batch, BatchNum(b))
           IN  /\ DOMAIN D \subseteq Memory(num)
               /\ BatchRange(b) \subseteq DOMAIN D
               /\ \A a \in DOMAIN D : D[a] = cmp[a]
               /\ R \subseteq Nat
               /\ Aligned => DOMAIN D \subseteq 0..(num - 1) /\ R \subseteq 0..(num - 1)
<1> DEFINE o == b * Batch
           n == BatchNum(b)
           D == TraitsDecompress(o, n, o)
           R == TraitsDecompressReads(o, n)
<1>1. o \in Nat /\ n \in Nat \ {0} /\ o + n <= num /\ lanes \in Nat \ {0}
      /\ 2 * lanes <= Slack
  BY BatchFacts
<1>2. CASE ty = "f32"
  <2>1. /\ o..(o + n - 1) \subseteq DOMAIN D
        /\ DOMAIN D \subseteq o..(o + n + 2 * lanes - 1)
        /\ \A a \in DOMAIN D : D[a] = cmp[a]
        /\ R = DOMAIN D
        /\ n % (2 * lanes) = 0 => DOMAIN D \subseteq o..(o + n - 1)
    BY <1>1, <1>2, F32Shape DEF TraitsDecompress, TraitsDecompressReads
  <2>2. ASSUME Aligned PROVE n % (2 * lanes) = 0
    <3>1. num % (2 * lanes) = 0 /\ Batch % (2 * lanes) = 0
      BY <1>2, <2>2 DEF Admissible
    <3>2. CASE b = NumBatches - 1
      <4>1. n = num - b * Batch /\ b \in Nat /\ b * Batch <= num
        BY <1>1, <3>2, BatchFacts DEF BatchNum
      <4>2. 2 * lanes \in Nat \ {0} /\ num \in Nat /\ Batch \in Nat
        BY <1>1
      <4>3. PICK m \in Nat \ {0} : m = 2 * lanes
        BY <4>2
      <4>4. num % m = 0 /\ Batch % m = 0
        BY <3>1, <4>3
      <4>5. (num - b * Batch) % m = 0
        <5>1. num \in Nat /\ Batch \in Nat /\ b \in Nat /\ b * Batch <= num
          BY <4>1, <4>2
        <5>2. QED
          BY ONLY <4>3, <4>4, <5>1, MultipleSub
      <4>6. QED
        BY <4>1, <4>3, <4>5
    <3>3. CASE b # NumBatches - 1
      BY <3>1, <3>3, BatchFacts
    <3>4. QED
      BY <3>2, <3>3
  <2>3. QED
    BY <1>1, <2>1, <2>2 DEF Memory, BatchRange
<1>3. CASE ty = "bf16"
  <2>1. /\ DOMAIN D = o..(o + n - 1)
        /\ \A a \in DOMAIN D : D[a] = cmp[a]
        /\ R = o..(o + n - 1)
    BY <1>1, <1>3, Bf16DecompressShape DEF TraitsDecompress, TraitsDecompressReads
  <2>2. QED
    BY <1>1, <2>1 DEF Memory, BatchRange
<1>4. QED
  BY <1>2, <1>3

-----------------------------------------------------------------------------
(* The inductive invariant RInv.                                           *)

(* A store overwrites the addresses it stores and keeps the others.       *)
LEMMA StoredFacts ==
    ASSUME NEW w, NEW m
    PROVE  /\ DOMAIN Stored(w, m) = DOMAIN w \cup DOMAIN m
           /\ \A a \in DOMAIN w : Stored(w, m)[a] = w[a]
           /\ \A a \in DOMAIN m \ DOMAIN w : Stored(w, m)[a] = m[a]
BY DEF Stored

(* Each batch's range lies below num.                                      *)
LEMMA RangeBelow ==
    ASSUME num \in Nat \ {0}, NEW b \in Batches
    PROVE  BatchRange(b) \subseteq 0..(num - 1)
BY BatchFacts DEF BatchRange

(* Once every Compress batch ran, the compressed array holds every element *)
(* at its own position.                                                    *)
LEMMA CompressedFull ==
    ASSUME num \in Nat \ {0},
           \A b \in Batches : \A j \in BatchRange(b) : cmp[j] = j
    PROVE  \A j \in 0..(num - 1) : cmp[j] = j
BY BatchesCover

LEMMA InitRInv == Init => RInv
<1> SUFFICES ASSUME Init PROVE RInv
  OBVIOUS
<1>1. num \in Nat \ {0} /\ ty \in Types /\ lanes \in LaneCounts
  BY DEF Init
<1>2. cmp \in [Memory(num) -> Values] /\ dec \in [Memory(num) -> Values]
  BY DEF Init, Values
<1>3. \A j \in 0..(num - 1) : cmp[j] = Unset /\ dec[j] = Unset
  BY <1>1 DEF Init, Memory
<1>4. QED
  BY <1>1, <1>2, <1>3 DEF Init, RInv, TypeOK

(* A Compress batch keeps RInv: it stores below num only the elements of  *)
(* its own addresses, and fills its whole range.                           *)
LEMMA CompressRInv ==
    ASSUME RInv, NEW b \in Batches, CompressBatch(b)
    PROVE  RInv'
<1> DEFINE C == TraitsCompress(b * Batch, BatchNum(b), b * Batch)
<1>1. ty \in {"f32", "bf16"} /\ lanes \in LaneCounts /\ num \in Nat \ {0}
  BY DEF RInv, TypeOK
<1>2. /\ DOMAIN C \subseteq Memory(num)
      /\ BatchRange(b) \subseteq DOMAIN C
      /\ \A a \in DOMAIN C : C[a] \in Values
      /\ \A a \in DOMAIN C : a < num => C[a] = a
      /\ TraitsCompressReads(b * Batch, BatchNum(b)) \subseteq Nat
  BY <1>1, CompressBatchShape
<1>3. /\ cmp' = Stored(C, cmp)
      /\ DOMAIN cmp = Memory(num)
      /\ UNCHANGED <<ty, lanes, num, dec, ddone, creads>>
  BY DEF CompressBatch, RInv, TypeOK
<1>4. /\ DOMAIN cmp' = Memory(num)
      /\ \A a \in DOMAIN C : cmp'[a] = C[a]
      /\ \A a \in Memory(num) \ DOMAIN C : cmp'[a] = cmp[a]
  <2>1. /\ DOMAIN Stored(C, cmp) = DOMAIN C \cup DOMAIN cmp
        /\ \A a \in DOMAIN C : Stored(C, cmp)[a] = C[a]
        /\ \A a \in DOMAIN cmp \ DOMAIN C : Stored(C, cmp)[a] = cmp[a]
    BY StoredFacts
  <2>2. QED
    BY <1>2, <1>3, <2>1
<1>5. cmp' \in [Memory(num) -> Values]
  <2>1. \A a \in Memory(num) : cmp'[a] \in Values
    BY <1>2, <1>4 DEF RInv, TypeOK
  <2>2. cmp' = [a \in Memory(num) |-> cmp'[a]]
    BY <1>3, <1>4 DEF Stored
  <2>3. QED
    BY <2>1, <2>2, Zenon
<1>6. \A j \in 0..(num - 1) : cmp'[j] \in {Unset, j}
  <2> SUFFICES ASSUME NEW j \in 0..(num - 1) PROVE cmp'[j] \in {Unset, j}
    OBVIOUS
  <2>1. j \in Memory(num) /\ j < num
    BY <1>1 DEF Memory
  <2>2. CASE j \in DOMAIN C
    BY <1>2, <1>4, <2>1, <2>2
  <2>3. CASE j \notin DOMAIN C
    BY <1>4, <2>1, <2>3 DEF RInv
  <2>4. QED
    BY <2>2, <2>3
<1>7. \A c \in cdone \cup {b} : \A j \in BatchRange(c) : cmp'[j] = j
  <2> SUFFICES ASSUME NEW c \in cdone \cup {b}, NEW j \in BatchRange(c)
               PROVE  cmp'[j] = j
    OBVIOUS
  <2>1. c \in Batches /\ j \in 0..(num - 1) /\ j \in Memory(num)
    BY <1>1, RangeBelow DEF RInv, TypeOK, Memory
  <2>2. CASE j \in DOMAIN C
    <3>1. j < num
      BY <1>1, <2>1
    <3>2. QED
      BY <1>2, <1>4, <2>2, <3>1
  <2>3. CASE j \notin DOMAIN C
    <3>1. c \in cdone
      BY <1>2, <2>3
    <3>2. QED
      BY <1>4, <2>1, <2>3, <3>1 DEF RInv
  <2>4. QED
    BY <2>2, <2>3
<1>8. /\ cdone' = cdone \cup {b}
      /\ cdone' \subseteq Batches
      /\ reads' \in SUBSET Nat
      /\ phase' = IF cdone' = Batches THEN "decompress" ELSE "compress"
      /\ ddone = {}
  BY <1>2 DEF CompressBatch, RInv, TypeOK
<1>9. QED
  <2>1. TypeOK'
    BY <1>3, <1>5, <1>8 DEF RInv, TypeOK, Values, Memory, Batches, NumBatches
  <2>2. Admissible(ty, num, lanes)'
    BY <1>3 DEF RInv, Admissible
  <2>3. (\A j \in 0..(num - 1) : cmp[j] \in {Unset, j} /\ dec[j] \in {Unset, j})'
    BY <1>3, <1>6 DEF RInv
  <2>4. (\A c \in cdone : \A j \in BatchRange(c) : cmp[j] = j)'
    BY <1>3, <1>7, <1>8 DEF BatchRange, BatchNum, NumBatches
  <2>5. (\A c \in ddone : \A j \in BatchRange(c) : dec[j] = j)'
    BY <1>3, <1>8
  <2>6. QED
    BY <1>3, <1>8, <2>1, <2>2, <2>3, <2>4, <2>5 DEF RInv, Batches, NumBatches

(* A Decompress batch keeps RInv: it runs only after every Compress batch, *)
(* so the compressed element it copies to address a below num is a.       *)
LEMMA DecompressRInv ==
    ASSUME RInv, NEW b \in Batches, DecompressBatch(b)
    PROVE  RInv'
<1> DEFINE D == TraitsDecompress(b * Batch, BatchNum(b), b * Batch)
<1>1. ty \in {"f32", "bf16"} /\ lanes \in LaneCounts /\ num \in Nat \ {0}
      /\ Admissible(ty, num, lanes)
  BY DEF RInv, TypeOK
<1>2. /\ DOMAIN D \subseteq Memory(num)
      /\ BatchRange(b) \subseteq DOMAIN D
      /\ \A a \in DOMAIN D : D[a] = cmp[a]
      /\ TraitsDecompressReads(b * Batch, BatchNum(b)) \subseteq Nat
  BY <1>1, DecompressBatchShape
<1>3. /\ dec' = Stored(D, dec)
      /\ DOMAIN dec = Memory(num)
      /\ cmp \in [Memory(num) -> Values]
      /\ UNCHANGED <<ty, lanes, num, cmp, cdone, reads>>
      /\ cdone = Batches
  BY DEF DecompressBatch, RInv, TypeOK
<1>4. \A j \in 0..(num - 1) : cmp[j] = j
  <2>1. \A c \in Batches : \A j \in BatchRange(c) : cmp[j] = j
    BY <1>3 DEF RInv
  <2>2. QED
    BY <1>1, <2>1, CompressedFull
<1>5. /\ DOMAIN dec' = Memory(num)
      /\ \A a \in DOMAIN D : dec'[a] = cmp[a]
      /\ \A a \in Memory(num) \ DOMAIN D : dec'[a] = dec[a]
  <2>1. /\ DOMAIN Stored(D, dec) = DOMAIN D \cup DOMAIN dec
        /\ \A a \in DOMAIN D : Stored(D, dec)[a] = D[a]
        /\ \A a \in DOMAIN dec \ DOMAIN D : Stored(D, dec)[a] = dec[a]
    BY StoredFacts
  <2>2. QED
    BY <1>2, <1>3, <2>1
<1>6. dec' \in [Memory(num) -> Values]
  <2>1. \A a \in Memory(num) : dec'[a] \in Values
    BY <1>2, <1>3, <1>5 DEF RInv, TypeOK
  <2>2. dec' = [a \in Memory(num) |-> dec'[a]]
    BY <1>3, <1>5 DEF Stored
  <2>3. QED
    BY <2>1, <2>2, Zenon
<1>7. \A j \in 0..(num - 1) : dec'[j] \in {Unset, j}
  <2> SUFFICES ASSUME NEW j \in 0..(num - 1) PROVE dec'[j] \in {Unset, j}
    OBVIOUS
  <2>1. j \in Memory(num)
    BY <1>1 DEF Memory
  <2>2. CASE j \in DOMAIN D
    BY <1>4, <1>5, <2>2
  <2>3. CASE j \notin DOMAIN D
    BY <1>5, <2>1, <2>3 DEF RInv
  <2>4. QED
    BY <2>2, <2>3
<1>8. \A c \in ddone \cup {b} : \A j \in BatchRange(c) : dec'[j] = j
  <2> SUFFICES ASSUME NEW c \in ddone \cup {b}, NEW j \in BatchRange(c)
               PROVE  dec'[j] = j
    OBVIOUS
  <2>1. c \in Batches /\ j \in 0..(num - 1) /\ j \in Memory(num)
    BY <1>1, RangeBelow DEF RInv, TypeOK, Memory
  <2>2. CASE j \in DOMAIN D
    BY <1>4, <1>5, <2>1, <2>2
  <2>3. CASE j \notin DOMAIN D
    <3>1. c \in ddone
      BY <1>2, <2>3
    <3>2. QED
      BY <1>5, <2>1, <2>3, <3>1 DEF RInv
  <2>4. QED
    BY <2>2, <2>3
<1>9. /\ ddone' = ddone \cup {b}
      /\ ddone' \subseteq Batches
      /\ creads' \in SUBSET Nat
      /\ phase' = IF ddone' = Batches THEN "done" ELSE "decompress"
  BY <1>2 DEF DecompressBatch, RInv, TypeOK
<1>10. QED
  <2>1. TypeOK'
    BY <1>3, <1>6, <1>9 DEF RInv, TypeOK, Values, Memory, Batches, NumBatches
  <2>2. Admissible(ty, num, lanes)'
    BY <1>3 DEF RInv, Admissible
  <2>3. (\A j \in 0..(num - 1) : cmp[j] \in {Unset, j} /\ dec[j] \in {Unset, j})'
    BY <1>3, <1>7 DEF RInv
  <2>4. (\A c \in cdone : \A j \in BatchRange(c) : cmp[j] = j)'
    BY <1>3 DEF RInv, BatchRange, BatchNum, NumBatches
  <2>5. (\A c \in ddone : \A j \in BatchRange(c) : dec[j] = j)'
    BY <1>3, <1>8, <1>9 DEF BatchRange, BatchNum, NumBatches
  <2>6. QED
    BY <1>3, <1>9, <2>1, <2>2, <2>3, <2>4, <2>5 DEF RInv, Batches, NumBatches

(* A stuttering step keeps RInv.                                           *)
LEMMA StutterRInv ==
    ASSUME RInv, UNCHANGED vars
    PROVE  RInv'
BY DEF vars, RInv, TypeOK, Admissible, Values, Memory, Batches, NumBatches,
       DivCeil, BatchRange, BatchNum

LEMMA NextRInv ==
    ASSUME RInv, [Next]_vars
    PROVE  RInv'
<1>1. CASE \E b \in Batches : CompressBatch(b)
  BY <1>1, CompressRInv
<1>2. CASE \E b \in Batches : DecompressBatch(b)
  BY <1>2, DecompressRInv
<1>3. CASE UNCHANGED vars
  BY <1>3, StutterRInv
<1>4. QED
  BY <1>1, <1>2, <1>3 DEF Next

(* RInv holds in every state of bulk Compress then Decompress, for every  *)
(* kBatch, lane count and element count and whatever order pool.Run gives  *)
(* the batches: below num the compressed array and the output only ever   *)
(* hold the element of their own position, every batch that ran filled its *)
(* whole range, and Decompress starts only after every Compress batch.     *)
THEOREM RInvInvariant == Spec => []RInv
BY InitRInv, NextRInv, PTL DEF Spec

-----------------------------------------------------------------------------
(* Bulk Compress and Decompress (compress-inl.h) keep their buffers typed: *)
(* every store of either trait, the bf16 remainder store that runs past    *)
(* the last batch included, lands inside the buffer and the slack after it *)
(* and stores an element or a marker, for every kBatch, lane count and     *)
(* element count.                                                          *)
THEOREM BatchTypeCorrect == Spec => []TypeOK
<1>1. RInv => TypeOK
  BY DEF RInv
<1>2. QED
  BY <1>1, RInvInvariant, PTL

(* Decompress after Compress of a whole CompressedArray gives back every  *)
(* element at its own position, whatever the type, lane count and element  *)
(* count, and whatever order pool.Run gives the batches of either call.    *)
THEOREM RoundTripCorrect == Spec => []RoundTrip
<1>1. RInv => RoundTrip
  <2> SUFFICES ASSUME RInv, phase = "done", NEW j \in 0..(num - 1)
               PROVE  dec[j] = j
    BY DEF RoundTrip
  <2>1. num \in Nat \ {0} /\ ddone = Batches
    BY DEF RInv, TypeOK
  <2>2. PICK c \in Batches : j \in BatchRange(c)
    BY <2>1, BatchesCover
  <2>3. QED
    BY <2>1, <2>2 DEF RInv
<1>2. QED
  BY <1>1, RInvInvariant, PTL

(* With callers keeping to the alignment, a Decompress batch loads and     *)
(* stores only below num.                                                  *)
LEMMA DecompressBounds ==
    ASSUME Aligned, RInv, DecompressInBounds, NEW b \in Batches,
           DecompressBatch(b)
    PROVE  DecompressInBounds'
<1> DEFINE D == TraitsDecompress(b * Batch, BatchNum(b), b * Batch)
           R == TraitsDecompressReads(b * Batch, BatchNum(b))
<1>1. ty \in {"f32", "bf16"} /\ lanes \in LaneCounts /\ num \in Nat \ {0}
      /\ Admissible(ty, num, lanes) /\ DOMAIN dec = Memory(num)
  BY DEF RInv, TypeOK
<1>2. DOMAIN D \subseteq 0..(num - 1) /\ R \subseteq 0..(num - 1)
  BY <1>1, DecompressBatchShape
<1>3. /\ dec' = Stored(D, dec)
      /\ creads' = creads \cup R
      /\ num' = num
  BY DEF DecompressBatch
<1>4. /\ DOMAIN Stored(D, dec) = DOMAIN D \cup DOMAIN dec
      /\ \A a \in DOMAIN dec \ DOMAIN D : Stored(D, dec)[a] = dec[a]
  BY StoredFacts
<1>5. \A a \in DOMAIN dec' : a >= num' => dec'[a] = Other
  <2> SUFFICES ASSUME NEW a \in DOMAIN dec', a >= num PROVE dec'[a] = Other
    BY <1>3
  <2>1. a \in DOMAIN dec /\ a \notin DOMAIN D
    BY <1>1, <1>2, <1>3, <1>4 DEF Memory
  <2>2. QED
    BY <1>3, <1>4, <2>1 DEF DecompressInBounds
<1>6. QED
  BY <1>2, <1>3, <1>5 DEF DecompressInBounds

(* Under Aligned, no step breaks DecompressInBounds.                      *)
LEMMA NextBounds ==
    ASSUME Aligned, RInv, DecompressInBounds, [Next]_vars
    PROVE  DecompressInBounds'
<1>1. CASE \E b \in Batches : CompressBatch(b)
  <2>1. UNCHANGED <<num, dec, creads>>
    BY <1>1 DEF CompressBatch
  <2>2. QED
    BY <2>1 DEF DecompressInBounds
<1>2. CASE \E b \in Batches : DecompressBatch(b)
  <2>1. PICK b \in Batches : DecompressBatch(b)
    BY <1>2
  <2>2. QED
    BY <2>1, DecompressBounds
<1>3. CASE UNCHANGED vars
  <2>1. UNCHANGED <<num, dec, creads>>
    BY <1>3 DEF vars
  <2>2. QED
    BY <2>1 DEF DecompressInBounds
<1>4. QED
  BY <1>1, <1>2, <1>3 DEF Next

(* Under Aligned, RInv /\ DecompressInBounds holds in every reachable     *)
(* state: Compress batches leave the output alone.                         *)
LEMMA BoundsInvariant ==
    ASSUME Aligned
    PROVE  Spec => [](RInv /\ DecompressInBounds)
<1>1. Init => DecompressInBounds
  BY DEF Init, DecompressInBounds, Memory
<1>2. RInv /\ DecompressInBounds /\ [Next]_vars => DecompressInBounds'
  BY NextBounds
<1>3. QED
  BY <1>1, <1>2, InitRInv, NextRInv, PTL DEF Spec

(* Decompress (compress-inl.h) of callers that keep to the alignment the   *)
(* debug builds assert loads only the num compressed elements asked for    *)
(* and never stores past out[num - 1]: the remainder's StoreN counts stop  *)
(* at the end of the output, for every lane count and element count.       *)
THEOREM DecompressBounded ==
    ASSUME Aligned
    PROVE  Spec => []DecompressInBounds
<1>1. (RInv /\ DecompressInBounds) => DecompressInBounds
  OBVIOUS
<1>2. QED
  BY <1>1, BoundsInvariant, PTL
=============================================================================
