# TLA+ models of the gemma.cpp compressed-weight cache

This directory holds TLA+ models of the cache through which gemma.cpp loads its
compressed weights, TLC configurations that check them, and TLAPS proofs.

## The system

- `src/compression/compress.h`
  - `CompressedArray`: a fixed-capacity array in one weight type (f32, bf16,
    SFP or NUQ) plus a `scale_` field.
  - `CacheKey<MatT>(name)`: the blob key, a type prefix (`F`, `B`, `$`, `2`,
    `?`) followed by the tensor name.
  - `CacheLoader`: one call per tensor. It opens the cache file, enqueues a
    read for each tensor and for the scales, and reads them all.
- `src/compression/compress-inl.h`
  - The per-type codecs (`CompressTraits`).
  - Batched `Compress` and `Decompress` over a thread pool.
  - `Dot`, which returns `scale() * dot`.
  - `Compressor`: regenerates each tensor, queues it with `BlobWriter::Add`,
    queues the scales with `AddScales`, and writes the file with `WriteAll`.
- `src/compression/blob_store.h` declares `BlobReader` and `BlobWriter`. Only
  `BlobWriter::Add` has a body in the repository.

The caller (spec.md 4.7, not in the repository) runs the loader over every
tensor, loads the scales and calls `ReadAll`. If `ReadAll` fails, it runs the
Compressor over every tensor, adds the scales and writes the file. A process can
stop at any point. The file survives and memory does not.

## Modules

| Module | Models |
|---|---|
| `BlobStore` | The blob file, the writer queue and the reader. `Open`, `Enqueue`, `ReadAll` and `WriteAll` follow spec.md 4.6 (their code is not in `src/`). `WriteAll` can fail on the header or on any body. A read can fail. |
| `WeightCache` | The loader, the Compressor, `Dot` and process restarts, composed with `BlobStore`. |
| `CachedWeights` | Abstract specification of what the cache promises its caller: the weights are either not loaded or are all those of the running configuration. |
| `MCWeightCache` | Finite values for TLC. |
| `WeightCacheProofs` | TLAPS proofs. |
| `BatchCodec` | The batched `Compress`/`Decompress` of `compress-inl.h` (lines 446-536) with the vector loops of `CompressTraits<float>` and `CompressTraits<bfloat16_t>` (lines 62-229). |
| `MCBatchCodec` | Finite sets of element counts for TLC. |
| `DotEO` | The bf16 `CompressTraits::DotEO` loop of `compress-inl.h` (lines 249-290): the dot product of a bf16 row with an even/odd deinterleaved f32 vector. |
| `LoadProofs` | TLAPS proofs that the weights in use are the configuration's, and that `WeightCache` refines `CachedWeights` (safety part). |
| `HitProofs` | TLAPS proofs that a clean cache file of the running configuration is a hit. |
| `BatchCodecProofs` | TLAPS proofs that bulk `Compress`/`Decompress` stay in their buffers and round-trip, for every `kBatch`, lane count and count. |
| `DotEOProofs` | TLAPS proofs of the `DotEO` loop invariant and of what `DotEO` returns, for every lane count, count and offset. |

In `BlobStore`:

- The file is a header (a `hdr` flag and a list of key/size entries) plus one
  body per entry. A body is a `Data` value, or `Hole` where its write failed.
- The contents of one buffer are a single abstract value. A blob's size is its
  byte count.

In `WeightCache`:

- The state is:
  - `cfg`: the process's weight type, capacity and scales length;
  - `err`: `err_`;
  - `scale`: `scale_[0]` of each tensor;
  - `phase` and `next`: where the caller is and which tensor comes next;
  - `restarts`;
  - `fileBy`: a ghost naming the configuration that wrote the file.
- The compressed contents of tensor `t` under configuration `c` are the record
  `Content(t, c)`.
- One action per operation: `LoaderOpen`, `LoaderVisit`, `LoaderLoadScales`,
  `LoaderReadAll`, `CompressorVisit`, `CompressorAddScales`,
  `CompressorWriteAll`, `Dot` and `Restart`.
- Each action keeps the code's early returns:
  - `operator()` returns before `set_scale` once `err_` is set;
  - `LoadScales` does not look at `err_`;
  - `AddScales` adds nothing when `len` is 0.

## Runs

The `WeightCache` runs use 2 tensors, capacities 256 and 512, and failing
reads. Most use types f32 and bf16; `cache_refinement` and `cache_hit` use all
four. Two types and two capacities are enough for a file written under one
configuration to be read under another, both by key and by size. With four
types, f32 at 256 and bf16 at 512 have the same size, so only the key tells
them apart.

| Run | Expect | Checks | What it shows |
|---|---|---|---|
| `weight_cache` | pass | `TypeOK`, `LoadedMatchesSource`, `CacheHitAfterCleanWrite`, `ReadyEventually` | Scales lengths are 1 and 2, and there are at most 3 restarts. Whatever mix of configurations wrote the file, the weights in use are the right ones, and a clean file of the same configuration is a hit. Every run ends ready. About 3,000 distinct states; every action fires. |
| `torn_write` | violation | `LoadedMatchesSource` | Writes can fail. A file with an intact header and a missing middle body is loaded, and the result contains zeros. |
| `no_scales` | violation | `CacheHitAfterCleanWrite` | The scales length is 0. `LoadScales` enqueues a blob that `AddScales` never wrote, so the batch is poisoned and the cache never hits. |
| `dot_scale` | violation | `DotUsesWeights` | Regenerated tensors keep scale 0, so `Dot` returns 0. |

| `cache_refinement` | pass | `LInv`, `ImplementsCachedWeights` | All four weight types, scales of length 0 or 2, faultless writes, failing reads, two restarts (6,928 states). Under the mapping "weights = `mem` once `phase` is ready, else not loaded", every step of the loader, the Compressor, `Dot` and `Restart` is a step of `CachedWeights` or a stutter, and `WF(Load)` holds. `LInv` is the inductive invariant of `LoadProofs`. |
| `cache_hit` | pass | `HInv`, `CacheHitAfterCleanWrite` | All four weight types, scales of length 1 or 2, failing writes and reads, two restarts (102,704 states). `HInv` is the inductive invariant of `HitProofs`: the file's header is the queue of the configuration that wrote it. |
| `batch_codec` | pass | `TypeOK`, `RoundTrip`, `DecompressInBounds`, `RInv` | f32 and bf16, 1, 2 or 4 lanes, batches of 16, every element count 1..34. Batches may run in any order. Decompressing what `Compress` wrote gives back every element, and `Decompress` reads and writes only inside `[0, num)`. `RInv` is the inductive invariant of `BatchCodecProofs`. 725 distinct states. |
| `bf16_tail_reads` | violation | `CompressReadsInBounds` | bf16 with 2 lanes. At `num = 2` the remainder `LoadN(in + i + N, remaining1)` reads element 2. |
| `bf16_tail_writes` | violation | `CompressWritesInBounds` | The same instance. The remainder `StoreU` writes 2N lanes and overwrites the bytes after the array, which in `CompressedArray` are `scale_`. |
| `f32_unaligned_writes` | violation | `CompressWritesInBounds` | f32 with 2 lanes and `Aligned = FALSE`, a release build where `HWY_DASSERT` is off. A count of 1 stores a whole 2N vector over `scale_`. |
| `doteo` | pass | `TypeOK`, `DotEOMatches`, `DInv` | 1, 2 or 4 f32 lanes, 2 to 8 blocks of 2*N32 elements (an even number, as model dimensions give), and row offsets of 0 to 2 blocks. Every product of matrix element `ofs + k` with vector element `k` is added exactly once. `DInv` is the loop invariant of `DotEOProofs`. 162 distinct states. |
| `doteo_odd_blocks` | violation | `DotEOMatches` | Every count the assertion admits, 1 to 4 blocks. With one block, the loop's second half reads past the row and the vector and adds those products. |

The findings in `PROJECT.json` explain each violation.

### The refinement

`CachedWeights` has two variables: `config` and `weights`. `weights` is
`NotLoaded` or the function `r |-> Want(r, config)`. `Load` sets it, and
`Restart(c)` changes the configuration and forgets the weights. Its fairness is
`WF(Load)`. `WeightCache` instantiates it with `Want <- Content`,
`config <- cfg` and `weights <- IF phase = "ready" THEN mem ELSE Uninit`.

A step of the loader before "ready" changes nothing the caller sees. The step
to "ready" (`LoaderReadAll` with no error, or `CompressorWriteAll`) must put
every buffer at `Content(r, cfg)` at once. That is `Load`. The refinement
therefore subsumes `LoadedMatchesSource` and adds the all-at-once and
eventually-loaded parts. The mutant `LoaderReadAllIgnoreErr` reports success
after a failed read. TLC finds the resulting step is not a `Load`.

### BatchCodec

- The element count `num`, the type and the lane count `N` are fixed by
  `Init`.
- `cmp` and `dec` map addresses to values. They include `Slack` addresses past
  the end of each buffer, so an out-of-bounds store is visible.
- A value is the index of the source element it came from. `Junk` is a read
  past `num`, and `Zero` is a padding lane.
- `CompressBatch(b)` and `DecompressBatch(b)` are one `pool.Run` task each, in
  any order. `Decompress` runs once every compress batch is done.
- Each task applies the codec's whole loop as a function of addresses:
  - the main loop of 2N lanes;
  - the remainder, written as in the code, with `LoadN`, `StoreU` or
    `StoreN`.
- `reads` and `creads` collect the addresses read.
- The bounds are 1, 2 and 4 lanes, batches of 16 and counts 1..34. They cover:
  - a count below one vector;
  - counts between N and 2N;
  - an exact batch;
  - a partial last batch;
  - three batches.
- With `Aligned`, f32 counts are multiples of 2N, which
  `CompressTraits<float>::Compress` asserts at line 73. The assertion holds
  only in debug builds. `Aligned = FALSE` models a release build that is given
  any count.

### DotEO

- `N32` is the number of f32 lanes. A bf16 vector has `N = 2 * N32` lanes.
- The vector is laid out in blocks of `N`: the even-indexed elements of the
  block, then its odd-indexed ones. This is the layout the comment at line 249
  describes, and `VecPos(k)` is where element `k` sits.
- A product is the pair (matrix address, vector address). Each of `sum0` to
  `sum3` is a bag of products, so a product added twice is visible.
- `Iterate` is one loop iteration: two bf16 vectors, with the even and odd
  lanes of each. `Reduce` adds the accumulators once `i < num` fails.
- `DotEOMatches` compares the result with the bag holding each
  `<<ofs + k, VecPos(k)>>` once.
- The counts are numbers of `2*N32` blocks, since the assertion at lines
  256-257 requires a positive multiple of `2*N32`.
- `Reach` is the first multiple of `2N` at or past `num`, where the loop
  index stops. `Part(p, q, n)` is the set of products of the elements below
  `n` of parity `p` that lie in a bf16 vector of parity `q`.
- `DInv` is the loop invariant: the index is a multiple of `2N` no further
  than `Reach`, and `sum[p + 2q]` is the bag of `Part(p, q, i)`.

Fairness is `WF_vars(Process)`. The load sequence is straight-line code in one
thread, so once it starts it keeps going. `Dot` and `Restart` are left to the
user and have no fairness. `ReadyEventually` holds because the number of
restarts is bounded.

Each property has a mutant of the mapped code that TLC must find violated:

| Mutant | What it changes | Property it breaks |
|---|---|---|
| `CacheKeyUntyped` | Drops the type prefix from the key. | `LoadedMatchesSource`, `LInv` |
| `CompressorVisitCountSize` | Queues `weights_count` as the blob size. | `CacheHitAfterCleanWrite`, `HInv` |
| `LoaderReadAllRetry` | Retries from `Open` instead of regenerating. | `ReadyEventually` |
| `LoaderVisitNoReset` | Does not reset the tensor index. | `TypeOK` |
| `LoaderReadAllIgnoreErr` | Reports success after a failed read. | `ImplementsCachedWeights` |
| `BatchNumUncapped` | Gives the last batch a full `kBatch` elements. | `BatchCodec!TypeOK` |
| `DecompressBatchNoOfs` | Decompresses each batch from compressed offset 0. | `RoundTrip`, `RInv` |
| `Bf16DecRem1Half` | Uses the compress-side `N/2` in the bf16 `Decompress` remainder. | `DecompressInBounds` |
| `ContinueInclusive` | Runs the `DotEO` loop while `i <= num`. | `DotEO!TypeOK` |
| `EvenLanesSwapped` | Exchanges `PromoteEvenTo` and `PromoteOddTo`. | `DotEOMatches`, `DInv` |

## Proofs

All theorems hold for every value of the constants that satisfies the named
assumptions of their modules: `WeightCache` and `BlobStore`, `BatchCodec`, or `DotEO`. One of these,
`NuqCapsAssumption`, says NUQ capacities are multiples of 256. Spec 3 and 4.2
require an NUQ encode count to be a multiple of the group size, and the
Compressor encodes whole capacities.

`WeightCacheProofs` proves `THEOREM TypeCorrect == Spec => []TypeOK`.
`TypeOK` alone is not inductive. `ReadAll` copies `BodyOf(k)` into memory, and
that is a value of `Data \cup {Hole}` only when the reader's header is the
file's header and `k` is one of its keys. The inductive invariant is therefore

    IInv == TypeOK /\ ReaderFromFile /\ ReqsInHeader

where:

- `ReaderFromFile`: until the caller is ready, a non-empty reader header equals
  the file's header;
- `ReqsInHeader`: every enqueued request names a key of the reader's header.

The proof has one lemma per action, and `NextIInv` combines them. The temporal
step uses PTL.

`LoadProofs` proves, under `~WriteFaults`:

- `LoadedCorrect`: `Spec => []LoadedMatchesSource`.
- `RefinesCachedWeights`: `Spec => Abstract!Init /\ [][Abstract!Next]_Abstract!vars`.
  This is the refinement without its fairness part.

Both rest on `IInv /\ Rest`, where `Rest` (defined with its parts in
`WeightCache`, and checked by the run `cache_refinement` as `LInv` on all four weight types) says:

- `FileGood`: every blob of the file is a buffer `r` of the configuration
  `fileBy` that wrote it. It sits under `EntryOf(r, fileBy)` (its key and
  size) and holds `Content(r, fileBy)`.
- `WqGood`: every queued blob carries its buffer's key and size under `cfg`,
  and the buffer already holds its contents. `WriteAll` reads buffers at write
  time, through spans.
- `ReqsGood`: the reader's header has unique keys. Every request asks for its
  buffer's key under `cfg`, and the header has that key with the buffer's size
  under `cfg`.
- `Progress`: which tensors have been requested while `err_` was 0, and which
  have been compressed.
- `LoadedMatchesSource` itself. It holds on entering "ready", and nothing
  changes `mem` while ready.

The central lemma is `EntryDetermines`. If a key and size under one
configuration equal those under another, the buffer and its contents are the
same. The prefix tells the types apart (`PrefixInjective`). For a fixed type,
the size tells the capacities apart (`SizeInjective`); for NUQ this needs the
capacities to be multiples of 256. `ReadBody` then shows that a successful
`ReadAll` copies `Content(r, cfg)` into every buffer.

The step lemma `StepRefines` maps the steps as follows:

- the step into "ready" is `Load`;
- `Restart` is `Restart`;
- every other step is a stutter, because nothing changes `mem` once ready.

`LoadProofs` also proves `LoadInvariant`: `Spec => []LInv` under
`~WriteFaults`, the same invariant the run `cache_refinement` checks.

`HitProofs` proves, assuming `0 \notin ScalesLens`:

- `CleanWriteHits`: `Spec => []CacheHitAfterCleanWrite`, with write and read
  faults. A header-and-bodies file written completely by the running
  configuration is read back without error.
- `HitInvariant`: `Spec => []HInv`.

`HInv` is `IInv` and three more conjuncts:

- `FileDir`: the header of any file is exactly the list of entries
  (`EntryOf`) of its writer's tensors, and then the scales blob.
- `WqExact`: in each phase the writer queue is exactly the prefix of entries
  the Compressor has queued so far.
- `HitState`: while the loader works on a clean file of its own
  configuration, `err_` is 0, the batch is not poisoned and the reader holds
  the file's header.

`WqExact` is what makes `FileDir` inductive: `WriteAll` writes the queue as
the header. The key lemma is `KeyOfInjective`: two tensors of one
configuration have different keys, so `ReadAll` finds each request in the
header. The hypothesis `0 \notin ScalesLens` is needed: with a scales length of
0 the claim is false (run `no_scales`).

`BatchCodecProofs` proves, for every `Batch`, lane count, `Slack` and count
that satisfy the assumptions of `BatchCodec`:

- `BatchTypeCorrect`: `Spec => []TypeOK`;
- `RoundTripCorrect`: `Spec => []RoundTrip`;
- `DecompressBounded`: `Spec => []DecompressInBounds`, assuming `Aligned`.
  Without it, the f32 loop of a count that is not a multiple of 2N runs
  whole vectors past `num`. The run `f32_unaligned_writes` shows this for
  `Compress`.

The three rest on `RInv` (in `BatchCodec`; checked by `batch_codec`), which
the theorem `RInvInvariant` proves is an invariant: `Spec => []RInv`. Below
`num`, `cmp` and `dec` hold `Unset` or the element of their own address. Every
batch that ran filled its whole range. `Decompress` starts only after every
`Compress` batch. The argument:

- Batch split: `BatchFacts` shows that every batch starts below `num` and
  takes 1..`kBatch` elements. Every batch but the last is exactly `kBatch`,
  and the last ends at `num`. `BatchesCover` shows that element `j` lies in
  batch `j \div kBatch`.
- Loops: the f32 loop touches `Chunked(n, 2N)`, which covers `0..n-1`, runs at
  most 2N - 1 past it, and stays inside when 2N divides n (`ChunkedFacts`,
  which rests on `MultipleMod` and `ChunkBelow`). `Bf16CompressShape` shows
  that the bf16 remainder store writes either input element `a` at address
  `a`, or `Zero` past the batch; the latter only when the batch is not a
  multiple of 2N, hence only in the last batch, past `num`.
  `Bf16DecompressShape` shows that the two `StoreN` of the bf16 remainder
  store exactly the batch.
- Steps: a store below `num` puts element `a` at address `a`. So batches in
  any order never disturb a range another batch filled (`CompressRInv`,
  `DecompressRInv`).
- Under `Aligned`: the last f32 batch is a multiple of 2N (`MultipleSub`:
  `num - b * kBatch` with 2N dividing both). So no `Decompress` store or load
  reaches `num`.

Stores are modelled with `Stored(w, m)`, the memory `m` overwritten by the
function `w`. This is what TLC's `@@` computes, in a form the provers can
expand.

`DotEOProofs` proves, for every set of lane counts, block counts and offset
blocks that satisfy the assumptions of `DotEO`:

- `LoopInvariant`: `Spec => []DInv`;
- `DotEOResult`: `Spec => []DotEOReach`. For every count the assertion
  admits, `DotEO` returns each product of the elements below `Reach` once.
  When `num` is an odd number of `2*N32` blocks, `Reach = num + N`: the
  result includes products from past the end of the row;
- `DotEOCorrect`: `Spec => []DotEOMatches`, assuming `EvenBlocks`;
- `DotEOTypeCorrect`: `Spec => []TypeOK`, assuming `EvenBlocks`.

`EvenBlocks` says every count is an even number of `2*N32` blocks. Under it
`Reach = num` (`EvenReach`). Without it both claims are false (run
`doteo_odd_blocks`).

`DInv` is needed because `DotEOMatches` speaks only of the final state. The
invariant gives each accumulator in closed form, as the bag of a set that
depends on `i`. Each iteration is then a single set equation, with no
induction over the iterations. The argument:

- Layout (`BlockTerm`, `BlockSplit`): element `i + hN + 2j + e` of an
  iteration that starts at a multiple `i` of `2N` has parity `e`, lies in a
  bf16 vector of parity `h`, and sits at `i + hN + e*N32 + j` of the vector.
  Every element of the iteration has this form.
- `PartStep`: one iteration adds to `Part(e, h, _)` exactly the lanes
  `PromoteEvenTo` (`e = 0`) or `PromoteOddTo` (`e = 1`) produces from the
  vector at `i + hN`, and none of these were there before. With
  `BagOfUnion`, a bag sum of disjoint sets is the bag of their union. So
  every product enters its accumulator exactly once.
- `ReachStep` and `ReachLeast`: while `i < num` the next index is still at
  most `Reach`. Once `i >= num`, `i = Reach`.
- `Reduce`: the four parts are disjoint (`PartDisjoint`) and together cover
  every element below `Reach` (`PartCover`).

## Only model-checked

- `LoadedMatchesSource` with write faults. It is then false (`torn_write`).
- `CacheHitAfterCleanWrite` with a scales length of 0. It is then false
  (`no_scales`).
- `ReadyEventually` and the fairness part of `ImplementsCachedWeights`: TLAPS
  cannot prove liveness.
- `DecompressInBounds` without `Aligned`, and `CompressReadsInBounds` and
  `CompressWritesInBounds`. These are the violation runs.
- `DotEOMatches` for counts with an odd number of `2*N32` blocks. It is then
  false (`doteo_odd_blocks`). `DotEOResult` proves what is returned instead.

## Not modelled

- The SFP and NUQ codecs. `sfp-inl.h` and `nuq-inl.h` are not in the
  repository. `CompressTraits<SfpStream>` and `CompressTraits<NuqStream>` only
  forward to them.
- The f32 and bf16 `Dot` beyond its assertion. It calls hwy's
  `hn::Dot::Compute`, which is not in the repository.
- `backprop/activations.h` only declares buffers.
- `backprop/optimizer.h`:
  - Despite its name, it holds the declarations of `RandInitWeights` and
    `AdamUpdate`, whose bodies are not in the repository.
  - It also holds `ComputeCrossEntropy`, a floating-point sum driven by a
    sampling callback of `Gemma::Generate`.
  - Spec 1 excludes the generation loop and training, and `Generate` is not
    in the repository.
- Thread-pool scheduling beyond "batches run in any order". `pool.Run` is
  hwy's, and its code is not in the repository.
- The argument parsing and CPU pinning in `src/unnamed/part_001`. Spec 1
  excludes it.

## Plan

1. Add a standalone `BlobStore` run.
2. Show in `DotEOProofs` that `DotEO` refines a one-step abstract `DotEO`
   that returns `Want`.
