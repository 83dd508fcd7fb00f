---------------------------- MODULE WeightCache ----------------------------
(***************************************************************************)
(* Loading compressed weights through the blob-store cache, as            *)
(* compression/compress.h and compress-inl.h implement it:                 *)
(*                                                                         *)
(*   CacheLoader(path)        opens the file               (LoaderOpen)    *)
(*   loader(name, .., arr)    per tensor: Enqueue, scale 1 (LoaderVisit)   *)
(*   loader.LoadScales(..)    enqueues the scales blob     (LoaderLoadScales)*)
(*   loader.ReadAll(pool)     reads; false => regenerate   (LoaderReadAll) *)
(*   compressor(name, w, arr) per tensor: Compress + Add   (CompressorVisit)*)
(*   compressor.AddScales     queues the scales blob       (CompressorAddScales)*)
(*   compressor.WriteAll      writes the file              (CompressorWriteAll)*)
(*   Dot(df, arr, ...)        scale() * dot                 (Dot)          *)
(*                                                                         *)
(* The caller's sequence (visit every tensor in one fixed order, load the  *)
(* scales, ReadAll, and on failure recompress everything and write a new   *)
(* file) is spec.md 4.7; the caller is not in the repository.  A process   *)
(* may stop at any point (crash or exit) and a new one start, possibly     *)
(* with a different weight type or capacity: that is Restart.  The file    *)
(* survives, memory does not.                                              *)
(*                                                                         *)
(* A tensor is an index 1..NumTensors in ForEachTensor order.  Its         *)
(* compressed contents are abstracted to the record Content(t, cfg): which *)
(* tensor, in which representation, of which capacity.                     *)
(***************************************************************************)
EXTENDS BlobStore

CONSTANTS
    NumTensors,   \* tensors visited by ForEachTensor
    Types,        \* weight types MatT a process may be built for
    Caps,         \* capacities (elements) a tensor may have
    ScalesLens,   \* lengths of the scales array a model may have
    ScalesRef,    \* the caller's float* scales buffer
    Ones,         \* scales filled with 1.0f by LoadScales' fallback
    Uninit,       \* a buffer never written
    Zero,         \* result of multiplying a dot product by scale 0
    NoDot,        \* no Dot computed yet
    MaxRestarts   \* bound on process restarts

VARIABLES
    cfg,       \* the running process's weight type, capacity, scales length
    err,       \* CacheLoader::err_ (0 or nonzero)
    scale,     \* CompressedArray::scale_[0] of each tensor
    phase,     \* where the caller is in the load sequence
    next,      \* the tensor ForEachTensor visits next
    fileBy,    \* ghost: configuration of the process that wrote the file
    lastDot,   \* the last Dot result: which tensor and what it returned
    restarts

vars == <<file, wq, rd, mem, cfg, err, scale, phase, next, fileBy, lastDot, restarts>>

Tensors == 1..NumTensors
Configs == [type : Types, cap : Caps, nscales : ScalesLens]

ASSUME NumTensorsAssumption == NumTensors \in Nat \ {0}
ASSUME TypesAssumption == Types \subseteq {"f32", "bf16", "sfp", "nuq"}
ASSUME CapsAssumption == Caps \subseteq Nat \ {0}
ASSUME ScalesLensAssumption == ScalesLens \subseteq Nat
ASSUME RestartsAssumption == MaxRestarts \in Nat
ASSUME RefsAssumption == Refs = Tensors \cup {ScalesRef} /\ ScalesRef \notin Tensors
ASSUME FaultsAssumption == WriteFaults \in BOOLEAN /\ ReadFaults \in BOOLEAN
\* NUQ encodes whole groups of 256 (spec 3 and 4.2: the count is a multiple
\* of G), and the Compressor encodes the whole capacity.
ASSUME NuqCapsAssumption == "nuq" \in Types => \A c \in Caps : c % 256 = 0

-----------------------------------------------------------------------------
(* Sizes and keys.                                                         *)

\* NuqStream::PackedEnd (nuq.h, not in the repository; spec 3): one slot of
\* 16 bf16 centers and 256 4-bit indices per started group of 256.
NuqPackedEnd(cap) == ((cap + 255) \div 256) * (16 * 2 + 256 \div 2)

\* detail::CompressedArrayLen and CompressedArraySize (sizeof MatT).
CompressedArrayLen(ty, cap) == IF ty = "nuq" THEN NuqPackedEnd(cap) ELSE cap
SizeofMatT(ty) == CASE ty = "f32" -> 4 [] ty = "bf16" -> 2 [] OTHER -> 1
CompressedSize(ty, cap) == CompressedArrayLen(ty, cap) * SizeofMatT(ty)

\* The one-character prefix CacheKey<MatT> puts before the tensor name.
Prefix(ty) ==
    CASE ty = "f32" -> "F" [] ty = "bf16" -> "B" [] ty = "sfp" -> "$"
      [] ty = "nuq" -> "2" [] OTHER -> "?"

\* Mutant: the key ignores the representation (one prefix for every type).
CacheKeyUntyped(ty, name) == <<"F", name>>

\* CacheKey<MatT>(name): MakeKey of prefix + name.
CacheKey(ty, name) == <<Prefix(ty), name>>

\* The scales blob: CacheKey<float>("scales"), len floats.
ScalesKey == CacheKey("f32", ScalesRef)
ScalesSize(len) == len * 4

\* What a buffer holds once compressed for configuration c.
Content(r, c) ==
    IF r = ScalesRef THEN [t |-> r, type |-> "f32", cap |-> c.nscales]
                     ELSE [t |-> r, type |-> c.type, cap |-> c.cap]

Contents == {Content(r, c) : r \in Refs, c \in Configs}

\* Every key and every content the caller can produce is one the store knows.
ASSUME KeysAssumption ==
    \A ty \in Types \cup {"f32"}, r \in Refs : CacheKey(ty, r) \in Keys
ASSUME DataAssumption == Contents \cup {Uninit, Ones} \subseteq Data

\* A file is clean when the whole of it was written.
Clean(f) == f # NoFile /\ f.hdr /\ \A i \in DOMAIN f.body : f.body[i] # Hole

Phases == {"open", "enqueue", "scales", "read", "compress", "addscales",
           "write", "ready"}

TypeOK ==
    /\ StoreTypeOK
    /\ cfg \in Configs
    /\ err \in {0, 1}
    /\ scale \in [Tensors -> {0, 1}]
    /\ phase \in Phases
    /\ next \in Tensors
    /\ fileBy \in Configs \cup {NoFile}
    /\ lastDot \in {NoDot} \cup [t : Tensors, val : Data \cup {Hole, Zero}]
    /\ restarts \in 0..MaxRestarts

-----------------------------------------------------------------------------
(* A fresh process: nothing loaded.  CompressedArray leaves scale_         *)
(* uninitialized; spec 3 and the comment on data_scale1() take a fresh     *)
(* array's scale to be the 0.0 sentinel.                                   *)
Fresh ==
    /\ wq' = << >>
    /\ rd' = ReaderEmpty
    /\ mem' = [r \in Refs |-> Uninit]
    /\ scale' = [t \in Tensors |-> 0]
    /\ err' = 0
    /\ phase' = "open"
    /\ next' = 1
    /\ lastDot' = NoDot

Init ==
    /\ file = NoFile
    /\ fileBy = NoFile
    /\ cfg \in Configs
    /\ wq = << >>
    /\ rd = ReaderEmpty
    /\ mem = [r \in Refs |-> Uninit]
    /\ scale = [t \in Tensors |-> 0]
    /\ err = 0
    /\ phase = "open"
    /\ next = 1
    /\ lastDot = NoDot
    /\ restarts = 0

\* CacheLoader(blob_filename): err_ = reader_.Open(blob_filename).
LoaderOpen ==
    /\ phase = "open"
    /\ ReaderOpen
    /\ err' = OpenErr
    /\ phase' = "enqueue"
    /\ UNCHANGED <<file, wq, mem, cfg, scale, next, fileBy, lastDot, restarts>>

\* Mutant: the visit does not restart the tensor index for the next pass.
LoaderVisitNoReset ==
    /\ phase = "enqueue"
    /\ IF err # 0
         THEN UNCHANGED <<rd, err, scale>>
         ELSE LET k == CacheKey(cfg.type, next)
                  sz == CompressedSize(cfg.type, cfg.cap)
              IN /\ ReaderEnqueue(k, next, sz)
                 /\ err' = EnqueueErr(k, sz)
                 /\ scale' = [scale EXCEPT ![next] = 1]
    /\ phase' = IF next = NumTensors THEN "scales" ELSE "enqueue"
    /\ next' = next + 1
    /\ UNCHANGED <<file, wq, mem, cfg, fileBy, lastDot, restarts>>

(* CacheLoader::operator()(name, null, compressed) for tensor next: skips  *)
(* once err_ is set (before set_scale); otherwise enqueues the read,       *)
(* keeps its result in err_ and sets the scale to 1 whatever the result.   *)
LoaderVisit ==
    /\ phase = "enqueue"
    /\ IF err # 0
         THEN UNCHANGED <<rd, err, scale>>
         ELSE LET k == CacheKey(cfg.type, next)
                  sz == CompressedSize(cfg.type, cfg.cap)
              IN /\ ReaderEnqueue(k, next, sz)
                 /\ err' = EnqueueErr(k, sz)
                 /\ scale' = [scale EXCEPT ![next] = 1]
    /\ IF next = NumTensors
         THEN phase' = "scales" /\ next' = 1
         ELSE phase' = "enqueue" /\ next' = next + 1
    /\ UNCHANGED <<file, wq, mem, cfg, fileBy, lastDot, restarts>>

(* CacheLoader::LoadScales(scales, len): enqueues the scales blob whether  *)
(* or not err_ is set; if that fails, fills scales[0..len) with 1.0f.      *)
LoaderLoadScales ==
    /\ phase = "scales"
    /\ LET sz == ScalesSize(cfg.nscales) IN
         /\ ReaderEnqueue(ScalesKey, ScalesRef, sz)
         /\ mem' = IF EnqueueErr(ScalesKey, sz) # 0 /\ cfg.nscales > 0
                     THEN [mem EXCEPT ![ScalesRef] = Ones]
                     ELSE mem
    /\ phase' = "read"
    /\ UNCHANGED <<file, wq, cfg, err, scale, next, fileBy, lastDot, restarts>>

\* Mutant: a failed load is retried from Open instead of regenerating.
LoaderReadAllRetry ==
    /\ phase = "read"
    /\ IF err # 0
         THEN phase' = "open" /\ UNCHANGED <<err, mem>>
         ELSE \E e \in {0, 1} :
                /\ ReaderReadAll(e)
                /\ err' = e
                /\ phase' = IF e = 0 THEN "ready" ELSE "open"
    /\ UNCHANGED <<file, wq, rd, cfg, scale, next, fileBy, lastDot, restarts>>

\* Mutant: ReadAll reports success without looking at reader_.ReadAll's error.
LoaderReadAllIgnoreErr ==
    /\ phase = "read"
    /\ IF err # 0
         THEN phase' = "compress" /\ UNCHANGED <<err, mem>>
         ELSE \E e \in {0, 1} :
                /\ ReaderReadAll(e)
                /\ err' = e
                /\ phase' = "ready"
    /\ UNCHANGED <<file, wq, rd, cfg, scale, next, fileBy, lastDot, restarts>>

(* CacheLoader::ReadAll(pool): false if err_ is set; otherwise err_ =      *)
(* reader_.ReadAll(pool).  On false the caller recompresses (spec 4.7).    *)
LoaderReadAll ==
    /\ phase = "read"
    /\ IF err # 0
         THEN phase' = "compress" /\ UNCHANGED <<err, mem>>
         ELSE \E e \in {0, 1} :
                /\ ReaderReadAll(e)
                /\ err' = e
                /\ phase' = IF e = 0 THEN "ready" ELSE "compress"
    /\ UNCHANGED <<file, wq, rd, cfg, scale, next, fileBy, lastDot, restarts>>

\* Mutant: Insert queues the blob with the element count (weights_count)
\* instead of the compressed size out_capacity.
CompressorVisitCountSize ==
    /\ phase = "compress"
    /\ mem' = [mem EXCEPT ![next] = Content(next, cfg)]
    /\ WriterAdd(CacheKey(cfg.type, next), next, cfg.cap)
    /\ IF next = NumTensors
         THEN phase' = "addscales" /\ next' = 1
         ELSE phase' = "compress" /\ next' = next + 1
    /\ UNCHANGED <<file, rd, cfg, err, scale, fileBy, lastDot, restarts>>

(* Compressor::operator() -> Insert: compresses the tensor into its array  *)
(* and queues it under CacheKey<MatT>(name) with the array's compressed    *)
(* size.  The scale is left as it is.                                      *)
CompressorVisit ==
    /\ phase = "compress"
    /\ mem' = [mem EXCEPT ![next] = Content(next, cfg)]
    /\ WriterAdd(CacheKey(cfg.type, next), next, CompressedSize(cfg.type, cfg.cap))
    /\ IF next = NumTensors
         THEN phase' = "addscales" /\ next' = 1
         ELSE phase' = "compress" /\ next' = next + 1
    /\ UNCHANGED <<file, rd, cfg, err, scale, fileBy, lastDot, restarts>>

(* Compressor::AddScales(scales, len): queues the caller's scales array,   *)
(* which the caller filled while compressing, only if len is nonzero.      *)
CompressorAddScales ==
    /\ phase = "addscales"
    /\ mem' = [mem EXCEPT ![ScalesRef] = Content(ScalesRef, cfg)]
    /\ IF cfg.nscales # 0
         THEN WriterAdd(ScalesKey, ScalesRef, ScalesSize(cfg.nscales))
         ELSE wq' = wq
    /\ phase' = "write"
    /\ UNCHANGED <<file, rd, cfg, err, scale, next, fileBy, lastDot, restarts>>

(* Compressor::WriteAll: writer_.WriteAll; an error is only printed, and   *)
(* the caller goes on with the weights it has in memory.                   *)
CompressorWriteAll ==
    /\ phase = "write"
    /\ WriterWriteAll
    /\ fileBy' = cfg
    /\ phase' = "ready"
    /\ UNCHANGED <<wq, rd, mem, cfg, err, scale, next, lastDot, restarts>>

\* Dot(df, compressed, ofs, vec, num): compressed.scale() * dot_result.
DotResult(s, d) == IF s = 0 THEN Zero ELSE d

Dot(t) ==
    /\ phase = "ready"
    /\ lastDot' = [t |-> t, val |-> DotResult(scale[t], mem[t])]
    /\ UNCHANGED <<file, wq, rd, mem, cfg, err, scale, phase, next, fileBy, restarts>>

\* The process stops (crash or exit) and a new one starts with configuration c.
Restart(c) ==
    /\ restarts < MaxRestarts
    /\ restarts' = restarts + 1
    /\ cfg' = c
    /\ Fresh
    /\ UNCHANGED <<file, fileBy>>

Process ==
    \/ LoaderOpen \/ LoaderVisit \/ LoaderLoadScales \/ LoaderReadAll
    \/ CompressorVisit \/ CompressorAddScales \/ CompressorWriteAll

Next ==
    \/ Process
    \/ \E t \in Tensors : Dot(t)
    \/ \E c \in Configs : Restart(c)

(* The load sequence is straight-line code in one thread: once started it  *)
(* keeps running.  Restarts and Dot calls are up to the user.              *)
Spec == Init /\ [][Next]_vars /\ WF_vars(Process)

-----------------------------------------------------------------------------
(* Strengthening of TypeOK used by the proofs: until the new file is       *)
(* written, the header the reader holds is the file's, and every request   *)
(* names a key of that header, so ReadAll reads bodies that exist.         *)
ReaderFromFile ==
    (phase # "ready" /\ rd.dir # << >>) => (file # NoFile /\ rd.dir = file.dir)

ReqsInHeader ==
    \A q \in rd.reqs : \E i \in DOMAIN rd.dir : rd.dir[i].key = q.key

IInv == TypeOK /\ ReaderFromFile /\ ReqsInHeader

-----------------------------------------------------------------------------
(* Properties.                                                             *)

(* Once the caller computes with the weights, every tensor and the scales  *)
(* hold exactly what compressing them for this process's type and capacity *)
(* gives, whether they came from the cache file or were regenerated:       *)
(* CacheKey's type prefix and Enqueue's size check must keep a file of     *)
(* another configuration from being loaded.                                *)
LoadedMatchesSource ==
    phase = "ready" => \A r \in Refs : mem[r] = Content(r, cfg)

(* A file that a process with the same configuration wrote completely is  *)
(* a cache hit: by the time CacheLoader::ReadAll runs, every Enqueue of    *)
(* the tensors and of the scales succeeded (keys and sizes written by the  *)
(* Compressor match those the CacheLoader asks for).                       *)
CacheHitAfterCleanWrite ==
    (phase = "read" /\ Clean(file) /\ fileBy = cfg) => (err = 0 /\ ~rd.poisoned)

(* Dot on a tensor returns its dot product with the weights it holds,      *)
(* scale 0 meaning "never set, treat as 1" (spec 3, data_scale1()).        *)
DotUsesWeights ==
    lastDot # NoDot => lastDot.val = mem[lastDot.t]

(* Every run of the loader ends with weights to compute with (the last     *)
(* process started is never stuck reloading).                              *)
ReadyEventually == <>[](phase = "ready")
-----------------------------------------------------------------------------
(* Further strengthening, for LoadedMatchesSource when writes do not fail. *)
(* KeyOf and SizeOf are the key and size under which buffer r of           *)
(* configuration c is written and read.                                    *)
KeyOf(r, c) == IF r = ScalesRef THEN ScalesKey ELSE CacheKey(c.type, r)
SizeOf(r, c) ==
    IF r = ScalesRef THEN ScalesSize(c.nscales) ELSE CompressedSize(c.type, c.cap)
EntryOf(r, c) == [key |-> KeyOf(r, c), size |-> SizeOf(r, c)]

\* Every blob of the file is some buffer of the writer's configuration,
\* under its key and size, with its contents.
FileGood ==
    file # NoFile =>
        /\ fileBy \in Configs
        /\ file.hdr
        /\ \A i \in DOMAIN file.dir :
              \E r \in Refs : /\ file.dir[i] = EntryOf(r, fileBy)
                             /\ file.body[i] = Content(r, fileBy)

\* Every queued blob is a buffer of this process, already compressed.
WqGood ==
    /\ phase \in {"open", "enqueue", "scales", "read"} => wq = << >>
    /\ \A i \in DOMAIN wq :
          /\ wq[i].key = KeyOf(wq[i].ref, cfg)
          /\ wq[i].size = SizeOf(wq[i].ref, cfg)
          /\ mem[wq[i].ref] = Content(wq[i].ref, cfg)

\* Every request asks for one of this process's buffers under its key, and
\* the header has that key with this process's size.
ReqsGood ==
    /\ UniqueKeys(rd.dir)
    /\ \A q \in rd.reqs :
          /\ q.key = KeyOf(q.ref, cfg)
          /\ \E i \in DOMAIN rd.dir : rd.dir[i] = EntryOf(q.ref, cfg)

Requested(r) == \E q \in rd.reqs : q.ref = r

\* How far the load sequence got: requests made while err_ is 0, and the
\* tensors compressed so far.
Progress ==
    /\ phase \notin {"enqueue", "compress"} => next = 1
    /\ (phase = "enqueue" /\ err = 0) => \A t \in 1..(next - 1) : Requested(t)
    /\ (phase \in {"scales", "read"} /\ err = 0) => \A t \in Tensors : Requested(t)
    /\ (phase = "read" /\ ~rd.poisoned) => Requested(ScalesRef)
    /\ phase = "compress" => \A t \in 1..(next - 1) : mem[t] = Content(t, cfg)
    /\ phase \in {"addscales", "write"} => \A t \in Tensors : mem[t] = Content(t, cfg)
    /\ phase = "write" => mem[ScalesRef] = Content(ScalesRef, cfg)

(* The inductive invariant behind LoadedMatchesSource: the cache file only  *)
(* holds entries written for the configuration that wrote it, the write    *)
(* queue and the read requests name the keys and sizes of the current      *)
(* configuration, and the load sequence has requested or compressed what   *)
(* its phase says.  No interleaving of Loader, Compressor, failing reads and *)
(* restarts breaks it, and it implies that loaded weights match the source. *)
LInv ==
    /\ IInv /\ FileGood /\ WqGood /\ ReqsGood /\ Progress
    /\ LoadedMatchesSource

-----------------------------------------------------------------------------
(* Strengthening for CacheHitAfterCleanWrite.  Blob i of a file written by *)
(* configuration c is tensor i, and blob NumTensors + 1 the scales when c  *)
(* has any.                                                                *)
RefAt(i) == IF i \in Tensors THEN i ELSE ScalesRef
FileLen(c) == NumTensors + (IF c.nscales # 0 THEN 1 ELSE 0)
QEntry(r, c) == [key |-> KeyOf(r, c), ref |-> r, size |-> SizeOf(r, c)]

\* The header of the file is the writer's queue, whatever bodies it wrote.
FileDir ==
    file # NoFile =>
       /\ fileBy \in Configs
       /\ file.dir = [i \in 1..FileLen(fileBy) |-> EntryOf(RefAt(i), fileBy)]

\* The Compressor queues the tensors in ForEachTensor order, then the scales.
WqExact ==
    /\ phase \notin {"enqueue", "compress"} => next = 1
    /\ phase \in {"open", "enqueue", "scales", "read"} => wq = << >>
    /\ phase = "compress" => wq = [i \in 1..(next - 1) |-> QEntry(i, cfg)]
    /\ phase = "addscales" => wq = [i \in Tensors |-> QEntry(i, cfg)]
    /\ phase = "write" => wq = [i \in 1..FileLen(cfg) |-> QEntry(RefAt(i), cfg)]

\* Loading a clean file of this configuration has hit on every Enqueue.
HitState ==
    (phase \in {"enqueue", "scales", "read"} /\ Clean(file) /\ fileBy = cfg)
        => (err = 0 /\ ~rd.poisoned /\ rd.dir = file.dir)

(* The inductive invariant behind CacheHitAfterCleanWrite: the header of    *)
(* the cache file lists, in order, the tensors and then the scales of the  *)
(* configuration that wrote it, under the keys and sizes the CacheLoader   *)
(* of that configuration asks for, even when bodies or the header failed  *)
(* to be written; and while a process loads a clean file of its own        *)
(* configuration, err_ stays 0 and the batch is not poisoned.              *)
HInv == IInv /\ FileDir /\ WqExact /\ HitState

-----------------------------------------------------------------------------
(* Refinement: the weights the caller sees are mem once the load sequence  *)
(* reached "ready", and nothing before.                                    *)
Abstract == INSTANCE CachedWeights
    WITH Configs <- Configs, Refs <- Refs, Want <- Content, NotLoaded <- Uninit,
         config <- cfg, weights <- IF phase = "ready" THEN mem ELSE Uninit

(* The cache loader, the Compressor and restarts together implement the   *)
(* abstract cache: every step either loads all buffers at once with the    *)
(* contents of this configuration (a ReadAll that succeeded, or a          *)
(* WriteAll after regenerating), restarts, or changes nothing the caller   *)
(* sees; and a running process does reach its weights.                     *)
ImplementsCachedWeights == Abstract!Spec
=============================================================================
