----------------------------- MODULE HitProofs -----------------------------
(***************************************************************************)
(* Proof that a cache file written completely by a process of the same     *)
(* configuration is a cache hit (CacheHitAfterCleanWrite), for every value *)
(* of the constants with a non-empty scales array, with or without faults  *)
(* in writes and reads.                                                    *)
(*                                                                         *)
(* The argument: the header of the file is the Compressor's queue, which   *)
(* lists tensor 1 .. NumTensors and then the scales under the keys and     *)
(* sizes of the writing configuration (FileDir, WqExact); a failed body or *)
(* header write leaves that header alone.  If the file is clean, Open      *)
(* accepts it; each Enqueue of the loader then asks for a key and size the *)
(* header holds at the tensor's own index, so none fails (HitState).       *)
(***************************************************************************)
EXTENDS WeightCacheProofs

USE NumTensorsAssumption, TypesAssumption, CapsAssumption,
    ScalesLensAssumption, RestartsAssumption, RefsAssumption,
    FaultsAssumption, KeysAssumption, DataAssumption

\* The part of HInv beyond IInv.
HRest == FileDir /\ WqExact /\ HitState

-----------------------------------------------------------------------------
(* Distinct buffers are stored under distinct keys.                        *)
LEMMA KeyOfInjective ==
    ASSUME NEW r \in Refs, NEW s \in Refs, NEW c \in Configs,
           KeyOf(r, c) = KeyOf(s, c)
    PROVE  r = s
BY DEF KeyOf, ScalesKey, CacheKey

(* Blob i of a file of FileLen(c) blobs is buffer RefAt(i), and distinct    *)
(* blobs are distinct buffers.                                             *)
LEMMA RefAtFacts ==
    ASSUME NEW c \in Configs
    PROVE  /\ FileLen(c) \in Nat
           /\ \A i \in 1..FileLen(c) : RefAt(i) \in Refs
           /\ \A i, j \in 1..FileLen(c) : RefAt(i) = RefAt(j) => i = j
<1>1. FileLen(c) \in Nat /\ FileLen(c) <= NumTensors + 1
  BY DEF FileLen, Configs
<1>2. \A i \in 1..FileLen(c) : RefAt(i) \in Refs
  BY DEF RefAt
<1>3. \A i, j \in 1..FileLen(c) : RefAt(i) = RefAt(j) => i = j
  BY <1>1 DEF RefAt, Tensors
<1>4. QED
  BY <1>1, <1>2, <1>3

(* Appending e to a queue s gives the function on 1..Len(s)+1 that agrees *)
(* with s below Len(s)+1 and is e at Len(s)+1.                            *)
LEMMA AppendIs ==
    ASSUME NEW s \in Seq(Queued), NEW e \in Queued,
           NEW t \in [1..(Len(s) + 1) -> Queued], t[Len(s) + 1] = e,
           \A i \in 1..Len(s) : t[i] = s[i]
    PROVE  Append(s, e) = t
<1>1. /\ Append(s, e) \in Seq(Queued)
      /\ Len(Append(s, e)) = Len(s) + 1
      /\ \A i \in 1..Len(s) : Append(s, e)[i] = s[i]
      /\ Append(s, e)[Len(s) + 1] = e
  BY AppendProperties
<1>2. DOMAIN Append(s, e) = 1..(Len(s) + 1)
  BY <1>1, LenProperties
<1>3. QED
  BY <1>1, <1>2

\* The empty sequence is the function on 1..0.
LEMMA EmptyIsRange ==
    ASSUME NEW F
    PROVE  << >> = [i \in 1..0 |-> F]
BY 1..0 = {}

(* A file written for configuration c whose header lists its buffers in    *)
(* order has unique keys; clean, Open accepts it.                          *)
LEMMA CleanFileOpens ==
    ASSUME StoreTypeOK, FileDir, Clean(file)
    PROVE  OpenOK(file)
<1>1. file # NoFile /\ file.hdr /\ fileBy \in Configs
  BY DEF Clean, FileDir
<1> DEFINE n == FileLen(fileBy)
<1>2. file.dir = [i \in 1..n |-> EntryOf(RefAt(i), fileBy)]
  BY <1>1 DEF FileDir
<1>3. UniqueKeys(file.dir)
  <2> SUFFICES ASSUME NEW i \in 1..n, NEW j \in 1..n,
                      KeyOf(RefAt(i), fileBy) = KeyOf(RefAt(j), fileBy)
               PROVE  i = j
    BY <1>2 DEF UniqueKeys, EntryOf
  <2>1. RefAt(i) \in Refs /\ RefAt(j) \in Refs
    BY <1>1, RefAtFacts
  <2>2. RefAt(i) = RefAt(j)
    BY <1>1, <2>1, KeyOfInjective
  <2>3. QED
    BY <1>1, <2>2, RefAtFacts
<1>4. WithinFile(file)
  <2>1. file \in File /\ Len(file.body) = Len(file.dir)
    BY <1>1 DEF StoreTypeOK
  <2>2. DOMAIN file.body = 1..Len(file.body)
    BY <2>1, LenProperties DEF File
  <2>3. Len(file.dir) > 0 => Len(file.dir) \in DOMAIN file.body
    BY <2>1, <2>2
  <2>4. QED
    BY <2>3 DEF WithinFile, Clean
<1>5. QED
  BY <1>1, <1>3, <1>4 DEF OpenOK

-----------------------------------------------------------------------------
(* The initial state: no file and nothing queued.                          *)
LEMMA InitHRest == Init => HRest
BY DEF Init, HRest, FileDir, WqExact, HitState

LEMMA LoaderOpenHRest ==
    ASSUME IInv, HRest, LoaderOpen
    PROVE  HRest'
<1> USE DEF LoaderOpen
<1>1. FileDir' /\ WqExact'
  BY DEF HRest, FileDir, WqExact
<1>2. HitState'
  <2> SUFFICES ASSUME Clean(file), fileBy = cfg
               PROVE  err' = 0 /\ ~rd'.poisoned /\ rd'.dir = file.dir
    BY DEF HitState
  <2>1. OpenOK(file)
    BY CleanFileOpens DEF IInv, TypeOK, HRest
  <2>2. QED
    BY <2>1 DEF OpenErr, ReaderOpen
<1>3. QED
  BY <1>1, <1>2 DEF HRest

(* A tensor's visit: with err_ 0 and the header of a clean file of this     *)
(* configuration, Enqueue finds the tensor's key and size at its index.    *)
LEMMA LoaderVisitHRest ==
    ASSUME IInv, HRest, LoaderVisit
    PROVE  HRest'
<1> USE DEF LoaderVisit
<1>1. FileDir'
  BY DEF HRest, FileDir
<1>2. WqExact'
  BY DEF HRest, WqExact
<1>3. HitState'
  <2> SUFFICES ASSUME Clean(file), fileBy = cfg
               PROVE  err' = 0 /\ ~rd'.poisoned /\ rd'.dir = file.dir
    BY DEF HitState
  <2>1. err = 0 /\ ~rd.poisoned /\ rd.dir = file.dir
    BY DEF HRest, HitState
  <2>2. cfg \in Configs /\ next \in Tensors /\ rd \in Reader
    BY DEF IInv, TypeOK, StoreTypeOK
  <2> DEFINE k == CacheKey(cfg.type, next)
             sz == CompressedSize(cfg.type, cfg.cap)
  <2>3. next \in 1..FileLen(cfg) /\ RefAt(next) = next /\ next # ScalesRef
    BY <2>2 DEF FileLen, RefAt, Tensors
  <2>4. file.dir = [j \in 1..FileLen(cfg) |-> EntryOf(RefAt(j), cfg)]
    BY DEF HRest, FileDir, Clean
  <2>5. \E j \in DOMAIN rd.dir : rd.dir[j] = [key |-> k, size |-> sz]
    <3>1. EntryOf(RefAt(next), cfg) = [key |-> k, size |-> sz]
      BY <2>3 DEF EntryOf, KeyOf, SizeOf
    <3>2. next \in DOMAIN file.dir /\ file.dir[next] = [key |-> k, size |-> sz]
      BY <2>3, <2>4, <3>1
    <3>3. QED
      BY <2>1, <3>2
  <2>6. EnqueueErr(k, sz) = 0
    BY <2>1, <2>5 DEF EnqueueErr
  <2>7. rd' = [rd EXCEPT !.reqs = @ \cup {[key |-> k, ref |-> next]}]
    BY <2>1, <2>6 DEF ReaderEnqueue
  <2>8. QED
    BY <2>1, <2>2, <2>6, <2>7 DEF Reader
<1>4. QED
  BY <1>1, <1>2, <1>3 DEF HRest

(* LoadScales: a configuration with scales finds the scales blob at index  *)
(* NumTensors + 1 of a clean file it wrote.                                *)
LEMMA LoaderLoadScalesHRest ==
    ASSUME IInv, HRest, LoaderLoadScales, 0 \notin ScalesLens
    PROVE  HRest'
<1> USE DEF LoaderLoadScales
<1>1. FileDir'
  BY DEF HRest, FileDir
<1>2. WqExact'
  BY DEF HRest, WqExact
<1>3. HitState'
  <2> SUFFICES ASSUME Clean(file), fileBy = cfg
               PROVE  err' = 0 /\ ~rd'.poisoned /\ rd'.dir = file.dir
    BY DEF HitState
  <2>1. err = 0 /\ ~rd.poisoned /\ rd.dir = file.dir
    BY DEF HRest, HitState
  <2>2. cfg \in Configs /\ rd \in Reader /\ cfg.nscales # 0
    BY DEF IInv, TypeOK, StoreTypeOK, Configs
  <2> DEFINE sz == ScalesSize(cfg.nscales)
             i == NumTensors + 1
  <2>3. i \in 1..FileLen(cfg) /\ RefAt(i) = ScalesRef
    BY <2>2 DEF FileLen, RefAt, Tensors
  <2>4. file.dir = [j \in 1..FileLen(cfg) |-> EntryOf(RefAt(j), cfg)]
    BY DEF HRest, FileDir, Clean
  <2>5. \E j \in DOMAIN rd.dir : rd.dir[j] = [key |-> ScalesKey, size |-> sz]
    <3>1. EntryOf(RefAt(i), cfg) = [key |-> ScalesKey, size |-> sz]
      BY <2>3 DEF EntryOf, KeyOf, SizeOf
    <3>2. i \in DOMAIN file.dir /\ file.dir[i] = [key |-> ScalesKey, size |-> sz]
      BY <2>3, <2>4, <3>1
    <3>3. QED
      BY <2>1, <3>2
  <2>6. EnqueueErr(ScalesKey, sz) = 0
    BY <2>1, <2>5 DEF EnqueueErr
  <2>7. rd' = [rd EXCEPT !.reqs = @ \cup {[key |-> ScalesKey, ref |-> ScalesRef]}]
    BY <2>6 DEF ReaderEnqueue
  <2>8. QED
    BY <2>1, <2>2, <2>7 DEF Reader
<1>4. QED
  BY <1>1, <1>2, <1>3 DEF HRest

(* ReadAll leaves the loading phases and, on failure, starts compressing   *)
(* with an empty queue.                                                    *)
LEMMA LoaderReadAllHRest ==
    ASSUME IInv, HRest, LoaderReadAll
    PROVE  HRest'
<1> USE DEF LoaderReadAll
<1>1. phase' \in {"compress", "ready"} /\ next = 1 /\ wq = << >>
  BY DEF HRest, WqExact
<1>2. << >> = [i \in 1..(1 - 1) |-> QEntry(i, cfg)]
  BY EmptyIsRange
<1>3. QED
  BY <1>1, <1>2 DEF HRest, FileDir, WqExact, HitState

\* A queued blob of configuration c is a blob of the writer's type.
LEMMA QEntryQueued ==
    ASSUME NEW r \in Refs, NEW c \in Configs
    PROVE  QEntry(r, c) \in Queued
<1>1. KeyOf(r, c) \in Keys /\ SizeOf(r, c) \in Nat
  BY KeyInKeys DEF KeyOf, SizeOf, Configs
<1>2. QED
  BY <1>1 DEF QEntry, Queued

(* Compressing tensor next queues it after tensors 1 .. next - 1.          *)
LEMMA CompressorVisitHRest ==
    ASSUME IInv, HRest, CompressorVisit
    PROVE  HRest'
<1> USE DEF CompressorVisit
<1>1. cfg \in Configs /\ next \in Tensors
  BY DEF IInv, TypeOK
<1>2. wq = [i \in 1..(next - 1) |-> QEntry(i, cfg)]
  BY DEF HRest, WqExact
<1> DEFINE q == [i \in 1..next |-> QEntry(i, cfg)]
<1>3. wq' = q
  <2>1. [key |-> CacheKey(cfg.type, next), ref |-> next,
         size |-> CompressedSize(cfg.type, cfg.cap)] = QEntry(next, cfg)
    BY <1>1 DEF QEntry, KeyOf, SizeOf, Tensors
  <2>2. \A i \in Tensors : QEntry(i, cfg) \in Queued
    BY <1>1, QEntryQueued
  <2>3. wq \in Seq(Queued) /\ Len(wq) = next - 1
    <3>1. wq \in [1..(next - 1) -> Queued] /\ next - 1 \in Nat
      BY <1>1, <1>2, <2>2 DEF Tensors
    <3>2. QED
      BY <3>1, FunIsSeq
  <2>4. QEntry(next, cfg) \in Queued
    BY <1>1, <2>2
  <2>5. /\ q \in [1..(Len(wq) + 1) -> Queued] /\ q[Len(wq) + 1] = QEntry(next, cfg)
        /\ \A i \in 1..Len(wq) : q[i] = wq[i]
    BY <1>1, <1>2, <2>2, <2>3 DEF q, Tensors
  <2>6. Append(wq, QEntry(next, cfg)) = q
    BY <2>3, <2>4, <2>5, AppendIs
  <2>7. QED
    BY <2>1, <2>6 DEF WriterAdd
<1>4. WqExact'
  BY <1>1, <1>3 DEF WqExact, Tensors
<1>5. FileDir' /\ HitState'
  BY DEF HRest, FileDir, HitState
<1>6. QED
  BY <1>4, <1>5 DEF HRest

(* AddScales queues the scales last, when there are any.                   *)
LEMMA CompressorAddScalesHRest ==
    ASSUME IInv, HRest, CompressorAddScales
    PROVE  HRest'
<1> USE DEF CompressorAddScales
<1>1. cfg \in Configs /\ next = 1
  BY DEF IInv, TypeOK, HRest, WqExact
<1>2. wq = [i \in Tensors |-> QEntry(i, cfg)]
  BY DEF HRest, WqExact
<1> DEFINE q == [i \in 1..FileLen(cfg) |-> QEntry(RefAt(i), cfg)]
<1>3. wq' = q
  <2>1. CASE cfg.nscales # 0
    <3>1. [key |-> ScalesKey, ref |-> ScalesRef,
           size |-> ScalesSize(cfg.nscales)] = QEntry(ScalesRef, cfg)
      BY DEF QEntry, KeyOf, SizeOf
    <3>2. \A i \in Tensors : QEntry(i, cfg) \in Queued
      BY <1>1, QEntryQueued
    <3>3. /\ wq \in Seq(Queued) /\ Len(wq) = NumTensors
          /\ QEntry(ScalesRef, cfg) \in Queued
      <4>1. wq \in [1..NumTensors -> Queued]
        BY <1>2, <3>2 DEF Tensors
      <4>2. QED
        BY <1>1, <4>1, FunIsSeq, QEntryQueued
    <3>4. FileLen(cfg) = NumTensors + 1
      BY <2>1 DEF FileLen
    <3>5. /\ q \in [1..(Len(wq) + 1) -> Queued]
          /\ q[Len(wq) + 1] = QEntry(ScalesRef, cfg)
          /\ \A i \in 1..Len(wq) : q[i] = wq[i]
      BY <1>1, <1>2, <3>2, <3>3, <3>4 DEF q, RefAt, Tensors
    <3>6. Append(wq, QEntry(ScalesRef, cfg)) = q
      BY <3>3, <3>5, AppendIs
    <3>7. QED
      BY <2>1, <3>1, <3>6 DEF WriterAdd
  <2>2. CASE cfg.nscales = 0
    BY <1>2, <2>2 DEF FileLen, RefAt, Tensors
  <2>3. QED
    BY <2>1, <2>2
<1>4. WqExact'
  BY <1>1, <1>3 DEF WqExact
<1>5. FileDir' /\ HitState'
  BY DEF HRest, FileDir, HitState
<1>6. QED
  BY <1>4, <1>5 DEF HRest

(* WriteAll makes the queue the file's header, whichever writes failed.    *)
LEMMA CompressorWriteAllHRest ==
    ASSUME IInv, HRest, CompressorWriteAll
    PROVE  HRest'
<1> USE DEF CompressorWriteAll
<1>1. cfg \in Configs /\ next = 1
  BY DEF IInv, TypeOK, HRest, WqExact
<1>2. wq = [i \in 1..FileLen(cfg) |-> QEntry(RefAt(i), cfg)]
  BY DEF HRest, WqExact
<1>3. PICK h \in HdrOutcomes, written \in BodyOutcomes :
        file' = [hdr  |-> h,
                 dir  |-> [i \in DOMAIN wq |-> [key |-> wq[i].key, size |-> wq[i].size]],
                 body |-> [i \in DOMAIN wq |->
                             IF i \in written THEN mem[wq[i].ref] ELSE Hole]]
  BY DEF WriterWriteAll
<1>4. file'.dir = [i \in 1..FileLen(fileBy') |-> EntryOf(RefAt(i), fileBy')]
  BY <1>2, <1>3 DEF QEntry, EntryOf
<1>5. FileDir'
  BY <1>1, <1>4 DEF FileDir
<1>6. WqExact' /\ HitState'
  BY <1>1 DEF WqExact, HitState
<1>7. QED
  BY <1>5, <1>6 DEF HRest

LEMMA DotHRest ==
    ASSUME HRest, NEW t \in Tensors, Dot(t)
    PROVE  HRest'
BY DEF Dot, HRest, FileDir, WqExact, HitState

(* A restart empties the queue and starts over at Open.                    *)
LEMMA RestartHRest ==
    ASSUME HRest, NEW c \in Configs, Restart(c)
    PROVE  HRest'
BY DEF Restart, Fresh, HRest, FileDir, WqExact, HitState

LEMMA StutterHRest ==
    ASSUME HRest, UNCHANGED vars
    PROVE  HRest'
BY DEF vars, HRest, FileDir, WqExact, HitState

-----------------------------------------------------------------------------
(* IInv /\ HRest is inductive for models with scales.                      *)
LEMMA NextHRest ==
    ASSUME 0 \notin ScalesLens
    PROVE  IInv /\ HRest /\ [Next]_vars => HRest'
<1> SUFFICES ASSUME IInv, HRest, [Next]_vars PROVE HRest'
  OBVIOUS
<1>1. CASE LoaderOpen          BY <1>1, LoaderOpenHRest
<1>2. CASE LoaderVisit         BY <1>2, LoaderVisitHRest
<1>3. CASE LoaderLoadScales    BY <1>3, LoaderLoadScalesHRest
<1>4. CASE LoaderReadAll       BY <1>4, LoaderReadAllHRest
<1>5. CASE CompressorVisit     BY <1>5, CompressorVisitHRest
<1>6. CASE CompressorAddScales BY <1>6, CompressorAddScalesHRest
<1>7. CASE CompressorWriteAll  BY <1>7, CompressorWriteAllHRest
<1>8. CASE \E t \in Tensors : Dot(t)     BY <1>8, DotHRest
<1>9. CASE \E c \in Configs : Restart(c) BY <1>9, RestartHRest
<1>10. CASE UNCHANGED vars     BY <1>10, StutterHRest
<1>11. QED
  BY <1>1, <1>2, <1>3, <1>4, <1>5, <1>6, <1>7, <1>8, <1>9, <1>10 DEF Next, Process

(* For every model that has a scales array, in every reachable state, when *)
(* CacheLoader::ReadAll is about to run on a cache file that a process of  *)
(* the same weight type, capacity and scales length wrote completely,      *)
(* CacheLoader::Open and every Enqueue have succeeded: err_ is 0 and the   *)
(* reader's batch is not poisoned, whatever earlier files of other         *)
(* configurations, torn writes, failed reads and restarts came before      *)
(* (checked as CacheHitAfterCleanWrite by the runs weight_cache and        *)
(* cache_hit; the run no_scales shows the case without scales).            *)
THEOREM CleanWriteHits ==
    ASSUME 0 \notin ScalesLens
    PROVE  Spec => []CacheHitAfterCleanWrite
<1>1. Init => IInv /\ HRest
  BY InitIInv, InitHRest
<1>2. IInv /\ HRest /\ [Next]_vars => (IInv /\ HRest)'
  BY NextIInv, NextHRest
<1>3. IInv /\ HRest => CacheHitAfterCleanWrite
  BY DEF HRest, HitState, CacheHitAfterCleanWrite
<1>4. QED
  BY <1>1, <1>2, <1>3, PTL DEF Spec

(* The same for the whole inductive invariant HInv (checked by the run     *)
(* cache_hit).                                                             *)
THEOREM HitInvariant ==
    ASSUME 0 \notin ScalesLens
    PROVE  Spec => []HInv
<1>1. Init => IInv /\ HRest
  BY InitIInv, InitHRest
<1>2. IInv /\ HRest /\ [Next]_vars => (IInv /\ HRest)'
  BY NextIInv, NextHRest
<1>3. QED
  BY <1>1, <1>2, PTL DEF Spec, HInv, HRest
=============================================================================
