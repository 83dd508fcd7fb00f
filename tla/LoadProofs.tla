---------------------------- MODULE LoadProofs ----------------------------
(***************************************************************************)
(* Proof that, when the writes of the cache file do not fail, the weights  *)
(* the caller computes with are always those of its own configuration      *)
(* (LoadedMatchesSource), whatever mix of configurations wrote the file.   *)
(*                                                                         *)
(* The argument: every blob of the file is a buffer of the configuration   *)
(* fileBy that wrote it, stored under that buffer's key and size           *)
(* (FileGood).  A request the loader makes for buffer r names r's key      *)
(* under this process's configuration cfg and succeeds only when the       *)
(* header holds that key with r's size under cfg (ReqsGood).  Since a key  *)
(* and a size determine the buffer, its type and its capacity              *)
(* (EntryDetermines), the blob read is Content(r, cfg).                    *)
(***************************************************************************)
EXTENDS WeightCacheProofs

USE NumTensorsAssumption, TypesAssumption, CapsAssumption,
    ScalesLensAssumption, RestartsAssumption, RefsAssumption,
    FaultsAssumption, KeysAssumption, DataAssumption, NuqCapsAssumption

\* The part of LInv beyond IInv.
Rest == FileGood /\ WqGood /\ ReqsGood /\ Progress /\ LoadedMatchesSource

-----------------------------------------------------------------------------
(* The one-character prefix of CacheKey tells the weight types apart.      *)
LEMMA PrefixInjective ==
    ASSUME NEW a \in Types, NEW b \in Types, Prefix(a) = Prefix(b)
    PROVE  a = b
BY DEF Prefix

(* For a fixed weight type, the compressed size tells the capacities       *)
(* apart; for NUQ only because capacities are whole groups.                *)
LEMMA SizeInjective ==
    ASSUME NEW ty \in Types, NEW a \in Caps, NEW b \in Caps,
           CompressedSize(ty, a) = CompressedSize(ty, b)
    PROVE  a = b
<1>1. CASE ty = "nuq"
  <2>1. a % 256 = 0 /\ b % 256 = 0 /\ a \in Nat /\ b \in Nat
    BY <1>1
  <2>2. (a + 255) \div 256 = a \div 256 /\ (b + 255) \div 256 = b \div 256
    BY <2>1
  <2>3. (a \div 256) * 160 = (b \div 256) * 160
    BY <1>1, <2>2 DEF CompressedSize, CompressedArrayLen, NuqPackedEnd, SizeofMatT
  <2>4. QED
    BY <2>1, <2>3
<1>2. CASE ty # "nuq"
  BY <1>2 DEF CompressedSize, CompressedArrayLen, SizeofMatT
<1>3. QED
  BY <1>1, <1>2

(* A blob's key and size name the buffer, and its contents under the two   *)
(* configurations agree: the loader cannot take another configuration's    *)
(* blob for its own.                                                       *)
LEMMA EntryDetermines ==
    ASSUME NEW r \in Refs, NEW s \in Refs, NEW c \in Configs, NEW d \in Configs,
           EntryOf(r, c) = EntryOf(s, d)
    PROVE  r = s /\ Content(r, c) = Content(s, d)
<1>1. KeyOf(r, c) = KeyOf(s, d) /\ SizeOf(r, c) = SizeOf(s, d)
  BY DEF EntryOf
<1>2. r = s
  BY <1>1 DEF KeyOf, ScalesKey, CacheKey
<1>3. CASE r = ScalesRef
  <2>1. c.nscales * 4 = d.nscales * 4 /\ c.nscales \in Nat /\ d.nscales \in Nat
    BY <1>1, <1>2, <1>3 DEF SizeOf, ScalesSize, Configs
  <2>2. c.nscales = d.nscales
    BY <2>1
  <2>3. QED
    BY <1>2, <1>3, <2>2 DEF Content
<1>4. CASE r # ScalesRef
  <2>1. Prefix(c.type) = Prefix(d.type)
    BY <1>1, <1>2, <1>4 DEF KeyOf, CacheKey
  <2>2. c.type = d.type
    BY <2>1, PrefixInjective DEF Configs
  <2>3. CompressedSize(c.type, c.cap) = CompressedSize(c.type, d.cap)
    BY <1>1, <1>2, <1>4, <2>2 DEF SizeOf
  <2>4. c.cap = d.cap
    BY <2>3, SizeInjective DEF Configs
  <2>5. QED
    BY <1>2, <1>4, <2>2, <2>4 DEF Content
<1>5. QED
  BY <1>2, <1>3, <1>4

-----------------------------------------------------------------------------
(* The initial state: no file, nothing queued, nothing requested.          *)
LEMMA InitRest == Init => Rest
<1> SUFFICES ASSUME Init PROVE Rest
  OBVIOUS
<1>1. FileGood /\ WqGood
  BY DEF Init, FileGood, WqGood
<1>2. ReqsGood
  BY DEF Init, ReqsGood, ReaderEmpty, UniqueKeys
<1>3. Progress /\ LoadedMatchesSource
  BY DEF Init, Progress, LoadedMatchesSource
<1>4. QED
  BY <1>1, <1>2, <1>3 DEF Rest

(* An action that leaves the file, the queue, memory, the reader and the   *)
(* configuration alone keeps FileGood, and WqGood unless it leaves the     *)
(* writing phases.                                                          *)
LEMMA FileGoodFrame ==
    ASSUME FileGood, UNCHANGED <<file, fileBy>>
    PROVE  FileGood'
BY DEF FileGood

LEMMA LoaderOpenRest ==
    ASSUME IInv, Rest, LoaderOpen
    PROVE  Rest'
<1> USE DEF LoaderOpen
<1>1. FileGood'
  BY FileGoodFrame DEF Rest
<1>2. WqGood'
  BY DEF Rest, WqGood
<1>3. UniqueKeys(rd'.dir) /\ rd'.reqs = {}
  BY DEF ReaderOpen, OpenOK, ReaderEmpty, UniqueKeys
<1>4. ReqsGood'
  BY <1>3 DEF ReqsGood
<1>5. Progress' /\ LoadedMatchesSource'
  BY DEF Rest, Progress, LoadedMatchesSource
<1>6. QED
  BY <1>1, <1>2, <1>4, <1>5 DEF Rest

LEMMA LoaderVisitRest ==
    ASSUME IInv, Rest, LoaderVisit
    PROVE  Rest'
<1> USE DEF LoaderVisit
<1>1. FileGood'
  BY FileGoodFrame DEF Rest
<1>2. WqGood'
  BY DEF Rest, WqGood
<1>3. next \in Tensors /\ cfg \in Configs /\ rd \in Reader
  BY DEF IInv, TypeOK, StoreTypeOK
<1>4. LoadedMatchesSource'
  BY DEF LoadedMatchesSource
<1>5. CASE err # 0
  <2>1. UNCHANGED <<rd, err>> /\ err' # 0
    BY <1>5
  <2>2. ReqsGood'
    BY <2>1 DEF Rest, ReqsGood, KeyOf, EntryOf, SizeOf
  <2>3. Progress'
    BY <2>1 DEF Rest, Progress
  <2>4. QED
    BY <1>1, <1>2, <1>4, <2>2, <2>3 DEF Rest
<1>6. CASE err = 0
  <2> DEFINE k == CacheKey(cfg.type, next)
             sz == CompressedSize(cfg.type, cfg.cap)
  <2>1. next # ScalesRef /\ next \in Refs
    BY <1>3 DEF Tensors
  <2>2. k = KeyOf(next, cfg) /\ [key |-> k, size |-> sz] = EntryOf(next, cfg)
    BY <2>1 DEF KeyOf, SizeOf, EntryOf
  <2>3. ReaderEnqueue(k, next, sz) /\ err' = EnqueueErr(k, sz)
    BY <1>6
  <2>4. CASE EnqueueErr(k, sz) = 0
    <3>1. rd' = [rd EXCEPT !.reqs = @ \cup {[key |-> k, ref |-> next]}]
      BY <2>3, <2>4 DEF ReaderEnqueue
    <3>2. \E i \in DOMAIN rd.dir : rd.dir[i] = EntryOf(next, cfg)
      BY <2>2, <2>4 DEF EnqueueErr
    <3>3. rd'.dir = rd.dir /\ rd'.reqs = rd.reqs \cup {[key |-> k, ref |-> next]}
      BY <1>3, <3>1 DEF Reader
    <3>4. ReqsGood'
      BY <2>2, <3>2, <3>3 DEF Rest, ReqsGood
    <3>5. \A t \in 1..next : Requested(t)'
      <4>1. \A t \in 1..(next - 1) : Requested(t)
        BY <1>6 DEF Rest, Progress
      <4>2. \E q \in rd'.reqs : q.ref = next
        <5>1. [key |-> k, ref |-> next] \in rd'.reqs
          BY <3>3
        <5>2. QED
          BY <5>1
      <4>3. \A t \in 1..(next - 1) : Requested(t)'
        BY <3>3, <4>1 DEF Requested
      <4>4. QED
        BY <1>3, <4>2, <4>3 DEF Tensors, Requested
    <3>6. Progress'
      BY <1>3, <2>3, <2>4, <3>5 DEF Progress, Tensors
    <3>7. QED
      BY <1>1, <1>2, <1>4, <3>4, <3>6 DEF Rest
  <2>5. CASE EnqueueErr(k, sz) # 0
    <3>1. rd' = [rd EXCEPT !.poisoned = TRUE] /\ err' # 0
      BY <2>3, <2>5 DEF ReaderEnqueue
    <3>2. rd'.dir = rd.dir /\ rd'.reqs = rd.reqs
      BY <1>3, <3>1 DEF Reader
    <3>3. ReqsGood'
      BY <3>2 DEF Rest, ReqsGood, KeyOf, EntryOf, SizeOf
    <3>4. Progress'
      BY <3>1 DEF Rest, Progress
    <3>5. QED
      BY <1>1, <1>2, <1>4, <3>3, <3>4 DEF Rest
  <2>6. QED
    BY <2>4, <2>5
<1>7. QED
  BY <1>5, <1>6

LEMMA LoaderLoadScalesRest ==
    ASSUME IInv, Rest, LoaderLoadScales
    PROVE  Rest'
<1> USE DEF LoaderLoadScales
<1> DEFINE sz == ScalesSize(cfg.nscales)
<1>1. FileGood'
  BY FileGoodFrame DEF Rest
<1>2. WqGood'
  BY DEF Rest, WqGood
<1>3. cfg \in Configs /\ rd \in Reader
  BY DEF IInv, TypeOK, StoreTypeOK
<1>4. LoadedMatchesSource'
  BY DEF LoadedMatchesSource
<1>5. ScalesKey = KeyOf(ScalesRef, cfg)
      /\ [key |-> ScalesKey, size |-> sz] = EntryOf(ScalesRef, cfg)
  BY DEF KeyOf, SizeOf, EntryOf
<1>6. CASE EnqueueErr(ScalesKey, sz) = 0
  <2>1. rd' = [rd EXCEPT !.reqs = @ \cup {[key |-> ScalesKey, ref |-> ScalesRef]}]
    BY <1>6 DEF ReaderEnqueue
  <2>2. \E i \in DOMAIN rd.dir : rd.dir[i] = EntryOf(ScalesRef, cfg)
    BY <1>5, <1>6 DEF EnqueueErr
  <2>3. /\ rd'.dir = rd.dir /\ rd'.poisoned = rd.poisoned
        /\ rd'.reqs = rd.reqs \cup {[key |-> ScalesKey, ref |-> ScalesRef]}
    BY <1>3, <2>1 DEF Reader
  <2>4. ReqsGood'
    BY <1>5, <2>2, <2>3 DEF Rest, ReqsGood
  <2>5. Progress'
    <3>1. phase = "scales" /\ phase' = "read" /\ next' = next /\ next = 1
      BY DEF Rest, Progress
    <3>2. err = 0 => \A t \in Tensors : Requested(t)
      BY <3>1 DEF Rest, Progress
    <3>3. ASSUME err' = 0, NEW t \in Tensors
          PROVE  Requested(t)'
      <4>1. err = 0
        BY <3>3
      <4>2. Requested(t)
        BY <3>2, <4>1
      <4>3. QED
        BY <2>3, <4>2 DEF Requested
    <3>4. Requested(ScalesRef)'
      <4>1. [key |-> ScalesKey, ref |-> ScalesRef] \in rd'.reqs
        BY <2>3
      <4>2. QED
        BY <4>1 DEF Requested
    <3>5. QED
      BY <3>1, <3>3, <3>4 DEF Progress, Requested
  <2>6. QED
    BY <1>1, <1>2, <1>4, <2>4, <2>5 DEF Rest
<1>7. CASE EnqueueErr(ScalesKey, sz) # 0
  <2>1. rd' = [rd EXCEPT !.poisoned = TRUE]
    BY <1>7 DEF ReaderEnqueue, EnqueueErr
  <2>2. rd'.dir = rd.dir /\ rd'.reqs = rd.reqs /\ rd'.poisoned
    BY <1>3, <2>1 DEF Reader
  <2>3. ReqsGood'
    BY <2>2 DEF Rest, ReqsGood, KeyOf, EntryOf, SizeOf
  <2>4. Progress'
    BY <2>2 DEF Rest, Progress, Requested
  <2>5. QED
    BY <1>1, <1>2, <1>4, <2>3, <2>4 DEF Rest
<1>8. QED
  BY <1>6, <1>7

(* Before the caller is ready, a request's blob, read through BodyOf, is   *)
(* the requested buffer's contents under this process's configuration.    *)
LEMMA ReadBody ==
    ASSUME IInv, Rest, phase # "ready", NEW q \in rd.reqs
    PROVE  BodyOf(q.key) = Content(q.ref, cfg)
<1>1. q.ref \in Refs /\ cfg \in Configs
  BY DEF IInv, TypeOK, StoreTypeOK, Reader, Request
<1>2. q.key = KeyOf(q.ref, cfg)
  BY DEF Rest, ReqsGood
<1>3. PICK i \in DOMAIN rd.dir : rd.dir[i] = EntryOf(q.ref, cfg)
  BY DEF Rest, ReqsGood
<1>4. file # NoFile /\ rd.dir = file.dir
  BY <1>3 DEF IInv, ReaderFromFile
<1>5. rd.dir[i].key = q.key
  BY <1>2, <1>3 DEF EntryOf
<1> DEFINE j == CHOOSE k \in DOMAIN file.dir : file.dir[k].key = q.key
<1>6. j \in DOMAIN file.dir /\ file.dir[j].key = q.key
  BY <1>4, <1>5
<1>7. j = i
  BY <1>4, <1>5, <1>6 DEF Rest, ReqsGood, UniqueKeys
<1>8. fileBy \in Configs
  BY <1>4 DEF Rest, FileGood
<1>9. PICK s \in Refs : /\ file.dir[j] = EntryOf(s, fileBy)
                       /\ file.body[j] = Content(s, fileBy)
  BY <1>4, <1>6 DEF Rest, FileGood
<1>10. EntryOf(s, fileBy) = EntryOf(q.ref, cfg)
  BY <1>3, <1>4, <1>7, <1>9
<1>11. Content(s, fileBy) = Content(q.ref, cfg)
  BY <1>1, <1>8, <1>10, EntryDetermines
<1>12. QED
  BY <1>9, <1>11 DEF BodyOf

LEMMA LoaderReadAllRest ==
    ASSUME IInv, Rest, LoaderReadAll
    PROVE  Rest'
<1> USE DEF LoaderReadAll
<1>1. phase = "read" /\ next = 1 /\ wq = << >>
  BY DEF Rest, Progress, WqGood
<1>2. FileGood'
  BY FileGoodFrame DEF Rest
<1>3. WqGood'
  BY <1>1 DEF WqGood
<1>4. ReqsGood'
  BY DEF Rest, ReqsGood, KeyOf, SizeOf, EntryOf
<1>5. CASE phase' = "compress"
  <2>1. Progress' /\ LoadedMatchesSource'
    BY <1>1, <1>5 DEF Progress, LoadedMatchesSource
  <2>2. QED
    BY <1>2, <1>3, <1>4, <2>1 DEF Rest
<1>6. CASE phase' = "ready"
  <2>1. err = 0
    BY <1>6
  <2>2. PICK e \in {0, 1} : ReaderReadAll(e) /\ err' = e /\ e = 0
    BY <1>6, <2>1
  <2>3. ~rd.poisoned
    BY <2>2 DEF ReaderReadAll
  <2>4. PICK done \in ReadOutcomes :
          /\ e = IF done = rd.reqs THEN 0 ELSE 1
          /\ mem' = [r \in Refs |->
                       IF \E q \in done : q.ref = r
                         THEN BodyOf((CHOOSE q \in done : q.ref = r).key)
                         ELSE mem[r]]
    BY <2>2, <2>3 DEF ReaderReadAll
  <2>5. done = rd.reqs
    BY <2>2, <2>4
  <2>6. \A r \in Refs : Requested(r)
    BY <1>1, <2>1, <2>3 DEF Rest, Progress
  <2>7. ASSUME NEW r \in Refs PROVE mem'[r] = Content(r, cfg)
    <3>1. \E q \in rd.reqs : q.ref = r
      BY <2>6 DEF Requested
    <3> DEFINE q0 == CHOOSE q \in rd.reqs : q.ref = r
    <3>2. q0 \in rd.reqs /\ q0.ref = r
      BY <3>1
    <3>3. mem'[r] = BodyOf(q0.key)
      BY <2>4, <2>5, <3>1
    <3>4. BodyOf(q0.key) = Content(r, cfg)
      BY <1>1, <3>2, ReadBody
    <3>5. QED
      BY <3>3, <3>4
  <2>8. LoadedMatchesSource'
    BY <2>7 DEF LoadedMatchesSource
  <2>9. Progress'
    BY <1>1, <1>6 DEF Progress
  <2>10. QED
    BY <1>2, <1>3, <1>4, <2>8, <2>9 DEF Rest
<1>7. QED
  <2>1. phase' \in {"compress", "ready"}
    OBVIOUS
  <2>2. QED
    BY <1>5, <1>6, <2>1

(* Queueing buffer r with its key and size, after compressing it, keeps    *)
(* every queued buffer compressed.                                         *)
LEMMA QueueGood ==
    ASSUME IInv, Rest, NEW r \in Refs,
           phase \in {"compress", "addscales"},
           mem' = [mem EXCEPT ![r] = Content(r, cfg)],
           wq' = Append(wq, [key |-> KeyOf(r, cfg), ref |-> r, size |-> SizeOf(r, cfg)])
              \/ wq' = wq,
           cfg' = cfg
    PROVE  \A i \in DOMAIN wq' :
              /\ wq'[i].key = KeyOf(wq'[i].ref, cfg')
              /\ wq'[i].size = SizeOf(wq'[i].ref, cfg')
              /\ mem'[wq'[i].ref] = Content(wq'[i].ref, cfg')
<1>1. wq \in Seq(Queued) /\ mem \in [Refs -> Data \cup {Hole}]
  BY DEF IInv, TypeOK, StoreTypeOK
<1>2. \A i \in DOMAIN wq : wq[i].ref \in Refs
  <2>1. DOMAIN wq = 1..Len(wq)
    BY <1>1, LenProperties
  <2>2. \A i \in 1..Len(wq) : wq[i] \in Queued
    BY <1>1, ElementOfSeq
  <2>3. QED
    BY <2>1, <2>2 DEF Queued
<1>3. \A i \in DOMAIN wq : mem'[wq[i].ref] = Content(wq[i].ref, cfg)
  BY <1>1, <1>2 DEF Rest, WqGood
<1>4. mem'[r] = Content(r, cfg)
  BY <1>1
<1>5. CASE wq' = wq
  BY <1>3, <1>5 DEF Rest, WqGood
<1>6. CASE wq' = Append(wq, [key |-> KeyOf(r, cfg), ref |-> r, size |-> SizeOf(r, cfg)])
  <2>1. DOMAIN wq' = 1..(Len(wq) + 1) /\ wq'[Len(wq) + 1].ref = r
        /\ \A i \in 1..Len(wq) : wq'[i] = wq[i]
    BY <1>1, <1>6, AppendProperties
  <2>2. DOMAIN wq = 1..Len(wq) /\ Len(wq) \in Nat
    BY <1>1, LenProperties
  <2>3. wq'[Len(wq) + 1] = [key |-> KeyOf(r, cfg), ref |-> r, size |-> SizeOf(r, cfg)]
    BY <1>1, <1>6, AppendProperties
  <2>4. QED
    BY <1>3, <1>4, <2>1, <2>2, <2>3 DEF Rest, WqGood
<1>7. QED
  BY <1>5, <1>6

LEMMA CompressorVisitRest ==
    ASSUME IInv, Rest, CompressorVisit
    PROVE  Rest'
<1> USE DEF CompressorVisit
<1>1. next \in Tensors /\ next \in Refs /\ next # ScalesRef
  BY DEF IInv, TypeOK, Tensors
<1>2. FileGood'
  BY FileGoodFrame DEF Rest
<1>3. WqGood'
  <2>1. wq' = Append(wq, [key |-> KeyOf(next, cfg), ref |-> next,
                          size |-> SizeOf(next, cfg)])
    BY <1>1 DEF WriterAdd, KeyOf, SizeOf
  <2>2. QED
    BY <1>1, <2>1, QueueGood DEF WqGood
<1>4. ReqsGood'
  BY DEF Rest, ReqsGood, KeyOf, SizeOf, EntryOf
<1>5. mem \in [Refs -> Data \cup {Hole}]
  BY DEF IInv, TypeOK, StoreTypeOK
<1>6. \A t \in 1..next : mem'[t] = Content(t, cfg)
  BY <1>1, <1>5 DEF Rest, Progress, Tensors
<1>7. Progress'
  BY <1>1, <1>6 DEF Progress, Tensors
<1>8. LoadedMatchesSource'
  BY DEF LoadedMatchesSource
<1>9. QED
  BY <1>2, <1>3, <1>4, <1>7, <1>8 DEF Rest

LEMMA CompressorAddScalesRest ==
    ASSUME IInv, Rest, CompressorAddScales
    PROVE  Rest'
<1> USE DEF CompressorAddScales
<1>1. FileGood'
  BY FileGoodFrame DEF Rest
<1>2. WqGood'
  <2>1. wq' = Append(wq, [key |-> KeyOf(ScalesRef, cfg), ref |-> ScalesRef,
                          size |-> SizeOf(ScalesRef, cfg)])
        \/ wq' = wq
    BY DEF WriterAdd, KeyOf, SizeOf
  <2>2. QED
    BY <2>1, QueueGood DEF WqGood
<1>3. ReqsGood'
  BY DEF Rest, ReqsGood, KeyOf, SizeOf, EntryOf
<1>4. mem \in [Refs -> Data \cup {Hole}]
  BY DEF IInv, TypeOK, StoreTypeOK
<1>5. \A t \in Tensors : mem'[t] = Content(t, cfg)
  BY <1>4 DEF Rest, Progress
<1>6. mem'[ScalesRef] = Content(ScalesRef, cfg)
  BY <1>4
<1>7. Progress'
  BY <1>5, <1>6 DEF Rest, Progress
<1>8. LoadedMatchesSource'
  BY DEF LoadedMatchesSource
<1>9. QED
  BY <1>1, <1>2, <1>3, <1>7, <1>8 DEF Rest

(* WriteAll without write faults: the new file holds every queued buffer   *)
(* under its key and size, and the caller is ready with what it compressed.*)
LEMMA CompressorWriteAllRest ==
    ASSUME IInv, Rest, CompressorWriteAll, ~WriteFaults
    PROVE  Rest'
<1> USE DEF CompressorWriteAll
<1>1. phase = "write" /\ next = 1 /\ cfg \in Configs
  BY DEF Rest, Progress, IInv, TypeOK
<1>2. file' = [hdr  |-> TRUE,
               dir  |-> [i \in DOMAIN wq |-> [key |-> wq[i].key, size |-> wq[i].size]],
               body |-> [i \in DOMAIN wq |-> mem[wq[i].ref]]]
  BY DEF WriterWriteAll, HdrOutcomes, BodyOutcomes
<1>3. \A i \in DOMAIN wq : wq[i].ref \in Refs
  <2>1. wq \in Seq(Queued)
    BY DEF IInv, TypeOK, StoreTypeOK
  <2>2. DOMAIN wq = 1..Len(wq)
    BY <2>1, LenProperties
  <2>3. \A i \in 1..Len(wq) : wq[i] \in Queued
    BY <2>1, ElementOfSeq
  <2>4. QED
    BY <2>2, <2>3 DEF Queued
<1>4. ASSUME NEW i \in DOMAIN file'.dir
      PROVE  \E r \in Refs : /\ file'.dir[i] = EntryOf(r, fileBy')
                             /\ file'.body[i] = Content(r, fileBy')
  <2>1. i \in DOMAIN wq
    BY <1>2
  <2>2. /\ wq[i].key = KeyOf(wq[i].ref, cfg)
        /\ wq[i].size = SizeOf(wq[i].ref, cfg)
        /\ mem[wq[i].ref] = Content(wq[i].ref, cfg)
    BY <2>1 DEF Rest, WqGood
  <2>3. file'.dir[i] = EntryOf(wq[i].ref, cfg) /\ file'.body[i] = Content(wq[i].ref, cfg)
    BY <1>2, <2>1, <2>2 DEF EntryOf
  <2>4. QED
    BY <1>3, <2>1, <2>3
<1>5. FileGood'
  BY <1>1, <1>2, <1>4 DEF FileGood
<1>6. WqGood' /\ ReqsGood'
  BY DEF Rest, WqGood, ReqsGood, KeyOf, SizeOf, EntryOf
<1>7. Progress'
  BY <1>1 DEF Progress
<1>8. LoadedMatchesSource'
  BY <1>1 DEF Rest, Progress, LoadedMatchesSource
<1>9. QED
  BY <1>5, <1>6, <1>7, <1>8 DEF Rest

LEMMA DotRest ==
    ASSUME Rest, NEW t \in Tensors, Dot(t)
    PROVE  Rest'
BY DEF Dot, Rest, FileGood, WqGood, ReqsGood, Progress, LoadedMatchesSource,
       Requested, KeyOf, SizeOf, EntryOf

LEMMA RestartRest ==
    ASSUME Rest, NEW c \in Configs, Restart(c)
    PROVE  Rest'
<1> USE DEF Restart, Fresh
<1>1. FileGood'
  BY FileGoodFrame DEF Rest
<1>2. WqGood' /\ ReqsGood'
  BY DEF WqGood, ReqsGood, ReaderEmpty, UniqueKeys
<1>3. Progress' /\ LoadedMatchesSource'
  BY DEF Progress, LoadedMatchesSource
<1>4. QED
  BY <1>1, <1>2, <1>3 DEF Rest

LEMMA StutterRest ==
    ASSUME Rest, UNCHANGED vars
    PROVE  Rest'
BY DEF vars, Rest, FileGood, WqGood, ReqsGood, Progress, LoadedMatchesSource,
       Requested, KeyOf, SizeOf, EntryOf

-----------------------------------------------------------------------------
(* IInv /\ Rest is inductive when writes do not fail.                      *)
LEMMA NextRest ==
    ASSUME ~WriteFaults
    PROVE  IInv /\ Rest /\ [Next]_vars => Rest'
<1> SUFFICES ASSUME IInv, Rest, [Next]_vars PROVE Rest'
  OBVIOUS
<1>1. CASE LoaderOpen          BY <1>1, LoaderOpenRest
<1>2. CASE LoaderVisit         BY <1>2, LoaderVisitRest
<1>3. CASE LoaderLoadScales    BY <1>3, LoaderLoadScalesRest
<1>4. CASE LoaderReadAll       BY <1>4, LoaderReadAllRest
<1>5. CASE CompressorVisit     BY <1>5, CompressorVisitRest
<1>6. CASE CompressorAddScales BY <1>6, CompressorAddScalesRest
<1>7. CASE CompressorWriteAll  BY <1>7, CompressorWriteAllRest
<1>8. CASE \E t \in Tensors : Dot(t)     BY <1>8, DotRest
<1>9. CASE \E c \in Configs : Restart(c) BY <1>9, RestartRest
<1>10. CASE UNCHANGED vars     BY <1>10, StutterRest
<1>11. QED
  BY <1>1, <1>2, <1>3, <1>4, <1>5, <1>6, <1>7, <1>8, <1>9, <1>10 DEF Next, Process

(* When the cache file's writes do not fail, the weights the caller        *)
(* computes with are, in every reachable state, exactly what compressing   *)
(* each tensor and the scales for the running configuration gives, however *)
(* many processes of other weight types and capacities wrote the file      *)
(* before: CacheKey's type prefix and BlobReader::Enqueue's size check keep *)
(* CacheLoader from loading them (checked as LoadedMatchesSource by the    *)
(* run weight_cache).                                                      *)
THEOREM LoadedCorrect ==
    ASSUME ~WriteFaults
    PROVE  Spec => []LoadedMatchesSource
<1>1. Init => IInv /\ Rest
  BY InitIInv, InitRest
<1>2. IInv /\ Rest /\ [Next]_vars => (IInv /\ Rest)'
  BY NextIInv, NextRest
<1>3. IInv /\ Rest => LoadedMatchesSource
  BY DEF Rest
<1>4. QED
  BY <1>1, <1>2, <1>3, PTL DEF Spec


(* The whole inductive invariant LInv holds in every reachable state when   *)
(* writes do not fail (checked by the run cache_refinement on all four    *)
(* weight types): the file holds only its writer's blobs, queue and        *)
(* requests are this configuration's, and the load sequence made the     *)
(* progress its phase says.                                                *)
THEOREM LoadInvariant ==
    ASSUME ~WriteFaults
    PROVE  Spec => []LInv
<1>1. Init => IInv /\ Rest
  BY InitIInv, InitRest
<1>2. IInv /\ Rest /\ [Next]_vars => (IInv /\ Rest)'
  BY NextIInv, NextRest
<1>3. IInv /\ Rest => LInv
  BY DEF Rest, LInv
<1>4. QED
  BY <1>1, <1>2, <1>3, PTL DEF Spec

-----------------------------------------------------------------------------
(* Refinement of CachedWeights, safety part.                               *)

\* Only Dot and Restart are enabled once the caller is ready.
LEMMA ReadyOnlyDot ==
    ASSUME phase = "ready", Process
    PROVE  FALSE
BY DEF Process, LoaderOpen, LoaderVisit, LoaderLoadScales, LoaderReadAll,
       CompressorVisit, CompressorAddScales, CompressorWriteAll

\* A step of the load sequence, Dot or a stutter keeps the configuration.
LEMMA KeepsConfig ==
    ASSUME Process \/ (\E t \in Tensors : Dot(t)) \/ UNCHANGED vars
    PROVE  cfg' = cfg
BY DEF Process, LoaderOpen, LoaderVisit, LoaderLoadScales, LoaderReadAll,
       CompressorVisit, CompressorAddScales, CompressorWriteAll, Dot, vars

(* Every step of WeightCache is a step of CachedWeights under the mapping, *)
(* given the invariant before and after it.                                *)
LEMMA StepRefines ==
    ASSUME IInv, Rest, [Next]_vars, IInv', Rest'
    PROVE  [Abstract!Next]_Abstract!vars
<1>1. CASE \E c \in Configs : Restart(c)
  <2>1. PICK c \in Configs : Restart(c)
    BY <1>1
  <2>2. cfg' = c /\ phase' = "open"
    BY <2>1 DEF Restart, Fresh
  <2>3. Abstract!Restart(c)
    BY <2>2 DEF Abstract!Restart
  <2>4. QED
    BY <2>3 DEF Abstract!Next
<1>2. CASE Process \/ (\E t \in Tensors : Dot(t)) \/ UNCHANGED vars
  <2>1. cfg' = cfg
    BY <1>2, KeepsConfig
  <2>2. CASE phase # "ready" /\ phase' = "ready"
    <3>1. mem' \in [Refs -> Data \cup {Hole}]
      BY DEF IInv, TypeOK, StoreTypeOK
    <3>2. \A r \in Refs : mem'[r] = Content(r, cfg)
      BY <2>1, <2>2 DEF Rest, LoadedMatchesSource
    <3>3. mem' = [r \in Refs |-> Content(r, cfg)]
      BY <3>1, <3>2
    <3>4. Abstract!Load
      BY <2>1, <2>2, <3>3 DEF Abstract!Load
    <3>5. QED
      BY <3>4 DEF Abstract!Next
  <2>3. CASE phase = "ready"
    <3>1. ~Process
      BY <2>3, ReadyOnlyDot
    <3>2. phase' = "ready" /\ mem' = mem
      BY <1>2, <2>3, <3>1 DEF Dot, vars
    <3>3. QED
      BY <2>1, <2>3, <3>2 DEF Abstract!vars
  <2>4. CASE phase # "ready" /\ phase' # "ready"
    BY <2>1, <2>4 DEF Abstract!vars
  <2>5. QED
    BY <2>2, <2>3, <2>4
<1>3. QED
  BY <1>1, <1>2 DEF Next

(* When writes do not fail, the loader, the Compressor, Dot and restarts   *)
(* implement the abstract cache of CachedWeights under the mapping         *)
(* weights = mem once ready: every step that makes weights visible makes   *)
(* all of them the running configuration's at once (a ReadAll that        *)
(* succeeded, or WriteAll after regenerating), and no other step changes   *)
(* them except a restart.  The fairness part of ImplementsCachedWeights is *)
(* checked by the run cache_refinement.                                    *)
THEOREM RefinesCachedWeights ==
    ASSUME ~WriteFaults
    PROVE  Spec => Abstract!Init /\ [][Abstract!Next]_Abstract!vars
<1>1. Init => Abstract!Init
  BY DEF Init, Abstract!Init
<1>2. Init => IInv /\ Rest
  BY InitIInv, InitRest
<1>3. IInv /\ Rest /\ [Next]_vars => (IInv /\ Rest)'
  BY NextIInv, NextRest
<1>4. IInv /\ Rest /\ [Next]_vars /\ (IInv /\ Rest)' => [Abstract!Next]_Abstract!vars
  BY StepRefines
<1>5. QED
  BY <1>1, <1>2, <1>3, <1>4, PTL DEF Spec

=============================================================================
