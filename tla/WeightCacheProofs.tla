------------------------- MODULE WeightCacheProofs -------------------------
(***************************************************************************)
(* Proofs about WeightCache for every value of the constants.              *)
(***************************************************************************)
EXTENDS WeightCache, SequenceTheorems, TLAPS

USE NumTensorsAssumption, TypesAssumption, CapsAssumption,
    ScalesLensAssumption, RestartsAssumption, RefsAssumption,
    FaultsAssumption, KeysAssumption, DataAssumption

(* A function on 1..n is a sequence of length n.                          *)
LEMMA FunIsSeq ==
    ASSUME NEW S, NEW n \in Nat, NEW f \in [1..n -> S]
    PROVE  f \in Seq(S) /\ Len(f) = n
<1>1. f \in Seq(S)
  BY SeqDef
<1>2. DOMAIN f = 1..Len(f) /\ Len(f) \in Nat
  BY <1>1, LenProperties
<1>3. QED
  BY <1>1, <1>2

(* Appending an element of S to a sequence over S stays a sequence over S. *)
LEMMA AppendInSeq ==
    ASSUME NEW S, NEW s \in Seq(S), NEW e \in S
    PROVE  Append(s, e) \in Seq(S)
BY AppendProperties

(* The contents the caller writes into a buffer are data of the store.     *)
LEMMA ContentInData ==
    ASSUME NEW r \in Refs, NEW c \in Configs
    PROVE  Content(r, c) \in Data
BY DEF Contents

(* The keys and sizes the caller enqueues or queues are of the store's     *)
(* types.                                                                  *)
LEMMA KeyInKeys ==
    ASSUME NEW c \in Configs, NEW r \in Refs
    PROVE  /\ CacheKey(c.type, r) \in Keys
           /\ ScalesKey \in Keys
           /\ CompressedSize(c.type, c.cap) \in Nat
           /\ ScalesSize(c.nscales) \in Nat
BY DEF Configs, ScalesKey, CompressedSize, CompressedArrayLen, NuqPackedEnd,
       SizeofMatT, ScalesSize

-----------------------------------------------------------------------------
(* The initial state satisfies the inductive invariant.                   *)
LEMMA InitIInv == Init => IInv
<1> SUFFICES ASSUME Init PROVE IInv
  OBVIOUS
<1>1. StoreTypeOK
  <2>1. << >> \in Seq(Queued) /\ << >> \in Seq(Entry)
    BY EmptySeq
  <2>2. rd \in Reader
    BY <2>1 DEF Init, Reader, ReaderEmpty
  <2>3. mem \in [Refs -> Data \cup {Hole}]
    BY DEF Init
  <2>4. QED
    BY <2>1, <2>2, <2>3 DEF Init, StoreTypeOK
<1>2. TypeOK
  <2>1. scale \in [Tensors -> {0, 1}] /\ next \in Tensors
    BY DEF Init, Tensors
  <2>2. restarts \in 0..MaxRestarts /\ err \in {0, 1}
    BY DEF Init
  <2>3. fileBy \in Configs \cup {NoFile} /\ cfg \in Configs /\ phase \in Phases
    BY DEF Init, Phases
  <2>4. lastDot \in {NoDot} \cup [t : Tensors, val : Data \cup {Hole, Zero}]
    BY DEF Init
  <2>5. QED
    BY <1>1, <2>1, <2>2, <2>3, <2>4 DEF TypeOK
<1>3. ReaderFromFile /\ ReqsInHeader
  BY DEF Init, ReaderEmpty, ReaderFromFile, ReqsInHeader
<1>4. QED
  BY <1>2, <1>3 DEF IInv
-----------------------------------------------------------------------------
(* Every action preserves the inductive invariant.  Each lemma proves the  *)
(* parts of IInv the action can disturb.                                  *)

\* A key that the header of a well-formed file holds has a body.
LEMMA BodyInData ==
    ASSUME NEW k, file \in File, Len(file.body) = Len(file.dir),
           \E i \in DOMAIN file.dir : file.dir[i].key = k
    PROVE  BodyOf(k) \in Data \cup {Hole}
<1>1. PICK j \in DOMAIN file.dir : j = CHOOSE i \in DOMAIN file.dir : file.dir[i].key = k
  OBVIOUS
<1>2. file.dir \in Seq(Entry) /\ file.body \in Seq(Data \cup {Hole})
  BY DEF File
<1>3. j \in 1..Len(file.body)
  BY <1>1, <1>2, LenProperties
<1>4. QED
  BY <1>1, <1>2, <1>3, ElementOfSeq DEF BodyOf

LEMMA LoaderOpenIInv ==
    ASSUME IInv, LoaderOpen
    PROVE  IInv'
<1> USE DEF IInv, TypeOK, StoreTypeOK, LoaderOpen, ReaderOpen, OpenErr
<1>1. rd' \in Reader
  <2>1. CASE OpenOK(file)
    BY <2>1 DEF OpenOK, File, Reader
  <2>2. CASE ~OpenOK(file)
    BY <2>2, EmptySeq DEF ReaderEmpty, Reader
  <2>3. QED
    BY <2>1, <2>2
<1>2. ReaderFromFile'
  BY DEF ReaderFromFile, OpenOK, ReaderEmpty
<1>3. ReqsInHeader'
  BY DEF ReqsInHeader, ReaderEmpty
<1>4. QED
  BY <1>1, <1>2, <1>3 DEF Phases

LEMMA EnqueueReader ==
    ASSUME NEW k \in Keys, NEW r \in Refs, NEW sz \in Nat,
           rd \in Reader, ReqsInHeader, ReaderEnqueue(k, r, sz)
    PROVE  /\ rd' \in Reader
           /\ rd'.dir = rd.dir
           /\ ReqsInHeader'
           /\ EnqueueErr(k, sz) \in {0, 1}
<1>1. EnqueueErr(k, sz) \in {0, 1}
  BY DEF EnqueueErr
<1>2. CASE EnqueueErr(k, sz) = 0
  <2>1. \E i \in DOMAIN rd.dir : rd.dir[i] = [key |-> k, size |-> sz]
    BY <1>2 DEF EnqueueErr
  <2>2. rd' = [rd EXCEPT !.reqs = @ \cup {[key |-> k, ref |-> r]}]
    BY <1>2 DEF ReaderEnqueue
  <2>3. rd' \in Reader /\ rd'.dir = rd.dir
    BY <2>2 DEF Reader, Request
  <2>4. ReqsInHeader'
    BY <2>1, <2>2 DEF ReqsInHeader
  <2>5. QED
    BY <1>1, <2>3, <2>4
<1>3. CASE EnqueueErr(k, sz) = 1
  <2>1. rd' = [rd EXCEPT !.poisoned = TRUE]
    BY <1>3 DEF ReaderEnqueue
  <2>2. QED
    BY <1>1, <2>1 DEF Reader, ReqsInHeader
<1>4. QED
  BY <1>1, <1>2, <1>3

LEMMA LoaderVisitIInv ==
    ASSUME IInv, LoaderVisit
    PROVE  IInv'
<1> USE DEF IInv, TypeOK, StoreTypeOK, LoaderVisit
<1>1. CASE err # 0
  BY <1>1 DEF ReaderFromFile, ReqsInHeader, Phases, Tensors
<1>2. CASE err = 0
  <2> DEFINE k == CacheKey(cfg.type, next)
             sz == CompressedSize(cfg.type, cfg.cap)
  <2>1. k \in Keys /\ sz \in Nat /\ next \in Refs
    BY KeyInKeys DEF Tensors
  <2>2. /\ rd' \in Reader /\ rd'.dir = rd.dir /\ ReqsInHeader'
        /\ err' \in {0, 1}
    BY <1>2, <2>1, EnqueueReader
  <2>3. scale' \in [Tensors -> {0, 1}] /\ next' \in Tensors
    BY <1>2 DEF Tensors
  <2>4. ReaderFromFile'
    BY <1>2, <2>2 DEF ReaderFromFile
  <2>5. QED
    BY <2>2, <2>3, <2>4 DEF Phases
<1>3. QED
  BY <1>1, <1>2

LEMMA LoaderLoadScalesIInv ==
    ASSUME IInv, LoaderLoadScales
    PROVE  IInv'
<1> USE DEF IInv, TypeOK, StoreTypeOK, LoaderLoadScales
<1> DEFINE sz == ScalesSize(cfg.nscales)
<1>1. ScalesKey \in Keys /\ sz \in Nat /\ ScalesRef \in Refs
  BY KeyInKeys
<1>2. /\ rd' \in Reader /\ rd'.dir = rd.dir /\ ReqsInHeader'
  BY <1>1, EnqueueReader
<1>3. mem' \in [Refs -> Data \cup {Hole}]
  OBVIOUS
<1>4. ReaderFromFile'
  BY <1>2 DEF ReaderFromFile
<1>5. QED
  BY <1>2, <1>3, <1>4 DEF Phases

LEMMA LoaderReadAllIInv ==
    ASSUME IInv, LoaderReadAll
    PROVE  IInv'
<1> USE DEF IInv, TypeOK, StoreTypeOK, LoaderReadAll
<1>1. mem' \in [Refs -> Data \cup {Hole}] /\ err' \in {0, 1}
  <2>1. CASE err # 0
    BY <2>1
  <2>2. CASE err = 0 /\ rd.poisoned
    BY <2>2 DEF ReaderReadAll
  <2>3. CASE err = 0 /\ ~rd.poisoned
    <3>1. PICK e \in {0, 1} : ReaderReadAll(e) /\ err' = e
      BY <2>3
    <3>2. PICK done \in ReadOutcomes :
            mem' = [r \in Refs |->
                      IF \E q \in done : q.ref = r
                        THEN BodyOf((CHOOSE q \in done : q.ref = r).key)
                        ELSE mem[r]]
      BY <2>3, <3>1 DEF ReaderReadAll
    <3>3. done \subseteq rd.reqs
      BY DEF ReadOutcomes
    <3>4. ASSUME NEW q \in done
          PROVE  BodyOf(q.key) \in Data \cup {Hole}
      <4>1. \E i \in DOMAIN rd.dir : rd.dir[i].key = q.key
        BY <3>3 DEF ReqsInHeader
      <4>2. rd.dir # << >>
        BY <4>1
      <4>3. file # NoFile /\ rd.dir = file.dir
        BY <4>2 DEF ReaderFromFile
      <4>4. file \in File /\ Len(file.body) = Len(file.dir)
        BY <4>3
      <4>5. QED
        BY <4>1, <4>3, <4>4, BodyInData
    <3>5. QED
      BY <3>1, <3>2, <3>4
  <2>4. QED
    BY <2>1, <2>2, <2>3
<1>2. ReaderFromFile' /\ ReqsInHeader'
  BY DEF ReaderFromFile, ReqsInHeader
<1>3. QED
  BY <1>1, <1>2 DEF Phases

LEMMA CompressorVisitIInv ==
    ASSUME IInv, CompressorVisit
    PROVE  IInv'
<1> USE DEF IInv, TypeOK, StoreTypeOK, CompressorVisit
<1>1. next \in Refs /\ cfg \in Configs
  BY DEF Tensors
<1>2. mem' \in [Refs -> Data \cup {Hole}]
  BY <1>1, ContentInData
<1>3. [key |-> CacheKey(cfg.type, next), ref |-> next,
       size |-> CompressedSize(cfg.type, cfg.cap)] \in Queued
  BY <1>1, KeyInKeys DEF Queued
<1>4. wq' \in Seq(Queued)
  BY <1>3, AppendInSeq DEF WriterAdd
<1>5. next' \in Tensors
  BY DEF Tensors
<1>6. ReaderFromFile' /\ ReqsInHeader'
  BY DEF ReaderFromFile, ReqsInHeader
<1>7. QED
  BY <1>2, <1>4, <1>5, <1>6 DEF Phases

LEMMA CompressorAddScalesIInv ==
    ASSUME IInv, CompressorAddScales
    PROVE  IInv'
<1> USE DEF IInv, TypeOK, StoreTypeOK, CompressorAddScales
<1>1. mem' \in [Refs -> Data \cup {Hole}]
  BY ContentInData
<1>2. [key |-> ScalesKey, ref |-> ScalesRef, size |-> ScalesSize(cfg.nscales)] \in Queued
  BY KeyInKeys DEF Queued
<1>3. wq' \in Seq(Queued)
  BY <1>2, AppendInSeq DEF WriterAdd
<1>4. ReaderFromFile' /\ ReqsInHeader'
  BY DEF ReaderFromFile, ReqsInHeader
<1>5. QED
  BY <1>1, <1>3, <1>4 DEF Phases

LEMMA CompressorWriteAllIInv ==
    ASSUME IInv, CompressorWriteAll
    PROVE  IInv'
<1> USE DEF IInv, TypeOK, StoreTypeOK, CompressorWriteAll
<1>1. PICK h \in HdrOutcomes, written \in BodyOutcomes :
        file' = [hdr  |-> h,
                 dir  |-> [i \in DOMAIN wq |-> [key |-> wq[i].key, size |-> wq[i].size]],
                 body |-> [i \in DOMAIN wq |->
                             IF i \in written THEN mem[wq[i].ref] ELSE Hole]]
  BY DEF WriterWriteAll
<1> DEFINE n == Len(wq)
           dir == [i \in 1..n |-> [key |-> wq[i].key, size |-> wq[i].size]]
           body == [i \in 1..n |-> IF i \in written THEN mem[wq[i].ref] ELSE Hole]
<1>2. n \in Nat /\ DOMAIN wq = 1..n /\ \A i \in 1..n : wq[i] \in Queued
  <2>1. wq \in Seq(Queued)
    OBVIOUS
  <2>2. n \in Nat /\ DOMAIN wq = 1..n
    BY <2>1, LenProperties
  <2>3. \A i \in 1..n : wq[i] \in Queued
    BY <2>1, ElementOfSeq
  <2>4. QED
    BY <2>2, <2>3
<1>3. file' = [hdr |-> h, dir |-> dir, body |-> body]
  BY <1>1, <1>2
<1>4. dir \in Seq(Entry) /\ Len(dir) = n
  <2>1. dir \in [1..n -> Entry]
    BY <1>2 DEF Queued, Entry
  <2>2. QED
    BY <1>2, <2>1, FunIsSeq
<1>5. body \in Seq(Data \cup {Hole}) /\ Len(body) = n
  <2>1. body \in [1..n -> Data \cup {Hole}]
    BY <1>2 DEF Queued
  <2>2. QED
    BY <1>2, <2>1, FunIsSeq
<1>6. h \in BOOLEAN
  BY DEF HdrOutcomes
<1>7. file' \in File /\ Len(file'.body) = Len(file'.dir)
  BY <1>3, <1>4, <1>5, <1>6 DEF File
<1>8. ReaderFromFile' /\ ReqsInHeader'
  BY DEF ReaderFromFile, ReqsInHeader
<1>9. QED
  BY <1>7, <1>8 DEF Phases

LEMMA DotIInv ==
    ASSUME IInv, NEW t \in Tensors, Dot(t)
    PROVE  IInv'
<1> USE DEF IInv, TypeOK, StoreTypeOK, Dot
<1>1. DotResult(scale[t], mem[t]) \in Data \cup {Hole, Zero}
  BY DEF DotResult, Tensors
<1>2. QED
  BY <1>1 DEF ReaderFromFile, ReqsInHeader

LEMMA RestartIInv ==
    ASSUME IInv, NEW c \in Configs, Restart(c)
    PROVE  IInv'
<1> USE DEF IInv, TypeOK, StoreTypeOK, Restart, Fresh
<1>1. << >> \in Seq(Queued) /\ ReaderEmpty \in Reader
  BY EmptySeq DEF ReaderEmpty, Reader
<1>2. restarts' \in 0..MaxRestarts
  OBVIOUS
<1>3. ReaderFromFile' /\ ReqsInHeader'
  BY DEF ReaderFromFile, ReqsInHeader, ReaderEmpty
<1>4. QED
  BY <1>1, <1>2, <1>3 DEF Phases, Tensors

LEMMA StutterIInv ==
    ASSUME IInv, UNCHANGED vars
    PROVE  IInv'
BY DEF vars, IInv, TypeOK, StoreTypeOK, ReaderFromFile, ReqsInHeader

-----------------------------------------------------------------------------
(* IInv is inductive.                                                      *)
LEMMA NextIInv == IInv /\ [Next]_vars => IInv'
<1> SUFFICES ASSUME IInv, [Next]_vars PROVE IInv'
  OBVIOUS
<1>1. CASE LoaderOpen         BY <1>1, LoaderOpenIInv
<1>2. CASE LoaderVisit        BY <1>2, LoaderVisitIInv
<1>3. CASE LoaderLoadScales   BY <1>3, LoaderLoadScalesIInv
<1>4. CASE LoaderReadAll      BY <1>4, LoaderReadAllIInv
<1>5. CASE CompressorVisit    BY <1>5, CompressorVisitIInv
<1>6. CASE CompressorAddScales BY <1>6, CompressorAddScalesIInv
<1>7. CASE CompressorWriteAll BY <1>7, CompressorWriteAllIInv
<1>8. CASE \E t \in Tensors : Dot(t)    BY <1>8, DotIInv
<1>9. CASE \E c \in Configs : Restart(c) BY <1>9, RestartIInv
<1>10. CASE UNCHANGED vars    BY <1>10, StutterIInv
<1>11. QED
  BY <1>1, <1>2, <1>3, <1>4, <1>5, <1>6, <1>7, <1>8, <1>9, <1>10 DEF Next, Process

(* Type correctness: in every reachable state every variable has its type  *)
(* (checked as TypeOK by the run weight_cache).                              *)
THEOREM TypeCorrect == Spec => []TypeOK
<1>1. IInv => TypeOK
  BY DEF IInv
<1>2. QED
  BY InitIInv, NextIInv, <1>1, PTL DEF Spec

=============================================================================
