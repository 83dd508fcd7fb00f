----------------------------- MODULE BlobStore -----------------------------
(***************************************************************************)
(* The blob store of compression/blob_store.h: a BlobWriter that queues    *)
(* (key, buffer, size) triples and writes them to one file, and a          *)
(* BlobReader that opens the file, validates its header, enqueues reads    *)
(* by key and size, and performs them in ReadAll.                          *)
(*                                                                         *)
(* Only the class declarations and BlobWriter::Add are in the repository;  *)
(* Open, Enqueue, ReadAll and WriteAll are modelled from spec.md 4.6.      *)
(*                                                                         *)
(* Data is abstract: the bytes of a buffer are one value of Data, a blob's *)
(* size is its byte count.  The file keeps the header (hdr, dir) and, per  *)
(* blob, the body the writer managed to put there or Hole where the write  *)
(* failed (the file has a hole of zero bytes there).  Blob bodies are laid *)
(* out in header order, so the file ends where the last written body ends. *)
(*                                                                         *)
(* Each action names only the store variables it changes; the module that  *)
(* composes the store with its callers frames the rest with UNCHANGED.     *)
(***************************************************************************)
EXTENDS Naturals, Sequences

CONSTANTS
    Keys,         \* 128-bit blob keys (MakeKey of a short string)
    Refs,         \* caller buffers a blob is written from or read into
    Data,         \* contents a buffer can hold
    Hole,         \* the zero bytes of a body whose write failed
    NoFile,       \* no file at the path
    WriteFaults,  \* whether a write of the header or of a body can fail
    ReadFaults    \* whether a read in ReadAll can fail

VARIABLES
    file,  \* the file on disk
    wq,    \* BlobWriter::keys_ and blobs_: the queued blobs, in order
    rd,    \* BlobReader: header read by Open, requests_, poisoned batch
    mem    \* contents of the caller buffers

Entry   == [key : Keys, size : Nat]
File    == [hdr : BOOLEAN, dir : Seq(Entry), body : Seq(Data \cup {Hole})]
Queued  == [key : Keys, ref : Refs, size : Nat]
Request == [key : Keys, ref : Refs]
Reader  == [dir : Seq(Entry), reqs : SUBSET Request, poisoned : BOOLEAN]

\* A BlobReader before Open succeeded: no header, nothing enqueued.
ReaderEmpty == [dir |-> << >>, reqs |-> {}, poisoned |-> FALSE]

StoreTypeOK ==
    /\ file \in File \cup {NoFile}
    /\ file # NoFile => Len(file.body) = Len(file.dir)
    /\ wq \in Seq(Queued)
    /\ rd \in Reader
    /\ mem \in [Refs -> Data \cup {Hole}]

-----------------------------------------------------------------------------
(* Header validation of BlobReader::Open (spec 4.6): keys are unique and   *)
(* every blob lies within the file.  Since bodies follow the header in     *)
(* order, that holds exactly when the last body was written.               *)

UniqueKeys(dir) ==
    \A i, j \in DOMAIN dir : dir[i].key = dir[j].key => i = j

WithinFile(f) ==
    Len(f.dir) > 0 => f.body[Len(f.dir)] # Hole

OpenOK(f) ==
    /\ f # NoFile
    /\ f.hdr
    /\ UniqueKeys(f.dir)
    /\ WithinFile(f)

\* BlobError of Open: 0, or nonzero (the failing check's line, abstracted).
OpenErr == IF OpenOK(file) THEN 0 ELSE 1

\* BlobReader::Open: reads and validates the header only.
ReaderOpen ==
    rd' = IF OpenOK(file)
            THEN [dir |-> file.dir, reqs |-> {}, poisoned |-> FALSE]
            ELSE ReaderEmpty

(* BlobReader::Enqueue(key, data, size): records a request if the key is   *)
(* in the header with exactly this size; otherwise fails and poisons the   *)
(* batch, after which every Enqueue fails without recording (spec 4.6).    *)
EnqueueErr(k, sz) ==
    IF ~rd.poisoned /\ \E i \in DOMAIN rd.dir : rd.dir[i] = [key |-> k, size |-> sz]
      THEN 0 ELSE 1

ReaderEnqueue(k, r, sz) ==
    rd' = IF EnqueueErr(k, sz) = 0
            THEN [rd EXCEPT !.reqs = @ \cup {[key |-> k, ref |-> r]}]
            ELSE [rd EXCEPT !.poisoned = TRUE]

\* The body the file holds under key k (the header has it exactly once).
BodyOf(k) == file.body[CHOOSE i \in DOMAIN file.dir : file.dir[i].key = k]

(* BlobReader::ReadAll with result e: a poisoned batch fails without       *)
(* reading; otherwise every request copies its blob into its buffer in     *)
(* parallel, and with ReadFaults some reads may fail, which is reported.   *)
ReadOutcomes == IF ReadFaults THEN SUBSET rd.reqs ELSE {rd.reqs}

ReaderReadAll(e) ==
    IF rd.poisoned
      THEN e = 1 /\ mem' = mem
      ELSE \E done \in ReadOutcomes :
             /\ e = IF done = rd.reqs THEN 0 ELSE 1
             /\ mem' = [r \in Refs |->
                          IF \E q \in done : q.ref = r
                            THEN BodyOf((CHOOSE q \in done : q.ref = r).key)
                            ELSE mem[r]]

-----------------------------------------------------------------------------
\* BlobWriter::Add: queues the key and a span over the caller's buffer.
WriterAdd(k, r, sz) ==
    wq' = Append(wq, [key |-> k, ref |-> r, size |-> sz])

(* BlobWriter::WriteAll: recreates the file, writes the header and then    *)
(* every queued body from the buffer the span points to, as it is now.     *)
(* With WriteFaults the header or any subset of the bodies may fail to be  *)
(* written; the file is left as far as it got.  The writer keeps its       *)
(* queue.                                                                  *)
HdrOutcomes == IF WriteFaults THEN BOOLEAN ELSE {TRUE}
BodyOutcomes == IF WriteFaults THEN SUBSET DOMAIN wq ELSE {DOMAIN wq}

WriterWriteAll ==
    \E h \in HdrOutcomes, written \in BodyOutcomes :
        file' = [hdr  |-> h,
                 dir  |-> [i \in DOMAIN wq |-> [key |-> wq[i].key, size |-> wq[i].size]],
                 body |-> [i \in DOMAIN wq |->
                             IF i \in written THEN mem[wq[i].ref] ELSE Hole]]
=============================================================================
