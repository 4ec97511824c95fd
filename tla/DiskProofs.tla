----------------------------- MODULE DiskProofs -----------------------------
(***************************************************************************)
(* Proofs about what is on the disk and what is counted of it: DiskQuota,  *)
(* for any number of writers of either kind, any limit and any size of a   *)
(* call; then Files, for any sessions, requests, names, sizes and limits.  *)
(***************************************************************************)
EXTENDS DiskQuota, Files, FiniteSetTheorems, SequenceTheorems, WellFoundedInduction, TLAPS

(***************************************************************************)
(* DiskQuota: the inductive invariant                                      *)
(***************************************************************************)

\* What a writer has counted and not yet allocated, by where it stands.
Sound(w, r) ==
  /\ r.chunk <= MaxChunk
  /\ r.pc \in {"new", "open", "write", "accept"} => r.allocation = 0 /\ r.accumulated < Threshold
  /\ r.pc = "new" => r.accepted = 0
  /\ r.pc \in {"check", "add"} =>
       /\ r.accumulated = 0
       /\ IF r.flushing THEN r.allocation < Threshold ELSE r.allocation < Threshold + r.chunk
  /\ r.pc = "failed" => r.allocation = 0 /\ (w \notin Sync => r.accumulated = 0)
  /\ r.pc \in {"late", "lateadd"} => r.accumulated = 0 /\ r.allocation < Threshold
  /\ r.pc \in {"closed", "free", "sub", "gone"} => r.allocation = 0

\* A chunk is counted before the buffer takes it (c: what has been allocated).
Covered(r, c) ==
  /\ r.pc \in {"open", "write", "accept", "check", "add"} =>
       r.accepted <= c + r.accumulated + r.allocation
  /\ r.pc = "accept" \/ (r.pc \in {"check", "add"} /\ ~r.flushing) =>
       r.accepted + r.chunk <= c + r.accumulated + r.allocation

\* At no time is more than that in a file without having been allocated.
Lagging(r, c) == r.accepted <= c + Threshold - 1

Counting == \A w \in Writer : /\ Sound(w, writer[w])
                              /\ Covered(writer[w], counted[w])
                              /\ Lagging(writer[w], counted[w])

\* Writers that have found room for an allocation, and not yet added it.
Adding  == {w \in Writer : writer[w].pc \in {"add", "lateadd"}}
Freeing == {w \in Writer : writer[w].pc \in {"free", "sub"}}

\* The writer that was the last to find room found it for its own allocation; each of the
\* others adds one more.
Room ==
  /\ Adding = {} => disk_usage_cached <= Ceiling
  /\ Adding # {} => \E w \in Adding :
       disk_usage_cached + writer[w].allocation + (Cardinality(Adding) - 1) * MaxAllocation
         <= Ceiling

\* As long as files are deleted one at a time, what is given back is still counted.
Returned ==
  /\ \A u, w \in Freeing : u = w
  /\ \A w \in Writer : writer[w].pc = "sub" => writer[w].accepted <= disk_usage_cached
  /\ disk_usage_cached <= allocated

Inv == TypeOK /\ Counting /\ (~overlap => Room /\ Returned)

(***************************************************************************)
(* How the records of the writers change                                   *)
(***************************************************************************)
LEMMA Bounds ==
  /\ Threshold \in Nat \ {0} /\ MaxChunk \in Nat \ {0} /\ Limit \in Nat \ {0} /\ Modulus \in Nat
  /\ MaxAllocation \in Nat
  /\ Cardinality(Writer) \in Nat \ {0} /\ IsFiniteSet(Writer)
  /\ Ceiling \in Int /\ Limit <= Ceiling /\ Ceiling < Modulus
<1>1. /\ Threshold \in Nat \ {0} /\ MaxChunk \in Nat \ {0} /\ Limit \in Nat \ {0}
      /\ Modulus \in Nat /\ MaxAllocation \in Nat
  BY QuotaAssumption DEF MaxAllocation
<1>2. Cardinality(Writer) \in Nat \ {0} /\ IsFiniteSet(Writer)
  BY QuotaAssumption, FS_EmptySet, FS_CardinalityType
<1>3. (Cardinality(Writer) - 1) * MaxAllocation \in Nat
  BY <1>1, <1>2
<1>4. QED
  BY <1>1, <1>2, <1>3, WidthAssumption DEF Ceiling

Others(w) == writer' \in [Writer -> WriterRecord] /\ \A u \in Writer : u # w => writer'[u] = writer[u]

Becomes(w, pc, flushing, chunk, accumulated, allocation, accepted) ==
  /\ Others(w)
  /\ writer'[w].pc = pc /\ writer'[w].flushing = flushing /\ writer'[w].chunk = chunk
  /\ writer'[w].accumulated = accumulated /\ writer'[w].allocation = allocation
  /\ writer'[w].accepted = accepted

\* Only where the writer stands changes.
Goes(w, pc) ==
  Becomes(w, pc, writer[w].flushing, writer[w].chunk, writer[w].accumulated,
          writer[w].allocation, writer[w].accepted)

LEMMA Going ==
  ASSUME TypeOK, NEW w \in Writer, NEW pc \in PC, writer' = [writer EXCEPT ![w].pc = pc]
  PROVE  Goes(w, pc)
  BY DEF TypeOK, Goes, Becomes, Others, WriterRecord

LEMMA Fields ==
  ASSUME NEW f \in [Writer -> WriterRecord], NEW w \in Writer
  PROVE  /\ \A pc \in PC : [f EXCEPT ![w].pc = pc] \in [Writer -> WriterRecord]
         /\ \A b \in BOOLEAN : [f EXCEPT ![w].flushing = b] \in [Writer -> WriterRecord]
         /\ \A n \in Nat : /\ [f EXCEPT ![w].chunk = n] \in [Writer -> WriterRecord]
                           /\ [f EXCEPT ![w].accumulated = n] \in [Writer -> WriterRecord]
                           /\ [f EXCEPT ![w].allocation = n] \in [Writer -> WriterRecord]
                           /\ [f EXCEPT ![w].accepted = n] \in [Writer -> WriterRecord]
  BY DEF WriterRecord

\* An allocation begins.
LEMMA Allocates ==
  ASSUME TypeOK, NEW w \in Writer, NEW b \in BOOLEAN, NEW n \in Nat,
         \/ writer' = [writer EXCEPT ![w].pc = "check", ![w].flushing = b,
                                     ![w].accumulated = 0, ![w].allocation = n]
         \/ writer' = [writer EXCEPT ![w].pc = "check", ![w].flushing = b,
                                     ![w].allocation = n, ![w].accumulated = 0]
  PROVE  Becomes(w, "check", b, writer[w].chunk, 0, n, writer[w].accepted)
<1>1. writer \in [Writer -> WriterRecord] /\ 0 \in Nat /\ "check" \in PC
  BY DEF TypeOK, PC
<1>2. [writer EXCEPT ![w].pc = "check"] \in [Writer -> WriterRecord]
  BY <1>1, Fields
<1>3. [writer EXCEPT ![w].pc = "check", ![w].flushing = b] \in [Writer -> WriterRecord]
  BY <1>2, Fields
<1>4. /\ [writer EXCEPT ![w].pc = "check", ![w].flushing = b, ![w].accumulated = 0]
           \in [Writer -> WriterRecord]
      /\ [writer EXCEPT ![w].pc = "check", ![w].flushing = b, ![w].allocation = n]
           \in [Writer -> WriterRecord]
  BY <1>1, <1>3, Fields
<1>5. writer' \in [Writer -> WriterRecord]
  BY <1>1, <1>4, Fields
<1>6. /\ writer'[w].pc = "check" /\ writer'[w].flushing = b /\ writer'[w].chunk = writer[w].chunk
      /\ writer'[w].accumulated = 0 /\ writer'[w].allocation = n
      /\ writer'[w].accepted = writer[w].accepted
  BY <1>1 DEF WriterRecord
<1>7. \A u \in Writer : u # w => writer'[u] = writer[u]
  BY <1>1
<1>8. QED
  BY <1>5, <1>6, <1>7 DEF Becomes, Others

\* A call of write, up to the buffer.
LEMMA WriteMoves ==
  ASSUME TypeOK, NEW w \in Writer
  PROVE  /\ Open(w) => Goes(w, "open")
         /\ \A n \in 1..MaxChunk : Write(w, n) =>
              Becomes(w, "write", writer[w].flushing, n, writer[w].accumulated,
                      writer[w].allocation, writer[w].accepted)
         /\ Count(w) =>
              IF writer[w].accumulated + writer[w].chunk >= Threshold
              THEN Becomes(w, "check", FALSE, writer[w].chunk, 0,
                           writer[w].accumulated + writer[w].chunk, writer[w].accepted)
              ELSE Becomes(w, "accept", writer[w].flushing, writer[w].chunk,
                           writer[w].accumulated + writer[w].chunk, writer[w].allocation,
                           writer[w].accepted)
         /\ Accept(w) => \E n \in 1..writer[w].chunk :
              Becomes(w, IF n = writer[w].chunk THEN "open" ELSE "write", writer[w].flushing,
                      writer[w].chunk - n, writer[w].accumulated, writer[w].allocation,
                      writer[w].accepted + n)
         /\ AcceptPending(w) => Goes(w, "write")
<1>1. /\ writer \in [Writer -> WriterRecord] /\ writer[w] \in WriterRecord
      /\ {"open", "write", "check", "accept"} \subseteq PC /\ MaxChunk \in Nat
  BY Bounds DEF TypeOK, PC
<1>2. writer[w].accumulated \in Nat /\ writer[w].chunk \in Nat /\ writer[w].accepted \in Nat
  BY <1>1 DEF WriterRecord
<1>4. ASSUME NEW n \in 1..MaxChunk, Write(w, n)
      PROVE  Becomes(w, "write", writer[w].flushing, n, writer[w].accumulated,
                     writer[w].allocation, writer[w].accepted)
  <2>1. writer' = [writer EXCEPT ![w].pc = "write", ![w].chunk = n] /\ n \in Nat
    BY <1>1, <1>4 DEF Write
  <2>2. QED
    BY <1>1, <2>1 DEF Becomes, Others, WriterRecord
<1>5. ASSUME Count(w), writer[w].accumulated + writer[w].chunk >= Threshold
      PROVE  Becomes(w, "check", FALSE, writer[w].chunk, 0,
                     writer[w].accumulated + writer[w].chunk, writer[w].accepted)
  <2>1. writer[w].accumulated + writer[w].chunk \in Nat
    BY <1>2
  <2>2. writer' = [writer EXCEPT ![w].pc = "check", ![w].flushing = FALSE, ![w].accumulated = 0,
                                 ![w].allocation = writer[w].accumulated + writer[w].chunk]
    BY <1>5 DEF Count
  <2>3. QED
    BY <2>1, <2>2, Allocates
<1>6. ASSUME Count(w), ~(writer[w].accumulated + writer[w].chunk >= Threshold)
      PROVE  Becomes(w, "accept", writer[w].flushing, writer[w].chunk,
                     writer[w].accumulated + writer[w].chunk, writer[w].allocation,
                     writer[w].accepted)
  <2>1. writer' = [writer EXCEPT ![w].pc = "accept",
                                 ![w].accumulated = writer[w].accumulated + writer[w].chunk]
    BY <1>6 DEF Count
  <2>2. PICK n \in Nat : n = writer[w].accumulated + writer[w].chunk
    BY <1>2
  <2>3. writer' = [writer EXCEPT ![w].pc = "accept", ![w].accumulated = n]
    BY <2>1, <2>2
  <2>4. Becomes(w, "accept", writer[w].flushing, writer[w].chunk, n, writer[w].allocation,
                writer[w].accepted)
    BY <1>1, <2>3 DEF Becomes, Others, WriterRecord
  <2>5. QED
    BY <2>2, <2>4
<1>7. ASSUME NEW n \in 1..writer[w].chunk,
             writer' = [writer EXCEPT ![w].pc = IF n = writer[w].chunk THEN "open" ELSE "write",
                                      ![w].chunk = writer[w].chunk - n,
                                      ![w].accepted = @ + n]
      PROVE  Becomes(w, IF n = writer[w].chunk THEN "open" ELSE "write", writer[w].flushing,
                     writer[w].chunk - n, writer[w].accumulated, writer[w].allocation,
                     writer[w].accepted + n)
  BY <1>1, <1>2, <1>7 DEF Becomes, Others, WriterRecord
<1>8. Open(w) => Goes(w, "open")
  BY <1>1, Going DEF Open
<1>9. AcceptPending(w) => Goes(w, "write")
  BY <1>1, Going DEF AcceptPending
<1>10. QED
  BY <1>4, <1>5, <1>6, <1>7, <1>8, <1>9 DEF Accept

\* Flushing, and what becomes of a writer that is dropped.
LEMMA EndMoves ==
  ASSUME TypeOK, NEW w \in Writer
  PROVE  /\ Flush(w) => Becomes(w, "check", TRUE, writer[w].chunk, 0, writer[w].accumulated,
                                writer[w].accepted)
         /\ DropSync(w) => Becomes(w, "closed", writer[w].flushing, writer[w].chunk, 0,
                                   writer[w].allocation, writer[w].accepted)
         /\ DropAsync(w) =>
              IF writer[w].accumulated > 0
              THEN Becomes(w, "late", writer[w].flushing, writer[w].chunk, 0,
                           writer[w].accumulated, writer[w].accepted)
              ELSE Goes(w, "closed")
<1>1. /\ writer \in [Writer -> WriterRecord] /\ writer[w] \in WriterRecord
      /\ {"closed", "late"} \subseteq PC
  BY DEF TypeOK, PC
<1>2. writer[w].accumulated \in Nat
  BY <1>1 DEF WriterRecord
<1>3. Flush(w) => Becomes(w, "check", TRUE, writer[w].chunk, 0, writer[w].accumulated,
                          writer[w].accepted)
  BY <1>2, Allocates DEF Flush
<1>4. ASSUME DropSync(w)
      PROVE  Becomes(w, "closed", writer[w].flushing, writer[w].chunk, 0,
                     writer[w].allocation, writer[w].accepted)
  <2>1. writer' = [writer EXCEPT ![w].pc = "closed", ![w].accumulated = 0]
    BY <1>4 DEF DropSync
  <2>2. QED
    BY <1>1, <2>1 DEF Becomes, Others, WriterRecord
<1>5. ASSUME DropAsync(w), writer[w].accumulated > 0
      PROVE  Becomes(w, "late", writer[w].flushing, writer[w].chunk, 0,
                     writer[w].accumulated, writer[w].accepted)
  <2>1. writer' = [writer EXCEPT ![w].pc = "late", ![w].accumulated = 0,
                                 ![w].allocation = writer[w].accumulated]
    BY <1>5 DEF DropAsync
  <2>2. QED
    BY <1>1, <1>2, <2>1 DEF Becomes, Others, WriterRecord
<1>6. ASSUME DropAsync(w), ~(writer[w].accumulated > 0)
      PROVE  Goes(w, "closed")
  BY <1>1, <1>6, Going DEF DropAsync
<1>7. QED
  BY <1>3, <1>4, <1>5, <1>6

\* An allocation, and space that is given back.
LEMMA AllocationMoves ==
  ASSUME TypeOK, NEW w \in Writer
  PROVE  /\ Check(w) => Goes(w, "add")
         /\ Refuse(w) => Becomes(w, "failed", writer[w].flushing, writer[w].chunk,
                                 IF w \in Sync THEN writer[w].allocation ELSE 0, 0,
                                 writer[w].accepted)
         /\ Add(w) => \E pc \in IF writer[w].flushing THEN {"open"}
                                ELSE IF w \in Sync THEN {"accept"} ELSE {"accept", "write"} :
              Becomes(w, pc, writer[w].flushing, writer[w].chunk, writer[w].accumulated, 0,
                      writer[w].accepted)
         /\ LateCheck(w) =>
              IF Fits(writer[w].allocation) THEN Goes(w, "lateadd")
              ELSE Becomes(w, "closed", writer[w].flushing, writer[w].chunk,
                           writer[w].accumulated, 0, writer[w].accepted)
         /\ LateAdd(w) => Becomes(w, "closed", writer[w].flushing, writer[w].chunk,
                                  writer[w].accumulated, 0, writer[w].accepted)
         /\ Truncate(w) => Goes(w, "free")
         /\ Free(w) => Goes(w, IF disk_usage_cached >= writer[w].accepted THEN "sub" ELSE "gone")
         /\ Sub(w) => Goes(w, "gone")
<1>1. /\ writer \in [Writer -> WriterRecord] /\ writer[w] \in WriterRecord
      /\ {"add", "failed", "open", "accept", "write", "lateadd", "closed", "free", "sub", "gone"}
           \subseteq PC
  BY DEF TypeOK, PC
<1>2. writer[w].allocation \in Nat /\ writer[w].flushing \in BOOLEAN
  BY <1>1 DEF WriterRecord
<1>3. ASSUME NEW pc \in PC, writer' = [writer EXCEPT ![w].pc = pc, ![w].allocation = 0]
      PROVE  Becomes(w, pc, writer[w].flushing, writer[w].chunk, writer[w].accumulated, 0,
                     writer[w].accepted)
  BY <1>1, <1>3 DEF Becomes, Others, WriterRecord
<1>4. ASSUME Refuse(w)
      PROVE  Becomes(w, "failed", writer[w].flushing, writer[w].chunk,
                     IF w \in Sync THEN writer[w].allocation ELSE 0, 0, writer[w].accepted)
  <2>1. writer' = [writer EXCEPT ![w].pc = "failed", ![w].allocation = 0,
                     ![w].accumulated = IF w \in Sync THEN writer[w].allocation ELSE 0]
    BY <1>4 DEF Refuse
  <2>2. (IF w \in Sync THEN writer[w].allocation ELSE 0) \in Nat
    BY <1>2
  <2>3. QED
    BY <1>1, <2>1, <2>2 DEF Becomes, Others, WriterRecord
<1>5. Check(w) => Goes(w, "add")
  BY <1>1, Going DEF Check
<1>6. ASSUME Add(w)
      PROVE  \E pc \in IF writer[w].flushing THEN {"open"}
                       ELSE IF w \in Sync THEN {"accept"} ELSE {"accept", "write"} :
               Becomes(w, pc, writer[w].flushing, writer[w].chunk, writer[w].accumulated, 0,
                       writer[w].accepted)
  BY <1>1, <1>3, <1>6 DEF Add
<1>7. ASSUME LateCheck(w)
      PROVE  IF Fits(writer[w].allocation) THEN Goes(w, "lateadd")
             ELSE Becomes(w, "closed", writer[w].flushing, writer[w].chunk,
                          writer[w].accumulated, 0, writer[w].accepted)
  BY <1>1, <1>3, <1>7, Going DEF LateCheck
<1>8. LateAdd(w) => Becomes(w, "closed", writer[w].flushing, writer[w].chunk,
                            writer[w].accumulated, 0, writer[w].accepted)
  BY <1>1, <1>3 DEF LateAdd
<1>9. /\ Truncate(w) => Goes(w, "free")
      /\ Free(w) => Goes(w, IF disk_usage_cached >= writer[w].accepted THEN "sub" ELSE "gone")
      /\ Sub(w) => Goes(w, "gone")
  BY <1>1, Going DEF Truncate, Free, Sub
<1>10. QED
  BY <1>4, <1>5, <1>6, <1>7, <1>8, <1>9

(***************************************************************************)
(* Type correctness                                                        *)
(***************************************************************************)
LEMMA OnlyWriter ==
  ASSUME TypeOK, NEW w \in Writer, Steps(w)
  PROVE  /\ Others(w)
         /\ \A u \in Writer : u # w => counted'[u] = counted[u]
<1>1. Others(w)
  <2>1. /\ Open(w) \/ (\E n \in 1..MaxChunk : Write(w, n)) \/ Count(w) \/ Accept(w)
             \/ AcceptPending(w) => Others(w)
    BY WriteMoves DEF Goes, Becomes
  <2>2. Flush(w) \/ DropSync(w) \/ DropAsync(w) => Others(w)
    BY EndMoves DEF Goes, Becomes
  <2>3. Check(w) \/ Refuse(w) \/ Add(w) \/ LateCheck(w) \/ LateAdd(w) => Others(w)
    BY AllocationMoves DEF Goes, Becomes
  <2>4. Truncate(w) \/ Free(w) \/ Sub(w) => Others(w)
    BY AllocationMoves DEF Goes, Becomes
  <2>5. QED
    BY <2>1, <2>2, <2>3, <2>4 DEF Steps
<1>2. counted \in [Writer -> Nat]
  BY DEF TypeOK
<1>3. \/ counted' = counted
      \/ counted' = [counted EXCEPT ![w] = @ + writer[w].allocation]
  BY DEF Steps, Open, Write, Count, Accept, AcceptPending, Flush, DropSync, DropAsync, Check,
         Refuse, Add, LateCheck, LateAdd, Truncate, Free, Sub, Unchanged
<1>4. QED
  BY <1>1, <1>2, <1>3

\* Every step of a writer keeps the types.
LEMMA TypeStep ==
  ASSUME TypeOK, NEW w \in Writer, Steps(w)
  PROVE  TypeOK'
<1>1. /\ disk_usage_cached \in 0..(Modulus - 1) /\ counted \in [Writer -> Nat]
      /\ allocated \in Nat /\ overlap \in BOOLEAN
      /\ writer[w].allocation \in Nat /\ writer[w].accepted \in Nat
  BY DEF TypeOK, WriterRecord
<1>2. Modulus \in Nat \ {0}
  BY Bounds
<1>3. writer' \in [Writer -> WriterRecord]
  BY OnlyWriter DEF Others
<1>4. \A n \in Int : n % Modulus \in 0..(Modulus - 1)
  BY <1>2
<1>5. CASE Add(w) \/ LateAdd(w)
  <2>1. disk_usage_cached + writer[w].allocation \in Int
    BY <1>1, <1>2
  <2>2. disk_usage_cached' \in 0..(Modulus - 1)
    BY <1>4, <1>5, <2>1 DEF Add, LateAdd
  <2>3. counted' \in [Writer -> Nat] /\ allocated' \in Nat /\ overlap' = overlap
    BY <1>1, <1>5 DEF Add, LateAdd
  <2>4. QED
    BY <1>1, <1>3, <2>2, <2>3 DEF TypeOK
<1>6. CASE Free(w)
  BY <1>1, <1>2, <1>3, <1>6 DEF Free, TypeOK
<1>7. CASE Sub(w)
  <2>1. disk_usage_cached - writer[w].accepted \in Int
    BY <1>1, <1>2
  <2>2. disk_usage_cached' \in 0..(Modulus - 1)
    BY <1>4, <1>7, <2>1 DEF Sub
  <2>3. QED
    BY <1>1, <1>3, <1>7, <2>2 DEF Sub, TypeOK
<1>8. CASE Truncate(w)
  BY <1>1, <1>3, <1>8 DEF Truncate, TypeOK
<1>9. CASE Unchanged
  BY <1>1, <1>3, <1>9 DEF Unchanged, TypeOK
<1>10. QED
  BY <1>5, <1>6, <1>7, <1>8, <1>9
     DEF Steps, Open, Write, Count, Accept, AcceptPending, Flush, DropSync, DropAsync, Check,
         Refuse, LateCheck

(***************************************************************************)
(* What is counted, allocated and in the files                             *)
(***************************************************************************)

\* The state of the writer that moved decides.
LEMMA OneWriter ==
  ASSUME Counting, NEW w \in Writer, Others(w),
         \A u \in Writer : u # w => counted'[u] = counted[u],
         Sound(w, writer'[w]), Covered(writer'[w], counted'[w]), Lagging(writer'[w], counted'[w])
  PROVE  Counting'
  BY DEF Counting, Others, Sound, Covered, Lagging

\* Every step keeps what is counted in line with what is on disk.
LEMMA CountingStep ==
  ASSUME TypeOK, Counting, NEW w \in Writer, Steps(w)
  PROVE  Counting'
<1> DEFINE r == writer[w]
           t == writer'[w]
           c == counted[w]
           d == counted'[w]
<1>1. /\ r \in WriterRecord /\ t \in WriterRecord /\ c \in Nat
      /\ r.chunk \in Nat /\ r.accumulated \in Nat /\ r.allocation \in Nat /\ r.accepted \in Nat
      /\ r.flushing \in BOOLEAN /\ r.pc \in PC
  BY OnlyWriter DEF TypeOK, WriterRecord, Others
<1>2. Sound(w, r) /\ Covered(r, c) /\ Lagging(r, c)
  BY DEF Counting
<1>3. Threshold \in Nat \ {0} /\ MaxChunk \in Nat \ {0}
  BY Bounds
<1>4. SUFFICES Sound(w, t) /\ Covered(t, d) /\ Lagging(t, d)
  BY OneWriter, OnlyWriter
<1>5. CASE Open(w)
  <2>1. d = c /\ r.pc = "new" /\ Goes(w, "open")
    BY <1>5, WriteMoves DEF Open, At, Unchanged
  <2>2. QED
    BY <1>1, <1>2, <1>3, <2>1 DEF Goes, Becomes, Sound, Covered, Lagging
<1>6. ASSUME NEW n \in 1..MaxChunk, Write(w, n)
      PROVE  Sound(w, t) /\ Covered(t, d) /\ Lagging(t, d)
  <2>1. d = c /\ r.pc = "open" /\ n \in Nat /\ n <= MaxChunk
    BY <1>3, <1>6 DEF Write, At, Unchanged
  <2>2. Becomes(w, "write", r.flushing, n, r.accumulated, r.allocation, r.accepted)
    BY <1>6, WriteMoves
  <2>3. QED
    BY <1>1, <1>2, <1>3, <2>1, <2>2 DEF Becomes, Sound, Covered, Lagging
<1>7. CASE Count(w)
  <2>1. d = c /\ r.pc = "write"
    BY <1>7 DEF Count, At, Unchanged
  <2>2. IF r.accumulated + r.chunk >= Threshold
        THEN Becomes(w, "check", FALSE, r.chunk, 0, r.accumulated + r.chunk, r.accepted)
        ELSE Becomes(w, "accept", r.flushing, r.chunk, r.accumulated + r.chunk, r.allocation,
                     r.accepted)
    BY <1>7, WriteMoves
  <2>3. CASE r.accumulated + r.chunk >= Threshold
    <3>1. /\ t.pc = "check" /\ t.flushing = FALSE /\ t.chunk = r.chunk /\ t.accumulated = 0
          /\ t.allocation = r.accumulated + r.chunk /\ t.accepted = r.accepted
      BY <2>2, <2>3 DEF Becomes
    <3>2. r.chunk <= MaxChunk /\ r.allocation = 0 /\ r.accumulated < Threshold
      BY <1>2, <2>1 DEF Sound
    <3>3. r.accepted <= c + r.accumulated + r.allocation
      BY <1>2, <2>1 DEF Covered
    <3>4. Sound(w, t)
      BY <1>1, <1>3, <3>1, <3>2 DEF Sound
    <3>5. Covered(t, d)
      BY <1>1, <2>1, <3>1, <3>2, <3>3 DEF Covered
    <3>6. QED
      BY <1>2, <2>1, <3>1, <3>4, <3>5 DEF Lagging
  <2>4. CASE ~(r.accumulated + r.chunk >= Threshold)
    BY <1>1, <1>2, <1>3, <2>1, <2>2, <2>4 DEF Becomes, Sound, Covered, Lagging
  <2>5. QED
    BY <2>3, <2>4
<1>8. CASE Accept(w)
  <2>1. d = c /\ r.pc = "accept"
    BY <1>8 DEF Accept, At, Unchanged
  <2>2. PICK n \in 1..r.chunk :
          Becomes(w, IF n = r.chunk THEN "open" ELSE "write", r.flushing, r.chunk - n,
                  r.accumulated, r.allocation, r.accepted + n)
    BY <1>8, WriteMoves
  <2>3. QED
    BY <1>1, <1>2, <1>3, <2>1, <2>2 DEF Becomes, Sound, Covered, Lagging
<1>9. CASE AcceptPending(w)
  <2>1. d = c /\ r.pc = "accept" /\ Goes(w, "write")
    BY <1>9, WriteMoves DEF AcceptPending, At, Unchanged
  <2>2. QED
    BY <1>1, <1>2, <1>3, <2>1 DEF Goes, Becomes, Sound, Covered, Lagging
<1>10. CASE Flush(w)
  <2>1. d = c /\ r.pc = "open" /\ Becomes(w, "check", TRUE, r.chunk, 0, r.accumulated, r.accepted)
    BY <1>10, EndMoves DEF Flush, At, Unchanged
  <2>2. QED
    BY <1>1, <1>2, <1>3, <2>1 DEF Becomes, Sound, Covered, Lagging
<1>11. CASE DropSync(w)
  <2>1. /\ d = c /\ r.pc \in {"open", "failed"}
        /\ Becomes(w, "closed", r.flushing, r.chunk, 0, r.allocation, r.accepted)
    BY <1>11, EndMoves DEF DropSync, Unchanged
  <2>2. QED
    BY <1>1, <1>2, <1>3, <2>1 DEF Becomes, Sound, Covered, Lagging
<1>12. CASE DropAsync(w)
  <2>1. d = c /\ r.pc \in {"open", "write", "failed"}
    BY <1>12 DEF DropAsync, Unchanged
  <2>2. /\ w \notin Sync
        /\ IF r.accumulated > 0
           THEN Becomes(w, "late", r.flushing, r.chunk, 0, r.accumulated, r.accepted)
           ELSE Goes(w, "closed")
    BY <1>12, EndMoves DEF DropAsync
  <2>3. QED
    BY <1>1, <1>2, <1>3, <2>1, <2>2 DEF Goes, Becomes, Sound, Covered, Lagging
<1>13. CASE Check(w)
  <2>1. d = c /\ r.pc = "check" /\ Goes(w, "add")
    BY <1>13, AllocationMoves DEF Check, At, Unchanged
  <2>2. QED
    BY <1>1, <1>2, <1>3, <2>1 DEF Goes, Becomes, Sound, Covered, Lagging
<1>14. CASE Refuse(w)
  <2>1. d = c /\ r.pc = "check"
    BY <1>14 DEF Refuse, At, Unchanged
  <2>2. Becomes(w, "failed", r.flushing, r.chunk, IF w \in Sync THEN r.allocation ELSE 0, 0,
                r.accepted)
    BY <1>14, AllocationMoves
  <2>3. QED
    BY <1>1, <1>2, <1>3, <2>1, <2>2 DEF Becomes, Sound, Covered, Lagging
<1>15. CASE Add(w)
  <2>1. d = c + r.allocation /\ r.pc = "add"
    BY <1>15 DEF Add, At, TypeOK
  <2>2. PICK pc \in IF r.flushing THEN {"open"}
                    ELSE IF w \in Sync THEN {"accept"} ELSE {"accept", "write"} :
          Becomes(w, pc, r.flushing, r.chunk, r.accumulated, 0, r.accepted)
    BY <1>15, AllocationMoves
  <2>3. /\ pc \in {"open", "accept", "write"} /\ (pc = "accept" => ~r.flushing)
        /\ t.pc = pc /\ t.chunk = r.chunk /\ t.accumulated = r.accumulated
        /\ t.allocation = 0 /\ t.accepted = r.accepted
    BY <1>1, <2>2 DEF Becomes
  <2>4. r.chunk <= MaxChunk /\ r.accumulated = 0 /\ (~r.flushing => r.allocation < Threshold + r.chunk)
    BY <1>2, <2>1 DEF Sound
  <2>5. /\ r.accepted <= c + r.accumulated + r.allocation
        /\ ~r.flushing => r.accepted + r.chunk <= c + r.accumulated + r.allocation
    BY <1>2, <2>1 DEF Covered
  <2>6. Sound(w, t)
    BY <1>1, <1>3, <2>3, <2>4 DEF Sound
  <2>7. Covered(t, d)
    BY <1>1, <2>1, <2>3, <2>4, <2>5 DEF Covered
  <2>8. Lagging(t, d)
    BY <1>1, <1>2, <1>3, <2>1, <2>3 DEF Lagging
  <2>9. QED
    BY <2>6, <2>7, <2>8
<1>16. CASE LateCheck(w)
  <2>1. d = c /\ r.pc = "late"
    BY <1>16 DEF LateCheck, At, Unchanged
  <2>2. IF Fits(r.allocation) THEN Goes(w, "lateadd")
        ELSE Becomes(w, "closed", r.flushing, r.chunk, r.accumulated, 0, r.accepted)
    BY <1>16, AllocationMoves
  <2>3. QED
    BY <1>1, <1>2, <1>3, <2>1, <2>2 DEF Goes, Becomes, Sound, Covered, Lagging
<1>17. CASE LateAdd(w)
  <2>1. d = c + r.allocation /\ r.pc = "lateadd"
    BY <1>17 DEF LateAdd, At, TypeOK
  <2>2. Becomes(w, "closed", r.flushing, r.chunk, r.accumulated, 0, r.accepted)
    BY <1>17, AllocationMoves
  <2>3. QED
    BY <1>1, <1>2, <1>3, <2>1, <2>2 DEF Becomes, Sound, Covered, Lagging
<1>18. CASE Truncate(w) \/ Free(w) \/ Sub(w)
  <2>1. d = c /\ r.pc \in {"closed", "free", "sub"}
    BY <1>18 DEF Truncate, Free, Sub, At
  <2>2. \E pc \in {"free", "sub", "gone"} : Goes(w, pc)
    BY <1>18, AllocationMoves
  <2>3. QED
    BY <1>1, <1>2, <1>3, <2>1, <2>2 DEF Goes, Becomes, Sound, Covered, Lagging
<1>19. QED
  BY <1>5, <1>6, <1>7, <1>8, <1>9, <1>10, <1>11, <1>12, <1>13, <1>14, <1>15, <1>16, <1>17, <1>18
     DEF Steps

(***************************************************************************)
(* Room for the allocations that are under way                             *)
(***************************************************************************)
Allocating == {"add", "lateadd"}
Giving     == {"free", "sub"}

\* What a step means for the usage: a writer finds room, ...
Joins(w) ==
  /\ writer[w].pc \notin Allocating \cup Giving /\ writer'[w].pc \in Allocating
  /\ writer'[w].allocation = writer[w].allocation
  /\ Fits(writer[w].allocation) /\ Unchanged

\* ... adds its allocation, ...
Leaves(w) ==
  /\ writer[w].pc \in Allocating /\ writer'[w].pc \notin Allocating \cup Giving
  /\ disk_usage_cached' = (disk_usage_cached + writer[w].allocation) % Modulus
  /\ allocated' = allocated + writer[w].allocation /\ overlap' = overlap

\* ... gives space back, ...
Returns(w) ==
  /\ writer[w].pc \notin Allocating /\ writer'[w].pc \notin Allocating
  /\ Truncate(w) \/ Free(w) \/ Sub(w)

\* ... or does neither.
Elsewhere(w) ==
  /\ writer[w].pc \notin Allocating \cup Giving /\ writer'[w].pc \notin Allocating \cup Giving
  /\ Unchanged

\* Every step is one of the few kinds the counting tells apart.
LEMMA Kinds ==
  ASSUME TypeOK, NEW w \in Writer, Steps(w)
  PROVE  Joins(w) \/ Leaves(w) \/ Returns(w) \/ Elsewhere(w)
<1> USE DEF At, Allocating, Giving
<1>1. (\E n \in 1..MaxChunk : Write(w, n)) => Elsewhere(w)
  BY WriteMoves DEF Write, Becomes, Elsewhere
<1>2. Open(w) \/ Count(w) \/ Accept(w) \/ AcceptPending(w) => Elsewhere(w)
  BY WriteMoves DEF Open, Count, Accept, AcceptPending, Goes, Becomes, Elsewhere
<1>3. Flush(w) \/ DropSync(w) \/ DropAsync(w) => Elsewhere(w)
  BY EndMoves DEF Flush, DropSync, DropAsync, Goes, Becomes, Elsewhere
<1>4. Check(w) => Joins(w)
  BY AllocationMoves DEF Check, Goes, Becomes, Joins
<1>5. Refuse(w) => Elsewhere(w)
  BY AllocationMoves DEF Refuse, Becomes, Elsewhere
<1>6. Add(w) \/ LateAdd(w) => Leaves(w)
  BY AllocationMoves DEF Add, LateAdd, Becomes, Leaves
<1>7. LateCheck(w) => Joins(w) \/ Elsewhere(w)
  BY AllocationMoves DEF LateCheck, Goes, Becomes, Joins, Elsewhere
<1>8. Truncate(w) \/ Free(w) \/ Sub(w) => Returns(w)
  BY AllocationMoves DEF Truncate, Free, Sub, Goes, Becomes, Returns
<1>9. QED
  BY <1>1, <1>2, <1>3, <1>4, <1>5, <1>6, <1>7, <1>8 DEF Steps

\* A product of sizes is a size, and grows with either.
LEMMA Products ==
  ASSUME NEW a \in Nat, NEW b \in Nat, NEW m \in Nat
  PROVE  /\ a * m \in Nat
         /\ a <= b => a * m <= b * m
         /\ (a + 1) * m = a * m + m
<1>1. a * m \in Nat /\ (a + 1) * m = a * m + m
  OBVIOUS
<1>2. ASSUME a <= b
      PROVE  a * m <= b * m
  <2>1. b - a \in Nat /\ (b - a) * m \in Nat
    BY <1>2
  <2>2. b * m = a * m + (b - a) * m
    OBVIOUS
  <2>3. QED
    BY <1>1, <2>1, <2>2
<1>3. QED
  BY <1>1, <1>2

\* A counter below its modulus does not wrap.
LEMMA Remainder ==
  ASSUME NEW n \in Nat, NEW m \in Nat, n < m
  PROVE  n % m = n
  OBVIOUS

\* An allocation of a writer is bounded, and there are no more of them than writers.
LEMMA Sizes ==
  ASSUME TypeOK, Counting
  PROVE  /\ \A w \in Adding : writer[w].allocation \in Nat /\ writer[w].allocation <= MaxAllocation
         /\ IsFiniteSet(Adding) /\ Cardinality(Adding) \in Nat
         /\ Cardinality(Adding) <= Cardinality(Writer)
<1>1. ASSUME NEW w \in Adding
      PROVE  writer[w].allocation \in Nat /\ writer[w].allocation <= MaxAllocation
  <2>1. w \in Writer /\ writer[w].pc \in {"add", "lateadd"} /\ Sound(w, writer[w])
    BY <1>1 DEF Adding, Counting
  <2>2. writer[w].allocation \in Nat /\ writer[w].chunk \in Nat /\ writer[w].flushing \in BOOLEAN
    BY <2>1 DEF TypeOK, WriterRecord
  <2>3. writer[w].allocation < Threshold + writer[w].chunk /\ writer[w].chunk <= MaxChunk
    BY <2>1, <2>2, Bounds DEF Sound
  <2>4. QED
    BY <2>2, <2>3, Bounds DEF MaxAllocation
<1>2. Adding \subseteq Writer
  BY DEF Adding
<1>3. QED
  BY <1>1, <1>2, Bounds, FS_Subset, FS_CardinalityType

\* As long as there is room, an allocation does not make the usage wrap around.
LEMMA NoWrap ==
  ASSUME TypeOK, Counting, Room, NEW w \in Adding
  PROVE  /\ disk_usage_cached + writer[w].allocation <= Ceiling
         /\ (disk_usage_cached + writer[w].allocation) % Modulus
              = disk_usage_cached + writer[w].allocation
<1> DEFINE k == Cardinality(Adding)
<1>1. PICK v \in Adding :
        disk_usage_cached + writer[v].allocation + (k - 1) * MaxAllocation <= Ceiling
  BY DEF Room
<1>2. /\ k \in Nat /\ k # 0 /\ disk_usage_cached \in Nat
      /\ writer[v].allocation \in Nat /\ writer[w].allocation \in Nat
      /\ writer[w].allocation <= MaxAllocation
  BY Sizes, Bounds, FS_EmptySet DEF TypeOK
<1>3. k - 1 \in Nat /\ (k - 1) * MaxAllocation \in Nat
  BY <1>2, Bounds, Products
<1>4. CASE k = 1
  <2>1. v = w
    BY <1>4, Sizes, FS_Singleton
  <2>2. disk_usage_cached + writer[w].allocation <= Ceiling
    BY <1>1, <1>2, <1>3, <2>1, Bounds
  <2>3. QED
    <3>1. disk_usage_cached + writer[w].allocation \in Nat
      BY <1>2
    <3>2. disk_usage_cached + writer[w].allocation < Modulus /\ Modulus \in Nat
      BY <3>1, <2>2, Bounds
    <3>3. QED
      BY <2>2, <3>1, <3>2, Remainder
<1>5. CASE k # 1
  <2>1. k - 2 \in Nat /\ (k - 2) * MaxAllocation \in Nat
    BY <1>2, <1>5, Bounds, Products
  <2>2. (k - 1) * MaxAllocation = (k - 2) * MaxAllocation + MaxAllocation
    <3>1. k - 1 = (k - 2) + 1
      BY <1>2
    <3>2. QED
      BY <2>1, <3>1, Bounds, Products
  <2>3. disk_usage_cached + writer[w].allocation <= Ceiling
    BY <1>1, <1>2, <2>1, <2>2, Bounds
  <2>4. QED
    <3>1. disk_usage_cached + writer[w].allocation \in Nat
      BY <1>2
    <3>2. disk_usage_cached + writer[w].allocation < Modulus /\ Modulus \in Nat
      BY <3>1, <2>3, Bounds
    <3>3. QED
      BY <2>3, <3>1, <3>2, Remainder
<1>6. QED
  BY <1>4, <1>5

\* No writer joins or leaves, and the usage does not grow.
LEMMA RoomStays ==
  ASSUME TypeOK, Counting, TypeOK', Room, Adding' = Adding, disk_usage_cached' <= disk_usage_cached,
         \A u \in Adding : writer'[u] = writer[u]
  PROVE  Room'
<1> DEFINE x == (Cardinality(Adding) - 1) * MaxAllocation
<1>1. disk_usage_cached \in Nat /\ disk_usage_cached' \in Nat /\ Ceiling \in Int
  BY Bounds DEF TypeOK
<1>2. CASE Adding = {}
  BY <1>1, <1>2 DEF Room
<1>3. CASE Adding # {}
  <2>1. PICK v \in Adding : disk_usage_cached + writer[v].allocation + x <= Ceiling
    BY <1>3 DEF Room
  <2>2. x \in Int /\ writer[v].allocation \in Nat
    BY Sizes, Bounds
  <2>3. disk_usage_cached' + writer'[v].allocation + x <= Ceiling
    <3> HIDE DEF x
    <3>1. QED
      BY <1>1, <2>1, <2>2
  <2>4. QED
    BY <1>3, <2>3 DEF Room
<1>4. QED
  BY <1>2, <1>3

\* A writer that joins has just found that its allocation fits below the limit.
LEMMA RoomJoins ==
  ASSUME TypeOK, Counting, TypeOK', Counting', NEW w \in Writer, Others(w), Joins(w)
  PROVE  Room'
<1> DEFINE k == Cardinality(Adding')
           N == Cardinality(Writer)
<1>1. w \in Adding' /\ Adding' # {}
  BY DEF Joins, Allocating, Adding
<1>2. k \in Nat /\ k <= N /\ k # 0
  <2>1. \A S : S \subseteq Writer => /\ IsFiniteSet(S) /\ Cardinality(S) \in Nat
                                     /\ Cardinality(S) <= Cardinality(Writer)
    BY Bounds, FS_Subset, FS_CardinalityType
  <2>2. Adding' \subseteq Writer
    BY DEF Adding
  <2>3. QED
    BY <1>1, <2>1, <2>2, FS_EmptySet
<1>3. /\ disk_usage_cached' + writer'[w].allocation <= Limit
      /\ disk_usage_cached' \in Nat /\ writer'[w].allocation \in Nat
  BY Bounds DEF Joins, Fits, Unchanged, TypeOK, WriterRecord
<1>4. (k - 1) * MaxAllocation <= (N - 1) * MaxAllocation
  <2>1. k - 1 \in Nat /\ N - 1 \in Nat /\ k - 1 <= N - 1
    BY <1>2, Bounds
  <2>2. QED
    BY <2>1, Bounds, Products
<1>5. disk_usage_cached' + writer'[w].allocation + (k - 1) * MaxAllocation <= Ceiling
  <2> DEFINE x == (k - 1) * MaxAllocation
             y == (N - 1) * MaxAllocation
  <2>1. x \in Int /\ y \in Int /\ x <= y
    BY <1>2, <1>4, Bounds
  <2>2. Ceiling = Limit + y
    BY DEF Ceiling
  <2> HIDE DEF x, y
  <2>3. disk_usage_cached' + writer'[w].allocation + x <= Ceiling
    BY <1>3, <2>1, <2>2, Bounds
  <2>4. QED
    BY <2>3 DEF x
<1>6. QED
  BY <1>1, <1>5 DEF Room

\* A writer that leaves has added no more than was kept for it.
LEMMA RoomLeaves ==
  ASSUME TypeOK, Counting, TypeOK', Counting', Room, NEW w \in Writer, Others(w), Leaves(w)
  PROVE  Room'
<1> DEFINE k == Cardinality(Adding)
           a == writer[w].allocation
<1>1. w \in Adding /\ Adding' = Adding \ {w}
  BY DEF Leaves, Allocating, Adding, Others
<1>2. disk_usage_cached' = disk_usage_cached + a /\ disk_usage_cached' <= Ceiling
  BY <1>1, NoWrap DEF Leaves
<1>3. /\ k \in Nat /\ Cardinality(Adding') = k - 1 /\ IsFiniteSet(Adding')
      /\ a \in Nat /\ a <= MaxAllocation /\ disk_usage_cached \in Nat
  BY <1>1, Sizes, FS_RemoveElement DEF TypeOK
<1>4. CASE Adding' = {}
  BY <1>2, <1>4 DEF Room
<1>5. CASE Adding' # {}
  <2>1. k - 2 \in Nat /\ (k - 2) * MaxAllocation \in Nat
    <3>1. k - 1 \in Nat /\ k - 1 # 0
      BY <1>3, <1>5, FS_EmptySet, FS_CardinalityType
    <3>2. k - 2 \in Nat
      BY <1>3, <3>1
    <3>3. QED
      BY <3>2, Bounds, Products
  <2>2. (k - 1) * MaxAllocation = (k - 2) * MaxAllocation + MaxAllocation
    <3>1. k - 1 = (k - 2) + 1
      BY <1>3
    <3>2. QED
      BY <2>1, <3>1, Bounds, Products
  <2>3. PICK v \in Adding :
          disk_usage_cached + writer[v].allocation + (k - 1) * MaxAllocation <= Ceiling
    BY <1>1 DEF Room
  <2>4. PICK u \in Adding' : u = v \/ v = w
    BY <1>1, <1>5
  <2>5. u \in Adding /\ u \in Writer /\ u # w /\ writer'[u] = writer[u]
    BY <1>1, <2>4 DEF Others, Adding
  <2>6. /\ writer[u].allocation \in Nat /\ writer[u].allocation <= MaxAllocation
        /\ writer[v].allocation \in Nat
    BY <2>5, Sizes
  <2>7. disk_usage_cached' + writer'[u].allocation + (k - 2) * MaxAllocation <= Ceiling
    <3> DEFINE x == (k - 2) * MaxAllocation
               y == (k - 1) * MaxAllocation
               b == writer[u].allocation
               c == writer[v].allocation
    <3>1. /\ x \in Nat /\ y = x + MaxAllocation /\ a \in Nat /\ b \in Nat /\ c \in Nat
          /\ a <= MaxAllocation /\ b <= MaxAllocation /\ disk_usage_cached \in Nat
          /\ disk_usage_cached + c + y <= Ceiling
      BY <1>3, <2>1, <2>2, <2>3, <2>6
    <3>2. b = c \/ a = c
      BY <2>4
    <3> HIDE DEF x, y, a, b, c
    <3>3. disk_usage_cached + a + b + x <= Ceiling
      BY <3>1, <3>2, Bounds
    <3>4. QED
      BY <1>2, <2>5, <3>3 DEF a, b, x
  <2>8. Cardinality(Adding') - 1 = k - 2
    BY <1>3
  <2>9. QED
    BY <1>5, <2>7, <2>8 DEF Room
<1>6. QED
  BY <1>4, <1>5

\* Giving space back never adds to the usage.
LEMMA ReturnsLower ==
  ASSUME TypeOK, Returned, NEW w \in Writer, Returns(w)
  PROVE  /\ disk_usage_cached' <= disk_usage_cached
         /\ Sub(w) => disk_usage_cached' = disk_usage_cached - writer[w].accepted
         /\ allocated' = allocated
<1>1. disk_usage_cached \in Nat /\ disk_usage_cached < Modulus /\ writer[w].accepted \in Nat
  BY Bounds DEF TypeOK, WriterRecord
<1>2. CASE Truncate(w)
  BY <1>1, <1>2 DEF Truncate, Sub, At
<1>3. CASE Free(w)
  BY <1>1, <1>3 DEF Free, Sub, At
<1>4. CASE Sub(w)
  <2>1. writer[w].accepted <= disk_usage_cached
    BY <1>4 DEF Returned, Sub, At
  <2>2. /\ disk_usage_cached - writer[w].accepted \in Nat
        /\ disk_usage_cached - writer[w].accepted < Modulus /\ Modulus \in Nat
    BY <1>1, <2>1, Bounds
  <2>3. disk_usage_cached' = disk_usage_cached - writer[w].accepted
    BY <1>4, <2>2, Remainder DEF Sub
  <2>4. QED
    BY <1>1, <1>4, <2>3 DEF Sub
<1>5. QED
  BY <1>2, <1>3, <1>4 DEF Returns

\* Every step keeps the bound on what overshoots the quota.
LEMMA RoomStep ==
  ASSUME TypeOK, Counting, TypeOK', Counting', Room, Returned, NEW w \in Writer, Steps(w)
  PROVE  Room'
<1>1. Others(w) /\ disk_usage_cached \in Nat
  BY OnlyWriter, Bounds DEF TypeOK
<1>2. CASE Joins(w)
  BY <1>1, <1>2, RoomJoins
<1>3. CASE Leaves(w)
  BY <1>1, <1>3, RoomLeaves
<1>4. CASE Returns(w) \/ Elsewhere(w)
  <2>1. Adding' = Adding /\ \A u \in Adding : writer'[u] = writer[u]
    BY <1>1, <1>4 DEF Returns, Elsewhere, Adding, Allocating, Giving, Others
  <2>2. disk_usage_cached' <= disk_usage_cached
    BY <1>1, <1>4, ReturnsLower DEF Elsewhere, Unchanged
  <2>3. QED
    BY <2>1, <2>2, RoomStays
<1>5. QED
  BY <1>2, <1>3, <1>4, Kinds

LEMMA ReturnedStep ==
  ASSUME TypeOK, Counting, TypeOK', Room, Returned, ~overlap', NEW w \in Writer, Steps(w)
  PROVE  Returned'
<1>1. /\ Others(w) /\ disk_usage_cached \in Nat /\ disk_usage_cached' \in Nat /\ allocated \in Nat
      /\ \A u \in Writer : writer[u].accepted \in Nat /\ writer[u].allocation \in Nat
  BY OnlyWriter, Bounds DEF TypeOK, WriterRecord
<1>2. CASE Joins(w) \/ Elsewhere(w)
  <2>1. Freeing' = Freeing /\ \A u \in Writer : writer'[u].pc = "sub" => writer'[u] = writer[u]
    BY <1>1, <1>2 DEF Joins, Elsewhere, Freeing, Allocating, Giving, Others
  <2>2. QED
    BY <1>2, <2>1 DEF Returned, Joins, Elsewhere, Unchanged
<1>3. CASE Leaves(w)
  <2>1. Freeing' = Freeing /\ \A u \in Writer : writer'[u].pc = "sub" => writer'[u] = writer[u]
    BY <1>1, <1>3 DEF Leaves, Freeing, Allocating, Giving, Others
  <2>2. w \in Adding
    BY <1>3 DEF Leaves, Allocating, Adding
  <2>3. disk_usage_cached' = disk_usage_cached + writer[w].allocation
    BY <1>3, <2>2, NoWrap DEF Leaves
  <2>4. disk_usage_cached' <= allocated' /\ disk_usage_cached <= disk_usage_cached'
    BY <1>1, <1>3, <2>3 DEF Leaves, Returned
  <2>5. \A u \in Writer : writer'[u].pc = "sub" => writer'[u].accepted <= disk_usage_cached'
    BY <1>1, <2>1, <2>4 DEF Returned
  <2>6. QED
    BY <2>1, <2>4, <2>5 DEF Returned
<1>4. CASE Returns(w)
  <2>1. disk_usage_cached' <= disk_usage_cached /\ allocated' = allocated
    BY <1>4, ReturnsLower
  <2>2. disk_usage_cached' <= allocated'
    BY <1>1, <2>1 DEF Returned
  <2>3. CASE Truncate(w)
    <3>1. Freeing = {}
      BY <2>3 DEF Truncate, Freeing
    <3>2. Goes(w, "free")
      BY <2>3, AllocationMoves
    <3>3. Freeing' = {w} /\ \A u \in Writer : writer'[u].pc # "sub"
      BY <1>1, <3>1, <3>2 DEF Freeing, Goes, Becomes, Others
    <3>4. QED
      BY <2>2, <3>3 DEF Returned
  <2>4. CASE Free(w)
    <3>1. w \in Freeing
      BY <2>4 DEF Free, At, Freeing
    <3>2. Freeing = {w}
      BY <3>1 DEF Returned
    <3>3. Goes(w, IF disk_usage_cached >= writer[w].accepted THEN "sub" ELSE "gone")
      BY <2>4, AllocationMoves
    <3>4. \A u \in Writer : u # w => writer'[u].pc \notin {"free", "sub"}
      BY <1>1, <3>2 DEF Freeing, Others
    <3>5. writer'[w].pc = "sub" => writer'[w].accepted <= disk_usage_cached'
      BY <1>1, <2>4, <3>3 DEF Goes, Becomes, Free
    <3>6. Freeing' \subseteq {w}
      BY <3>4 DEF Freeing
    <3>7. QED
      BY <2>2, <3>4, <3>5, <3>6 DEF Returned
  <2>5. CASE Sub(w)
    <3>1. w \in Freeing
      BY <2>5 DEF Sub, At, Freeing
    <3>2. Freeing = {w}
      BY <3>1 DEF Returned
    <3>3. Goes(w, "gone")
      BY <2>5, AllocationMoves
    <3>4. \A u \in Writer : writer'[u].pc \notin {"free", "sub"}
      BY <1>1, <3>2, <3>3 DEF Freeing, Others, Goes, Becomes
    <3>5. Freeing' = {}
      BY <3>4 DEF Freeing
    <3>6. QED
      BY <2>2, <3>4, <3>5 DEF Returned
  <2>6. QED
    BY <1>4, <2>3, <2>4, <2>5 DEF Returns
<1>5. QED
  BY <1>2, <1>3, <1>4, Kinds

(***************************************************************************)
(* The results                                                             *)
(***************************************************************************)
LEMMA InvInit == Init => Inv
<1>1. SUFFICES ASSUME Init PROVE Inv
  OBVIOUS
<1>2. New \in WriterRecord
  BY DEF New, WriterRecord, PC
<1>3. /\ \A w \in Writer : writer[w] = New /\ counted[w] = 0
      /\ disk_usage_cached = 0 /\ allocated = 0
  BY <1>1 DEF Init
<1>4. TypeOK
  <2>1. disk_usage_cached \in 0..(Modulus - 1) /\ allocated \in Nat
    BY <1>3, Bounds
  <2>2. writer \in [Writer -> WriterRecord] /\ counted \in [Writer -> Nat]
    BY <1>1, <1>2 DEF Init
  <2>3. overlap \in BOOLEAN
    BY <1>1 DEF Init
  <2>4. QED
    BY <2>1, <2>2, <2>3 DEF TypeOK
<1>5. Counting
  <2>1. \A w \in Writer : Sound(w, New) /\ Covered(New, 0) /\ Lagging(New, 0)
    BY Bounds DEF Sound, Covered, Lagging, New
  <2>2. QED
    BY <1>3, <2>1 DEF Counting
<1>6. Adding = {} /\ Freeing = {} /\ \A w \in Writer : writer[w].pc # "sub"
  BY <1>3 DEF Adding, Freeing, New
<1>7. Room /\ Returned
  BY <1>3, <1>6, Bounds DEF Room, Returned
<1>8. QED
  BY <1>4, <1>5, <1>7 DEF Inv

\* Every step keeps the whole invariant.
LEMMA InvStep == Inv /\ [Next]_vars => Inv'
<1>1. ASSUME Inv, NEW w \in Writer, Steps(w)
      PROVE  Inv'
  <2>1. TypeOK /\ Counting /\ TypeOK'
    BY <1>1, TypeStep DEF Inv
  <2>2. Counting'
    BY <1>1, <2>1, CountingStep
  <2>3. ~overlap' => ~overlap
    BY <1>1, <2>1
       DEF Steps, Open, Write, Count, Accept, AcceptPending, Flush, DropSync, DropAsync, Check,
           Refuse, Add, LateCheck, LateAdd, Truncate, Free, Sub, Unchanged
  <2>4. ASSUME ~overlap'
        PROVE  Room' /\ Returned'
    <3>1. Room /\ Returned
      BY <1>1, <2>3, <2>4 DEF Inv
    <3>2. QED
      BY <1>1, <2>1, <2>2, <2>4, <3>1, RoomStep, ReturnedStep
  <2>5. QED
    BY <2>1, <2>2, <2>4 DEF Inv
<1>2. ASSUME Inv, UNCHANGED vars
      PROVE  Inv'
  BY <1>2 DEF vars, Inv, TypeOK, Counting, Sound, Covered, Lagging, Room, Returned, Adding, Freeing
<1>3. QED
  BY <1>1, <1>2 DEF Next

\* So the quota invariant always holds.
LEMMA Invariant == Spec => []Inv
  BY InvInit, InvStep, PTL DEF Spec

\* A byte in a file has been allocated, or is about to be, until its writer fails or is
\* dropped: a poll that is repeated and a write that was taken in part count bytes twice,
\* and never lose one.
THEOREM AllIsCounted == Spec => []NothingUncounted
<1>1. Inv => NothingUncounted
  BY DEF Inv, Counting, Covered, NothingUncounted
<1>2. QED
  BY <1>1, Invariant, PTL

\* However a writer ends (an error, a drop in the middle of a write, an allocation nobody
\* hears of), less than one threshold of its file has not been allocated.
THEOREM LossIsBounded == Spec => []LossBounded
<1>1. Inv => LossBounded
  BY DEF Inv, Counting, Lagging, LossBounded
<1>2. QED
  BY <1>1, Invariant, PTL

\* Writers that look at the usage before any of them has added to it exceed the limit by
\* one allocation each, the last of them excepted, and no interleaving takes it further.
THEOREM OvershootIsBounded == Spec => []OvershootBounded
<1>1. ASSUME Inv, ~overlap
      PROVE  disk_usage_cached <= Ceiling
  <2>1. Room /\ TypeOK /\ Counting /\ disk_usage_cached \in Nat
    BY <1>1, Bounds DEF Inv, TypeOK
  <2>2. CASE Adding = {}
    BY <2>1, <2>2 DEF Room
  <2>3. CASE Adding # {}
    <3>1. PICK w \in Adding : w \in Adding
      BY <2>3
    <3>2. writer[w].allocation \in Nat /\ disk_usage_cached + writer[w].allocation <= Ceiling
      BY <2>1, <3>1, Sizes, NoWrap
    <3>3. QED
      BY <2>1, <3>2, Bounds
  <2>4. QED
    BY <2>2, <2>3
<1>2. Inv => OvershootBounded
  BY <1>1 DEF OvershootBounded
<1>3. QED
  BY <1>2, Invariant, PTL

\* Type correctness, and: as long as files are deleted one at a time, the usage is never
\* more than what has been allocated, hence never wraps below zero.
THEOREM UsageStaysCounted == Spec => []NoUnderflow
<1>1. Inv => NoUnderflow
  BY DEF Inv, Returned, NoUnderflow
<1>2. QED
  BY <1>1, Invariant, PTL

(***************************************************************************)
(* Files: the inductive invariant                                          *)
(*                                                                         *)
(* The lock keeps a session out because the steps it has queued are those  *)
(* of one request, accepted before the lock.  That this is so needs that   *)
(* a session without an open channel has queued none, and that a panic     *)
(* which closes it drops them; that the number of handles stays bounded    *)
(* needs that the room found for a handle is still there when its step     *)
(* comes.  The rest is what makes the values of the steps be of their      *)
(* types: a handle that is linked finds its file through every move and    *)
(* removal.                                                                *)
(***************************************************************************)
\* Files are in directories.
DiskSound ==
  /\ DOMAIN files \subseteq Path /\ \A p \in DOMAIN files : files[p] \in 0..MaxSize
  /\ dirs \subseteq Path
  /\ \A p \in DOMAIN files \cup dirs : Parent(p) \in dirs \cup {Root}

\* A handle whose file is still linked knows where.
HandlesSound ==
  /\ DOMAIN handles = Session
  /\ \A s \in Session :
       /\ DOMAIN handles[s] \subseteq Nat /\ IsFiniteSet(DOMAIN handles[s])
       /\ Cardinality(DOMAIN handles[s]) <= HandleLimit
       /\ \A id \in DOMAIN handles[s] :
            /\ handles[s][id] \in HandleRecord
            /\ handles[s][id].linked => handles[s][id].at \in DOMAIN files

Usages(t) == \A p \in DOMAIN t : p \in Path /\ t[p] \in Nat

UsageSound ==
  /\ Usages(tree) /\ cached \in Nat
  /\ scanner \in [pc : {"read", "store"}, unread : SUBSET (Path \cup {Root}), found : {scanner.found},
                  root : Nat]
  /\ Usages(scanner.found)

\* A step of n that c has queued finds what was seen to before, among the handles hs.
PreparedFor(c, x, n, hs) ==
  /\ x.do \in {"put", "write"} => x.n \in 1..MaxSize
  /\ c \in Session /\ x.do = "open" => n = 1 /\ Cardinality(DOMAIN hs) < HandleLimit
  /\ c \in Session /\ x.do = "write" => x.id \in DOMAIN hs /\ hs[x.id].kind = "file"

Prepared(c, x) == PreparedFor(c, x, Len(todo[c]), handles[c])

TodoSound ==
  /\ todo \in [Client -> Seq(StepRecord)]
  /\ \A c \in Client : \A i \in 1..Len(todo[c]) : Prepared(c, todo[c][i])

LockSound ==
  /\ session \in [Session -> {"none", "auth", "open", "closed"}]
  /\ handle_id \in [Session -> Nat]
  /\ locked \in BOOLEAN
  /\ excused \in [Session -> BOOLEAN]
  /\ intruded = FALSE
  /\ \A s \in Session : todo[s] # <<>> => session[s] = "open" /\ (locked => excused[s])

FilesInvariant == DiskSound /\ HandlesSound /\ UsageSound /\ TodoSound /\ LockSound

(***************************************************************************)
(* Paths                                                                   *)
(***************************************************************************)
\* Sequences of up to two elements.
LEMMA Slices ==
  ASSUME NEW x, NEW y
  PROVE  /\ SubSeq(<<>>, 1, 0) = <<>>
         /\ SubSeq(<<x>>, 1, 0) = <<>> /\ SubSeq(<<x>>, 1, 1) = <<x>> /\ SubSeq(<<x>>, 2, 1) = <<>>
         /\ SubSeq(<<x, y>>, 1, 0) = <<>> /\ SubSeq(<<x, y>>, 1, 1) = <<x>>
         /\ SubSeq(<<x, y>>, 1, 2) = <<x, y>>
         /\ SubSeq(<<x, y>>, 2, 2) = <<y>> /\ SubSeq(<<x, y>>, 3, 2) = <<>>
<1>1. <<x>> \in Seq({x, y}) /\ <<y>> \in Seq({x, y}) /\ <<x, y>> \in Seq({x, y}) /\ <<>> \in Seq({x, y})
  OBVIOUS
<1>2. SubSeq(<<x, y>>, 1, 1) \in Seq({x, y}) /\ Len(SubSeq(<<x, y>>, 1, 1)) = 1 /\ SubSeq(<<x, y>>, 1, 1)[1] = x
  OBVIOUS
<1>3. SubSeq(<<x, y>>, 2, 2) \in Seq({x, y}) /\ Len(SubSeq(<<x, y>>, 2, 2)) = 1 /\ SubSeq(<<x, y>>, 2, 2)[1] = y
  OBVIOUS
<1>4. SubSeq(<<x, y>>, 1, 1) = <<x>>
  <2> DEFINE s == SubSeq(<<x, y>>, 1, 1)
             t == <<x>>
  <2>1. Len(s) = Len(t) /\ \A i \in 1..Len(s) : s[i] = t[i]
    BY <1>2
  <2>2. s \in Seq({x, y}) /\ t \in Seq({x, y})
    BY <1>1, <1>2
  <2> HIDE DEF s, t
  <2>3. s = t
    BY <2>1, <2>2, SeqEqual
  <2>4. QED
    BY <2>3 DEF s, t
<1>5. SubSeq(<<x, y>>, 2, 2) = <<y>>
  <2> DEFINE s == SubSeq(<<x, y>>, 2, 2)
             t == <<y>>
  <2>1. Len(s) = Len(t) /\ \A i \in 1..Len(s) : s[i] = t[i]
    BY <1>3
  <2>2. s \in Seq({x, y}) /\ t \in Seq({x, y})
    BY <1>1, <1>3
  <2> HIDE DEF s, t
  <2>3. s = t
    BY <2>1, <2>2, SeqEqual
  <2>4. QED
    BY <2>3 DEF s, t
<1>6. SubSeq(<<>>, 1, 0) = <<>> /\ SubSeq(<<x>>, 1, 0) = <<>> /\ SubSeq(<<x>>, 2, 1) = <<>> /\ SubSeq(<<x, y>>, 1, 0) = <<>>
         /\ SubSeq(<<x, y>>, 3, 2) = <<>>
  BY SubSeqEmpty
<1>7. SubSeq(<<x>>, 1, 1) = <<x>> /\ SubSeq(<<x, y>>, 1, 2) = <<x, y>>
  BY <1>1, SubSeqFull
<1>8. QED
  BY <1>4, <1>5, <1>6, <1>7

\* Sequences of one and two elements, appended.
LEMMA Joined ==
  ASSUME NEW x, NEW y
  PROVE  /\ <<>> \o <<x>> = <<x>> /\ <<x>> \o <<>> = <<x>> 
         /\ <<x>> \o <<y>> = <<x, y>> /\ <<x, y>> \o <<>> = <<x, y>>
<1>1. <<x>> \in Seq({x, y}) /\ <<y>> \in Seq({x, y}) /\ <<x, y>> \in Seq({x, y}) /\ <<>> \in Seq({x, y})
  OBVIOUS
<1>2. Len(<<x>> \o <<y>>) = 2 /\ (<<x>> \o <<y>>)[1] = x /\ (<<x>> \o <<y>>)[2] = y /\ (<<x>> \o <<y>>) \in Seq({x, y})
  BY <1>1, ConcatProperties
<1>3. <<x>> \o <<y>> = <<x, y>>
  <2> DEFINE s == <<x>> \o <<y>>
             t == <<x, y>>
  <2>1. Len(s) = Len(t) /\ \A i \in 1..Len(s) : s[i] = t[i]
    BY <1>2
  <2>2. s \in Seq({x, y}) /\ t \in Seq({x, y})
    BY <1>1, <1>2
  <2> HIDE DEF s, t
  <2>3. s = t
    BY <2>1, <2>2, SeqEqual
  <2>4. QED
    BY <2>3 DEF s, t
<1>4. QED
  BY <1>1, <1>3, ConcatEmptySeq

\* The parent of a name in the base directory is that directory.
LEMMA ParentForms ==
  ASSUME NEW x, NEW y
  PROVE  /\ Len(<<x>>) = 1 /\ Len(<<x, y>>) = 2 /\ <<x>> # Root /\ <<x, y>> # Root /\ <<x>> # <<x, y>>
         /\ Parent(<<x>>) = Root /\ Parent(<<x, y>>) = <<x>>
<1>1. /\ Len(<<x>>) = 1 /\ Len(<<x, y>>) = 2 /\ <<x>> # Root /\ <<x, y>> # Root /\ <<x>> # <<x, y>>
      /\ 1 - 1 = 0 /\ 2 - 1 = 1
  BY DEF Root
<1>2. SubSeq(<<x>>, 1, 0) = <<>> /\ SubSeq(<<x, y>>, 1, 1) = <<x>>
  BY Slices
<1>3. QED
  BY <1>1, <1>2 DEF Parent, Front, Root

\* A path has one name or two.
LEMMA PathForms ==
  ASSUME NEW p \in Path
  PROVE  \/ \E x \in Folder : p = <<x>>
         \/ \E x \in Folder, y \in File : p = <<x, y>>
BY DEF Path

\* A path is a sequence, and not empty.
LEMMA PathIsSeq ==
  ASSUME NEW p \in Path
  PROVE  p \in Seq(Folder \cup File) /\ p # Root /\ Len(p) \in 1..2
<1>1. ASSUME NEW x \in Folder, p = <<x>>
      PROVE  p \in Seq(Folder \cup File) /\ p # Root /\ Len(p) \in 1..2
  BY <1>1 DEF Root
<1>2. ASSUME NEW x \in Folder, NEW y \in File, p = <<x, y>>
      PROVE  p \in Seq(Folder \cup File) /\ p # Root /\ Len(p) \in 1..2
  BY <1>2 DEF Root
<1>3. QED
  BY <1>1, <1>2, PathForms

\* What is above a path: nothing of the base directory, the base directory of a name in
\* it, that name of a name one level below.
LEMMA Parents ==
  /\ Parent(Root) = Root
  /\ \A p \in Path : Parent(p) \in Path \cup {Root} /\ Parent(p) # p
  /\ \A p \in Path : Parent(p) # Root => Parent(Parent(p)) = Root
<1>1. Parent(Root) = Root
  BY DEF Parent, Front, Root
<1>2. ASSUME NEW x \in Folder
      PROVE  Parent(<<x>>) = Root /\ <<x>> # Root /\ <<x>> \in Path
  BY DEF Parent, Front, Root, Path
<1>3. ASSUME NEW x \in Folder, NEW y \in File
      PROVE  Parent(<<x, y>>) = <<x>> /\ <<x, y>> # <<x>>
  BY ParentForms
<1>4. ASSUME NEW p \in Path
      PROVE  /\ Parent(p) \in Path \cup {Root} /\ Parent(p) # p
             /\ Parent(p) # Root => Parent(Parent(p)) = Root
  <2>1. CASE \E x \in Folder : p = <<x>>
    BY <2>1, <1>1, <1>2
  <2>2. CASE \E x \in Folder, y \in File : p = <<x, y>>
    BY <2>2, <1>2, <1>3
  <2>3. QED
    BY <2>1, <2>2, PathForms
<1>5. QED
  BY <1>1, <1>4

\* What is above a path: the base directory, its parent, itself.
LEMMA PrefixForms ==
  ASSUME NEW p \in Path \cup {Root}, NEW q \in Path \cup {Root}
  PROVE  IsPrefix(p, q) <=> p = Root \/ p = q \/ p = Parent(q)
<1>1. CASE p = Root
  <2>1. Len(Root) = 0 /\ Len(q) >= 0
    BY PathIsSeq DEF Root
  <2>2. SubSeq(Root, 1, 0) = Root /\ SubSeq(q, 1, 0) = Root
    BY SubSeqEmpty DEF Root
  <2>3. QED
    BY <1>1, <2>1, <2>2 DEF IsPrefix
<1>2. CASE p # Root /\ q = Root
  BY <1>2, PathIsSeq, Parents DEF IsPrefix, Root
<1>3. ASSUME NEW x \in Folder, p = <<x>>, NEW z \in Folder, q = <<z>>
      PROVE  IsPrefix(p, q) <=> p = Root \/ p = q \/ p = Parent(q)
  <2>1. SubSeq(<<x>>, 1, 1) = <<x>> /\ SubSeq(<<z>>, 1, 1) = <<z>> /\ SubSeq(<<z>>, 1, 0) = <<>>
    BY Slices
  <2>2. Len(<<x>>) = 1 /\ Len(<<z>>) = 1 /\ <<x>> # <<>>
    OBVIOUS
  <2>3. QED
    BY <1>3, <2>1, <2>2 DEF IsPrefix, Parent, Front, Root
<1>4. ASSUME NEW x \in Folder, p = <<x>>, NEW z \in Folder, NEW w \in File, q = <<z, w>>
      PROVE  IsPrefix(p, q) <=> p = Root \/ p = q \/ p = Parent(q)
  <2>1. SubSeq(<<x>>, 1, 1) = <<x>> /\ SubSeq(<<z, w>>, 1, 1) = <<z>>
    BY Slices
  <2>2. Len(<<x>>) = 1 /\ Len(<<z, w>>) = 2 /\ <<x>> # <<>> /\ <<x>> # <<z, w>>
    OBVIOUS
  <2>3. QED
    BY <1>4, <2>1, <2>2 DEF IsPrefix, Parent, Front, Root
<1>5. ASSUME NEW x \in Folder, NEW y \in File, p = <<x, y>>, NEW z \in Folder, q = <<z>>
      PROVE  IsPrefix(p, q) <=> p = Root \/ p = q \/ p = Parent(q)
  <2>1. SubSeq(<<z>>, 1, 0) = <<>>
    BY Slices
  <2>2. Len(<<x, y>>) = 2 /\ Len(<<z>>) = 1 /\ <<x, y>> # <<>> /\ <<x, y>> # <<z>>
    OBVIOUS
  <2>3. QED
    BY <1>5, <2>1, <2>2 DEF IsPrefix, Parent, Front, Root
<1>6. ASSUME NEW x \in Folder, NEW y \in File, p = <<x, y>>,
             NEW z \in Folder, NEW w \in File, q = <<z, w>>
      PROVE  IsPrefix(p, q) <=> p = Root \/ p = q \/ p = Parent(q)
  <2>1. SubSeq(<<x, y>>, 1, 2) = <<x, y>> /\ SubSeq(<<z, w>>, 1, 2) = <<z, w>> /\ SubSeq(<<z, w>>, 1, 1) = <<z>>
    BY Slices
  <2>2. Len(<<x, y>>) = 2 /\ Len(<<z, w>>) = 2 /\ <<x, y>> # <<>> /\ <<x, y>> # <<z>>
    OBVIOUS
  <2>3. QED
    BY <1>6, <2>1, <2>2 DEF IsPrefix, Parent, Front, Root
<1>7. CASE p \in Path /\ q \in Path
  <2>1. CASE \E x \in Folder : p = <<x>>
    <3>1. PICK x \in Folder : p = <<x>>
      BY <2>1
    <3>2. QED
      BY <1>3, <1>4, <1>7, <3>1, PathForms
  <2>2. CASE \E x \in Folder, y \in File : p = <<x, y>>
    <3>1. PICK x \in Folder, y \in File : p = <<x, y>>
      BY <2>2
    <3>2. QED
      BY <1>5, <1>6, <1>7, <3>1, PathForms
  <2>3. QED
    BY <1>7, <2>1, <2>2, PathForms
<1>8. p = Root \/ (p # Root /\ q = Root) \/ (p \in Path /\ q \in Path)
  OBVIOUS
<1>9. QED
  BY <1>1, <1>2, <1>7, <1>8

\* update_size makes entries for a path and its parent, not for the base directory.
LEMMA OnPaths ==
  ASSUME NEW p \in Path \cup {Root}
  PROVE  OnPath(p) = {p, Parent(p)} \ {Root}
<1>1. CASE p = Root
  BY <1>1, Parents DEF OnPath, Root
<1>2. ASSUME NEW x \in Folder, p = <<x>>
      PROVE  OnPath(p) = {p, Parent(p)} \ {Root}
  <2>1. SubSeq(<<x>>, 1, 1) = <<x>> /\ SubSeq(<<x>>, 1, 0) = <<>>
    BY Slices
  <2>2. Len(<<x>>) = 1 /\ <<x>> # <<>> /\ 1..1 = {1}
    OBVIOUS
  <2>3. QED
    BY <1>2, <2>1, <2>2 DEF OnPath, Parent, Front, Root
<1>3. ASSUME NEW x \in Folder, NEW y \in File, p = <<x, y>>
      PROVE  OnPath(p) = {p, Parent(p)} \ {Root}
  <2>1. SubSeq(<<x, y>>, 1, 1) = <<x>> /\ SubSeq(<<x, y>>, 1, 2) = <<x, y>>
    BY Slices
  <2>2. Len(<<x, y>>) = 2 /\ <<x, y>> # <<>> /\ <<x>> # <<>> /\ 1..2 = {1, 2}
    OBVIOUS
  <2>3. QED
    BY <1>3, <2>1, <2>2 DEF OnPath, Parent, Front, Root
<1>4. QED
  BY <1>1, <1>2, <1>3, PathForms

\* What is moved with p to q: below p, it gets below q, and from there one finds back.
Hung(p, q, r) == q \o SubSeq(r, Len(p) + 1, Len(r))

\* What hung below p hangs below q, and From undoes what Onto does (rename).
LEMMA Hangs ==
  ASSUME NEW p \in Path, NEW q \in Path, NEW r \in Path, NEW m \in Path,
         IsPrefix(p, r), m = Hung(p, q, r)
  PROVE  /\ r = p => m = q
         /\ r # p => Parent(r) = p /\ Parent(m) = q /\ m # q
         /\ Hung(q, p, m) = r
<1>1. IsPrefix(p, r) /\ m = q \o SubSeq(r, Len(p) + 1, Len(r))
  BY DEF Hung
<1>2. ASSUME NEW v \in Path
      PROVE  v \in Seq(Folder \cup File) /\ Len(v) \in Nat /\ v \o <<>> = v
             /\ SubSeq(v, Len(v) + 1, Len(v)) = <<>>
  BY PathIsSeq, ConcatEmptySeq, SubSeqEmpty
<1>3. CASE r = p
  <2>1. m = q
    BY <1>1, <1>2, <1>3
  <2>2. p \o SubSeq(q, Len(q) + 1, Len(q)) = p
    BY <1>2
  <2>3. QED
    BY <1>3, <2>1, <2>2 DEF Hung
<1>4. CASE r # p
  <2>1. p = Parent(r) /\ r # Root /\ p # Root
    BY <1>1, <1>4, PrefixForms, PathIsSeq
  <2>2. PICK x \in Folder, y \in File : r = <<x, y>>
    BY <2>1, PathForms, ParentForms
  <2>3. p = <<x>> /\ Len(p) = 1 /\ Len(r) = 2
    <3>1. Parent(<<x, y>>) = <<x>> /\ Len(<<x>>) = 1 /\ Len(<<x, y>>) = 2
      BY ParentForms
    <3>2. QED
      BY <2>1, <2>2, <3>1, Zenon
  <2>4. m = q \o <<y>>
    <3>1. SubSeq(r, 2, 2) = <<y>>
      BY <2>2, Slices
    <3>2. Len(p) + 1 = 2
      BY <2>3
    <3>3. m = q \o SubSeq(r, 2, 2)
      <4> HIDE DEF Path
      <4>1. QED
        BY <1>1, <2>3, <3>2, Zenon
    <3>4. QED
      BY <3>1, <3>3, Zenon
  <2>5. PICK z \in Folder : q = <<z>>
    <3>1. ASSUME NEW z \in Folder, NEW w \in File, q = <<z, w>>
          PROVE  FALSE
      <4>1. q \in Seq({y, z, w}) /\ <<y>> \in Seq({y, z, w}) /\ Len(q) = 2 /\ Len(<<y>>) = 1
        BY <3>1
      <4>2. Len(q \o <<y>>) = Len(q) + Len(<<y>>)
        BY <4>1, ConcatProperties, Zenon
      <4>3. Len(m) = 2 + 1
        BY <2>4, <4>1, <4>2, Zenon
      <4>4. Len(m) \in 1..2
        BY PathIsSeq
      <4>5. 2 + 1 \notin 1..2
        OBVIOUS
      <4>6. QED
        BY <4>3, <4>4, <4>5, Zenon
    <3>2. QED
      BY <3>1, PathForms
  <2>6. m = <<z, y>> /\ Len(m) = 2 /\ Len(q) = 1
    <3>1. <<z>> \o <<y>> = <<z, y>> /\ Len(<<z>>) = 1 /\ Len(<<z, y>>) = 2
      BY Joined, ParentForms
    <3>2. QED
      BY <2>4, <2>5, <3>1, Zenon
  <2>7. Parent(m) = q /\ m # q
    BY <2>5, <2>6, ParentForms
  <2>8. p \o SubSeq(m, Len(q) + 1, Len(m)) = r
    <3>1. SubSeq(<<z, y>>, 2, 2) = <<y>> /\ <<x>> \o <<y>> = <<x, y>>
      BY Slices, Joined
    <3>2. Len(q) + 1 = 2
      BY <2>6
    <3>3. QED
      BY <2>2, <2>3, <2>6, <3>1, <3>2, Zenon
  <2>9. QED
    BY <1>4, <2>1, <2>7, <2>8 DEF Hung
<1>5. QED
  BY <1>3, <1>4

(***************************************************************************)
(* Numbers                                                                 *)
(***************************************************************************)
\* Every set of numbers has a least one: the intervals that end at them are finite sets, which
\* inclusion orders well.
LEMMA Least ==
  ASSUME NEW S \in SUBSET Nat, S # {}
  PROVE  \E m \in S : \A k \in S : m <= k
<1> DEFINE T == {0..n : n \in S}
<1>1. T # {} /\ T \subseteq FiniteSubsetsOf(Nat)
  <2>1. \A n \in Nat : IsFiniteSet(0..n) /\ 0..n \in SUBSET Nat
    BY FS_Interval
  <2>2. QED
    BY <2>1 DEF FiniteSubsetsOf
<1>2. IsWellFoundedOn(StrictSubsetOrdering(Nat), FiniteSubsetsOf(Nat))
  BY FS_StrictSubsetOrderingWellFounded
<1> HIDE DEF T
<1>3. \E x \in T : \A y \in T : ~(<<y, x>> \in StrictSubsetOrdering(Nat))
  BY <1>1, <1>2, WFMin
<1> USE DEF T
<1>4. PICK m \in S : \A k \in S : ~(<<0..k, 0..m>> \in StrictSubsetOrdering(Nat))
  BY <1>3
<1>5. ASSUME NEW k \in S, k < m
      PROVE  FALSE
  <2>1. m \in 0..m /\ m \notin 0..k
    BY <1>5
  <2>2. 0..k \subseteq 0..m /\ 0..k # 0..m /\ 0..k \in SUBSET Nat /\ 0..m \in SUBSET Nat
    BY <1>5, <2>1
  <2>3. QED
    BY <2>2, <1>4 DEF StrictSubsetOrdering
<1>6. QED
  BY <1>4, <1>5

\* Hence induction, on a set of numbers.
LEMMA Induction ==
  ASSUME NEW S \in SUBSET Nat, 0 \in S, \A n \in S : n + 1 \in S
  PROVE  S = Nat
<1> SUFFICES ASSUME Nat \ S # {}
             PROVE  FALSE
  OBVIOUS
<1>1. PICK m \in Nat \ S : \A k \in Nat \ S : m <= k
  BY Least
<1>2. m - 1 \in S
  BY <1>1
<1>3. QED
  BY <1>1, <1>2

\* Subtractions that saturate end at zero.
LEMMA PositiveIsNumber ==
  ASSUME NEW n \in Int
  PROVE  Positive(n) \in Nat
<1>1. CASE n >= 0
  <2>1. Positive(n) = n
    BY <1>1 DEF Positive, Max
  <2>2. QED
    BY <1>1, <2>1
<1>2. CASE n < 0
  <2>1. Positive(n) = 0
    BY <1>2 DEF Positive, Max
  <2>2. QED
    BY <2>1
<1>3. QED
  BY <1>1, <1>2

\* A sum of numbers is one: the sums of the subsets exist, smaller ones first.
SumOf(f, S) == MapThenSumSet(LAMBDA x : f[x], S)

\* A sum of sizes over a finite set is a size.
LEMMA SumIsNumber ==
  ASSUME NEW f, NEW S, IsFiniteSet(S), \A x \in S : f[x] \in Nat
  PROVE  SumOf(f, S) \in Nat
<1> DEFINE Some(T) == CHOOSE x \in T : TRUE
           Rest(T) == T \ {Some(T)}
           Sum(g, T) == IF T = {} THEN 0 ELSE f[Some(T)] + g[Rest(T)]
           Def(g, n) == \A T \in SUBSET S : Cardinality(T) <= n => g[T] = Sum(g, T)
           N == {n \in Nat : \E g \in [SUBSET S -> Nat] : Def(g, n)}
<1>1. ASSUME NEW T \in SUBSET S
      PROVE  /\ Cardinality(T) \in Nat /\ (Cardinality(T) = 0 <=> T = {})
             /\ T # {} => /\ f[Some(T)] \in Nat /\ Rest(T) \in SUBSET S
                          /\ Cardinality(Rest(T)) = Cardinality(T) - 1
  <2>1. IsFiniteSet(T) /\ Cardinality(T) \in Nat
    BY FS_Subset, FS_CardinalityType
  <2>2. T # {} => Some(T) \in T
    OBVIOUS
  <2>3. QED
    BY <2>1, <2>2, FS_EmptySet, FS_RemoveElement
<1>2. 0 \in N
  <2>1. [T \in SUBSET S |-> 0] \in [SUBSET S -> Nat]
    OBVIOUS
  <2>2. Def([T \in SUBSET S |-> 0], 0)
    <3> HIDE DEF Some, Rest
    <3>1. QED
      BY <1>1
  <2> HIDE DEF Def
  <2>3. QED
    BY <2>1, <2>2
<1>3. ASSUME NEW n \in N
      PROVE  n + 1 \in N
  <2>1. PICK g \in [SUBSET S -> Nat] : Def(g, n)
    OBVIOUS
  <2> HIDE DEF Some, Rest
  <2> DEFINE h == [T \in SUBSET S |-> IF Cardinality(T) = n + 1 THEN Sum(g, T) ELSE g[T]]
  <2>2. h \in [SUBSET S -> Nat]
    <3>1. ASSUME NEW T \in SUBSET S
          PROVE  Sum(g, T) \in Nat /\ g[T] \in Nat
      BY <1>1
    <3> HIDE DEF Sum
    <3>2. QED
      BY <3>1
  <2>3. ASSUME NEW T \in SUBSET S, Cardinality(T) <= n + 1
        PROVE  h[T] = Sum(h, T)
    <3>1. CASE T = {}
      BY <2>1, <3>1, <1>1
    <3>2. CASE T # {}
      <4>1. Rest(T) \in SUBSET S /\ Cardinality(Rest(T)) # n + 1
        BY <1>1, <2>3, <3>2
      <4>2. h[Rest(T)] = g[Rest(T)]
        BY <4>1
      <4>3. h[T] = Sum(g, T)
        <5>1. CASE Cardinality(T) = n + 1
          <6> HIDE DEF Sum
          <6>1. QED
            BY <5>1
        <5>2. CASE Cardinality(T) # n + 1
          <6>1. Cardinality(T) <= n
            BY <5>2, <2>3, <1>1
          <6>2. g[T] = Sum(g, T) /\ h[T] = g[T]
            <7> HIDE DEF Sum
            <7>1. QED
              BY <5>2, <6>1, <2>1
          <6> HIDE DEF h, Sum
          <6>3. QED
            BY <6>2
        <5>3. QED
          BY <5>1, <5>2
      <4> HIDE DEF h
      <4>4. QED
        BY <4>2, <4>3
    <3>3. QED
      BY <3>1, <3>2
  <2> HIDE DEF h, Sum
  <2>4. Def(h, n + 1)
    BY <2>3
  <2>5. n + 1 \in Nat
    OBVIOUS
  <2> HIDE DEF Def
  <2>6. QED
    BY <2>2, <2>4, <2>5
<1>4. Cardinality(S) \in N
  <2> HIDE DEF Def
  <2>1. N \in SUBSET Nat
    OBVIOUS
  <2> HIDE DEF N
  <2>2. N = Nat
    BY <1>2, <1>3, <2>1, Induction
  <2>3. QED
    BY <2>2, <1>1
<1>5. PICK g \in [SUBSET S -> Nat] : \A T \in SUBSET S : g[T] = Sum(g, T)
  <2>1. PICK g \in [SUBSET S -> Nat] : Def(g, Cardinality(S))
    <3> HIDE DEF Def
    <3>1. QED
      BY <1>4
  <2>2. \A T \in SUBSET S : Cardinality(T) <= Cardinality(S)
    BY FS_Subset
  <2> HIDE DEF Sum
  <2>3. QED
    BY <2>1, <2>2
<1> DEFINE F(k) == [T \in SUBSET S |-> Sum(k, T)]
           c == CHOOSE k : k = F(k)
<1>6. c = F(c)
  <2>1. g = F(g)
    <3> HIDE DEF Sum
    <3>1. QED
      BY <1>5
  <2> HIDE DEF F
  <2>2. QED
    BY <2>1
<1>7. \A T \in SUBSET S : c[T] = Sum(c, T)
  <2> HIDE DEF c, Sum
  <2>1. QED
    BY <1>6
<1> HIDE DEF c
<1> DEFINE M == {n \in Nat : \A T \in SUBSET S : Cardinality(T) = n => c[T] \in Nat}
<1>8. 0 \in M
  BY <1>1, <1>7
<1>9. ASSUME NEW n \in M
      PROVE  n + 1 \in M
  <2> SUFFICES ASSUME NEW T \in SUBSET S, Cardinality(T) = n + 1
               PROVE  c[T] \in Nat
    OBVIOUS
  <2> HIDE DEF Some, Rest
  <2>1. T # {} /\ f[Some(T)] \in Nat /\ Rest(T) \in SUBSET S /\ Cardinality(Rest(T)) = n
    BY <1>1
  <2>2. c[Rest(T)] \in Nat
    BY <2>1
  <2>3. c[T] = f[Some(T)] + c[Rest(T)]
    BY <1>7, <2>1
  <2>4. QED
    BY <2>1, <2>2, <2>3
<1>10. c[S] \in Nat
  <2>1. M \in SUBSET Nat
    OBVIOUS
  <2>2. M = Nat
    <3> HIDE DEF M
    <3>1. QED
      BY <1>8, <1>9, <2>1, Induction
  <2>3. Cardinality(S) \in M
    <3> HIDE DEF M
    <3>1. QED
      BY <1>1, <2>2
  <2>4. QED
    BY <2>3
<1>11. SumOf(f, S) = c[S]
  BY DEF SumOf, MapThenSumSet, MapThenFoldSet, c
<1>12. QED
  BY <1>10, <1>11

\* There are finitely many paths, so the sums of the checker have a value.
LEMMA PathsAreFinite ==
  IsFiniteSet(Path)
<1> DEFINE f == [x \in Folder |-> <<x>>]
           T == {<<x>> : x \in Folder}
<1>1. IsFiniteSet(Folder) /\ IsFiniteSet(File)
  BY FilesAssumption
<1>2. f \in Surjection(Folder, T)
  BY DEF Surjection
<1>3. IsFiniteSet(T)
  BY <1>1, <1>2, FS_Surjection DEF ExistsSurjection
<1>4. IsFiniteSet(Folder \X File)
  BY <1>1, FS_Product
<1>5. QED
  BY <1>3, <1>4, FS_Union DEF Path

(***************************************************************************)
(* The usage of the directories                                            *)
(***************************************************************************)
LEMMA UpdateKeeps ==
  ASSUME NEW t, Usages(t), NEW p \in Path \cup {Root}, NEW n \in Int
  PROVE  Usages(update_size(t, p, n))
<1> DEFINE u == update_size(t, p, n)
<1>1. OnPath(p) \subseteq Path
  BY OnPaths, Parents
<1>2. /\ DOMAIN u = DOMAIN t \cup OnPath(p)
      /\ \A q \in DOMAIN u : u[q] = IF q \in OnPath(p) THEN Positive(get_size(t, q) + n) ELSE t[q]
  BY DEF update_size
<1>3. ASSUME NEW q
      PROVE  get_size(t, q) \in Nat
  BY DEF get_size, Usages
<1>4. ASSUME NEW q
      PROVE  Positive(get_size(t, q) + n) \in Nat
  BY <1>3, PositiveIsNumber
<1> HIDE DEF u
<1>5. Usages(u)
  BY <1>1, <1>2, <1>4 DEF Usages
<1>6. QED
  BY <1>5 DEF u

\* Taking a directory out of the usage tree leaves a usage tree.
LEMMA RemoveKeeps ==
  ASSUME NEW t, Usages(t), NEW p
  PROVE  Usages(remove_path(t, p))
<1>1. CASE p \notin DOMAIN t
  BY <1>1 DEF remove_path
<1>2. CASE p \in DOMAIN t
  <2> DEFINE u == remove_path(t, p)
  <2>1. /\ DOMAIN u \subseteq DOMAIN t
        /\ \A q \in DOMAIN u : u[q] = IF IsPrefix(q, p) THEN Positive(t[q] - t[p]) ELSE t[q]
    BY <1>2 DEF remove_path
  <2>2. ASSUME NEW q \in DOMAIN t
        PROVE  Positive(t[q] - t[p]) \in Nat
    BY <1>2, PositiveIsNumber DEF Usages
  <2> HIDE DEF u
  <2>3. Usages(u)
    BY <2>1, <2>2 DEF Usages
  <2>4. QED
    BY <2>3 DEF u
<1>3. QED
  BY <1>1, <1>2

(***************************************************************************)
(* The steps that are queued                                               *)
(***************************************************************************)
\* Steps that need nothing seen to beforehand.
Plain == {x \in StepRecord : x.do \notin {"open", "write", "put"}}
PlainDo == {"count", "tree", "forget", "rehang", "unlink", "rmtree", "clear", "zero",
            "mkdir", "mkdirs", "move", "copy"}

\* The records that requests queue are steps.
LEMMA StepForms ==
  ASSUME NEW do \in PlainDo \cup {"open", "write", "put"}, NEW p \in Path \cup {Root},
         NEW q \in Path \cup {Root}, NEW n \in Int, NEW id \in Nat,
         NEW how \in SUBSET {"strict", "write", "create", "truncate"}
  PROVE  /\ Step(do, p) \in StepRecord
         /\ [Step(do, p) EXCEPT !.n = n] \in StepRecord
         /\ [Step(do, p) EXCEPT !.to = q] \in StepRecord
         /\ [Step(do, p) EXCEPT !.how = how] \in StepRecord
         /\ [Step(do, p) EXCEPT !.n = n, !.how = how] \in StepRecord
         /\ [Step(do, p) EXCEPT !.id = id, !.n = n] \in StepRecord
<1> DEFINE r(a, m, i, h) == [do |-> do, at |-> p, to |-> a, n |-> m, id |-> i, how |-> h]
<1>1. \A a \in Path \cup {Root}, m \in Int, i \in Nat,
         h \in SUBSET {"strict", "write", "create", "truncate"} : r(a, m, i, h) \in StepRecord
  BY DEF StepRecord, PlainDo
<1>2. Step(do, p) = r(Root, 0, 0, {})
  BY DEF Step
<1>3. [Step(do, p) EXCEPT !.n = n] = r(Root, n, 0, {})
  BY DEF Step
<1>4. [Step(do, p) EXCEPT !.to = q] = r(q, 0, 0, {})
  BY DEF Step
<1>5. [Step(do, p) EXCEPT !.how = how] = r(Root, 0, 0, how)
  BY DEF Step
<1>6. [Step(do, p) EXCEPT !.n = n, !.how = how] = r(Root, n, 0, how)
  <2>1. [Step(do, p) EXCEPT !.n = n, !.how = how] = [[Step(do, p) EXCEPT !.n = n] EXCEPT !.how = how]
    OBVIOUS
  <2>2. [r(Root, n, 0, {}) EXCEPT !.how = how] = r(Root, n, 0, how)
    OBVIOUS
  <2>3. QED
    BY <1>3, <2>1, <2>2, Zenon
<1>7. [Step(do, p) EXCEPT !.id = id, !.n = n] = r(Root, n, id, {})
  <2>1. [Step(do, p) EXCEPT !.id = id, !.n = n] = [[Step(do, p) EXCEPT !.id = id] EXCEPT !.n = n]
    OBVIOUS
  <2>2. [Step(do, p) EXCEPT !.id = id] = r(Root, 0, id, {})
    BY DEF Step
  <2>3. [r(Root, 0, id, {}) EXCEPT !.n = n] = r(Root, n, id, {})
    OBVIOUS
  <2>4. QED
    BY <2>1, <2>2, <2>3, Zenon
<1> HIDE DEF r
<1>8. /\ Root \in Path \cup {Root} /\ 0 \in Int /\ 0 \in Nat
      /\ {} \in SUBSET {"strict", "write", "create", "truncate"}
  OBVIOUS
<1>9. QED
  BY <1>1, <1>2, <1>3, <1>4, <1>5, <1>6, <1>7, <1>8

\* Single steps, and those that allocate.
LEMMA PlainForms ==
  ASSUME NEW do \in PlainDo, NEW p \in Path \cup {Root}, NEW q \in Path \cup {Root}
  PROVE  /\ Step(do, p) \in Plain /\ [Step(do, p) EXCEPT !.to = q] \in Plain
         /\ \A n \in Int : Charge(p, n) \in Seq(Plain) /\ ChargeOrFail(p, n) \in Seq(Plain)
<1>1. /\ Step(do, p).do = do /\ [Step(do, p) EXCEPT !.to = q].do = do /\ do \notin {"open", "write", "put"}
  BY DEF Step, PlainDo
<1>2. Step(do, p) \in Plain /\ [Step(do, p) EXCEPT !.to = q] \in Plain
  <2>1. 0 \in Int /\ 0 \in Nat /\ {} \in SUBSET {"strict", "write", "create", "truncate"}
    OBVIOUS
  <2>2. Step(do, p) \in StepRecord /\ [Step(do, p) EXCEPT !.to = q] \in StepRecord
    BY <2>1, StepForms
  <2>3. QED
    BY <1>1, <2>2 DEF Plain
<1>3. ASSUME NEW n \in Int
      PROVE  Charge(p, n) \in Seq(Plain) /\ ChargeOrFail(p, n) \in Seq(Plain)
  <2>1. "count" \in PlainDo /\ {"strict"} \in SUBSET {"strict", "write", "create", "truncate"}
    BY DEF PlainDo
  <2>2. /\ [Step("count", p) EXCEPT !.n = n] \in StepRecord
        /\ [Step("count", p) EXCEPT !.n = n, !.how = {"strict"}] \in StepRecord
    BY <2>1, StepForms
  <2>3. /\ [Step("count", p) EXCEPT !.n = n].do = "count"
        /\ [Step("count", p) EXCEPT !.n = n, !.how = {"strict"}].do = "count"
    BY DEF Step
  <2>4. /\ [Step("count", p) EXCEPT !.n = n] \in Plain
        /\ [Step("count", p) EXCEPT !.n = n, !.how = {"strict"}] \in Plain
    BY <2>2, <2>3 DEF Plain
  <2> HIDE DEF Plain
  <2>5. QED
    BY <2>4 DEF Charge, ChargeOrFail
<1>4. QED
  BY <1>2, <1>3

\* The queues of the shared functions of filesystem/mod.rs.
LEMMA QueueForms ==
  ASSUME DiskSound, UsageSound, NEW p \in Path, NEW q \in Path
  PROVE  /\ Exists(p) => TruncatePath(p) \in Seq(Plain) /\ RenamePath(p, q) \in Seq(Plain)
         /\ IsFile(p) => CopyFile(p, q) \in Seq(Plain)
         /\ TruncateRoot \in Seq(Plain)
<1>1. p \in Path \cup {Root} /\ Parent(p) \in Path \cup {Root} /\ Parent(q) \in Path \cup {Root}
      /\ q \in Path \cup {Root} /\ Root \in Path \cup {Root} /\ p # Root
  BY Parents, PathIsSeq
<1>2. {"forget", "rmtree", "unlink", "mkdirs", "rehang", "move", "copy", "clear", "zero"} \subseteq PlainDo
  BY DEF PlainDo
<1>3. get_size(tree, p) \in Nat /\ -get_size(tree, p) \in Int
  BY DEF UsageSound, Usages, get_size
<1>4. IsFile(p) => files[p] \in Int /\ -files[p] \in Int
  BY FilesAssumption DEF DiskSound, IsFile
<1>5. /\ Step("forget", p) \in Plain /\ Step("rmtree", p) \in Plain /\ Step("unlink", p) \in Plain
      /\ Step("rehang", p) \in Plain /\ Step("mkdirs", Parent(q)) \in Plain
      /\ [Step("move", p) EXCEPT !.to = q] \in Plain /\ [Step("copy", p) EXCEPT !.to = q] \in Plain
      /\ Step("clear", Root) \in Plain /\ Step("zero", Root) \in Plain /\ Step("rmtree", Root) \in Plain
  BY <1>1, <1>2, PlainForms
<1>6. /\ Charge(p, -get_size(tree, p)) \in Seq(Plain)
      /\ IsFile(p) => /\ Charge(p, -files[p]) \in Seq(Plain)
                      /\ Charge(Parent(p), -files[p]) \in Seq(Plain)
                      /\ Charge(Parent(q), files[p]) \in Seq(Plain)
                      /\ ChargeOrFail(Parent(q), files[p]) \in Seq(Plain)
  BY <1>1, <1>2, <1>3, <1>4, PlainForms
<1> HIDE DEF Plain
<1>7. Exists(p) => TruncatePath(p) \in Seq(Plain)
  BY <1>1, <1>5, <1>6 DEF TruncatePath, Exists, IsDir
<1>8. Exists(p) => RenamePath(p, q) \in Seq(Plain)
  BY <1>1, <1>5, <1>6 DEF RenamePath, Exists, IsDir
<1>9. IsFile(p) => CopyFile(p, q) \in Seq(Plain)
  BY <1>5, <1>6 DEF CopyFile
<1>10. TruncateRoot \in Seq(Plain)
  BY <1>5 DEF TruncateRoot
<1>11. QED
  BY <1>7, <1>8, <1>9, <1>10

\* The next step of a queue, and what is left after it.
LEMMA NowForms ==
  ASSUME TodoSound, NEW c \in Client, todo[c] # <<>>
  PROVE  /\ Now(c).at \in Path \cup {Root} /\ Now(c).to \in Path \cup {Root}
         /\ Now(c).n \in Int /\ Now(c).id \in Nat
         /\ Now(c) \in StepRecord /\ Prepared(c, Now(c))
         /\ Tail(todo[c]) \in Seq(StepRecord)
         /\ \A i \in 1..Len(Tail(todo[c])) : Prepared(c, Tail(todo[c])[i])
         /\ Len(todo[c]) = 1 => Tail(todo[c]) = <<>>
<1>1. todo[c] \in Seq(StepRecord)
  BY DEF TodoSound
<1>2. /\ Now(c) \in StepRecord /\ Tail(todo[c]) \in Seq(StepRecord)
      /\ Len(Tail(todo[c])) = Len(todo[c]) - 1 /\ Len(todo[c]) \in Nat \ {0}
      /\ \A i \in 1..Len(Tail(todo[c])) : Tail(todo[c])[i] = todo[c][i + 1]
  BY <1>1, HeadTailProperties, EmptySeq DEF Now
<1>3. Now(c) = todo[c][1]
  BY <1>1, <1>2 DEF Now
<1>4. Prepared(c, Now(c)) /\ \A i \in 1..Len(Tail(todo[c])) : Prepared(c, Tail(todo[c])[i])
  <2>1. \A i \in 1..Len(todo[c]) : Prepared(c, todo[c][i])
    BY DEF TodoSound
  <2>2. 1 \in 1..Len(todo[c]) /\ \A i \in 1..Len(Tail(todo[c])) : i + 1 \in 1..Len(todo[c])
    BY <1>2
  <2>3. QED
    BY <1>2, <1>3, <2>1, <2>2
<1>5. Len(todo[c]) = 1 => Tail(todo[c]) = <<>>
  <2> SUFFICES ASSUME Len(todo[c]) = 1
               PROVE  Tail(todo[c]) = <<>>
    OBVIOUS
  <2>1. Tail(todo[c]) # <<>> => Len(Tail(todo[c])) \in Nat \ {0}
    BY <1>2, EmptySeq, Zenon
  <2>2. Len(Tail(todo[c])) = 1 - 1
    BY <1>2, Zenon
  <2>3. 1 - 1 \notin Nat \ {0}
    OBVIOUS
  <2>4. QED
    BY <2>1, <2>2, <2>3, Zenon
<1>6. QED
  BY <1>2, <1>4, <1>5 DEF StepRecord

(***************************************************************************)
(* The files, and the handles that follow them                             *)
(***************************************************************************)
SameHandles(s) ==
  /\ DOMAIN handles'[s] = DOMAIN handles[s]
  /\ \A id \in DOMAIN handles[s] : handles'[s][id].kind = handles[s][id].kind

\* Each handle becomes one of the same kind that knows where its file is.
Followed ==
  /\ DOMAIN handles' = Session
  /\ \A s \in Session :
       /\ SameHandles(s)
       /\ \A id \in DOMAIN handles[s] :
            /\ handles'[s][id] \in HandleRecord
            /\ handles'[s][id].linked => handles'[s][id].at \in DOMAIN files'

\* Handles that follow their files are as they should be.
LEMMA FollowedIsSound ==
  ASSUME HandlesSound, Followed
  PROVE  HandlesSound'
BY DEF HandlesSound, Followed, SameHandles

\* A handle whose file was removed stays a handle, and is linked no more.
LEMMA UnlinkedForms ==
  ASSUME NEW h \in HandleRecord, NEW p
  PROVE  /\ Unlinked(h, p) \in HandleRecord /\ Unlinked(h, p).kind = h.kind
         /\ Unlinked(h, p).linked => h.linked /\ Unlinked(h, p).at = h.at /\ h.at # p
BY DEF Unlinked, HandleRecord

\* A file is gone, or a directory with nothing in it.
LEMMA GoneSound ==
  ASSUME DiskSound, HandlesSound, NEW q \in Path,
         files' = [r \in DOMAIN files \ {q} |-> files[r]], dirs' \subseteq dirs,
         \A r \in DOMAIN files \cup dirs : Parent(r) \in dirs' \cup {Root},
         handles' = Handles(LAMBDA h : Unlinked(h, q))
  PROVE  DiskSound' /\ Followed
<1>1. DiskSound'
  BY DEF DiskSound
<1>2. Followed
  <2>1. \A s \in Session : \A id \in DOMAIN handles[s] :
          handles[s][id] \in HandleRecord /\ (handles[s][id].linked => handles[s][id].at \in DOMAIN files)
    BY DEF HandlesSound
  <2>2. /\ DOMAIN handles' = Session
        /\ \A s \in Session : /\ DOMAIN handles'[s] = DOMAIN handles[s]
                              /\ \A id \in DOMAIN handles[s] : handles'[s][id] = Unlinked(handles[s][id], q)
    BY DEF Handles
  <2>3. DOMAIN files' = DOMAIN files \ {q}
    OBVIOUS
  <2>4. ASSUME NEW s \in Session, NEW id \in DOMAIN handles[s]
        PROVE  /\ handles'[s][id] \in HandleRecord /\ handles'[s][id].kind = handles[s][id].kind
               /\ handles'[s][id].linked => handles'[s][id].at \in DOMAIN files'
    <3> DEFINE h == handles[s][id]
               u == Unlinked(h, q)
    <3>1. h \in HandleRecord /\ (h.linked => h.at \in DOMAIN files)
      BY <2>1
    <3>2. u \in HandleRecord /\ u.kind = h.kind /\ (u.linked => h.linked /\ u.at = h.at /\ h.at # q)
      BY <3>1, UnlinkedForms
    <3>3. handles'[s][id] = u
      BY <2>2
    <3> HIDE DEF h, u
    <3>4. u.linked => u.at \in DOMAIN files'
      BY <2>3, <3>1, <3>2
    <3>5. QED
      BY <3>2, <3>3, <3>4 DEF h
  <2>5. QED
    BY <2>2, <2>4 DEF Followed, SameHandles
<1>3. QED
  BY <1>1, <1>2

\* What is moved to q itself.
LEMMA HangsItself ==
  ASSUME NEW p \in Path, NEW q \in Path
  PROVE  q \o SubSeq(p, Len(p) + 1, Len(p)) = q
<1>1. q \in Seq(Folder \cup File) /\ Len(p) \in Nat
  BY PathIsSeq
<1>2. SubSeq(p, Len(p) + 1, Len(p)) = <<>>
  BY <1>1, SubSeqEmpty
<1>3. QED
  BY <1>1, <1>2, ConcatEmptySeq

\* No path is above itself, and none is above the base directory.
LEMMA Above ==
  ASSUME NEW p \in Path, NEW r \in Path \cup {Root}, IsPrefix(p, Parent(r))
  PROVE  IsPrefix(p, r)
<1>1. Parent(r) \in Path \cup {Root} /\ p # Root
  BY Parents, PathIsSeq
<1>2. p = Parent(r) \/ p = Parent(Parent(r))
  BY <1>1, PrefixForms
<1>3. Parent(Parent(r)) = Root
  BY Parents
<1>4. QED
  BY <1>1, <1>2, <1>3, PrefixForms

\* A handle whose file is moved along finds it in its new place.
LEMMA MovedForms ==
  ASSUME NEW h \in HandleRecord, NEW p, NEW q,
         NEW m, m = q \o SubSeq(h.at, Len(p) + 1, Len(h.at)), m \in Path
  PROVE  h.linked /\ IsPrefix(p, h.at) =>
           Moved(h, p, q) \in HandleRecord /\ Moved(h, p, q).kind = h.kind /\ Moved(h, p, q).at = m
<1> SUFFICES ASSUME h.linked, IsPrefix(p, h.at)
             PROVE  Moved(h, p, q) \in HandleRecord /\ Moved(h, p, q).kind = h.kind /\ Moved(h, p, q).at = m
  OBVIOUS
<1>1. Moved(h, p, q) = [h EXCEPT !.at = m]
  BY DEF Moved, HandleRecord
<1>2. [h EXCEPT !.at = m] \in HandleRecord /\ [h EXCEPT !.at = m].kind = h.kind /\ [h EXCEPT !.at = m].at = m
  BY DEF HandleRecord
<1>3. QED
  BY <1>1, <1>2

\* What is moved keeps its size and its place below what is moved with it; what is in the
\* way is gone with its handles.
LEMMA MoveSound ==
  ASSUME DiskSound, HandlesSound, TodoSound, NEW c \in Client, Move(c)
  PROVE  DiskSound' /\ Followed
<1> DEFINE p == Now(c).at
           q == Now(c).to
           From(r) == p \o SubSeq(r, Len(q) + 1, Len(r))
           Onto(r) == q \o SubSeq(r, Len(p) + 1, Len(r))
<1>1. p \in Path \cup {Root} /\ q \in Path \cup {Root}
  BY NowForms DEF Move, Doing
<1>2. /\ Exists(p) /\ IsDir(Parent(q)) /\ ~IsPrefix(p, q)
      /\ Exists(q) => (IsFile(p) <=> IsFile(q)) /\ Below(q) = {}
      /\ \A r \in Below(p) : Onto(r) \in Path
      /\ files' = [r \in {r \in DOMAIN files : ~IsPrefix(p, r) /\ r # q}
                         \cup {Onto(r) : r \in {r \in DOMAIN files : IsPrefix(p, r)}} |->
                     IF IsPrefix(q, r) THEN files[From(r)] ELSE files[r]]
      /\ dirs' = {r \in dirs : ~IsPrefix(p, r)} \cup {Onto(r) : r \in {r \in dirs : IsPrefix(p, r)}}
      /\ handles' = Handles(LAMBDA h : Moved(h, p, q))
  BY DEF Move
<1> HIDE DEF p, q
<1>3. /\ DOMAIN files \subseteq Path /\ \A r \in DOMAIN files : files[r] \in 0..MaxSize
      /\ dirs \subseteq Path /\ \A r \in DOMAIN files \cup dirs : Parent(r) \in dirs \cup {Root}
      /\ Root \notin Path
  BY PathIsSeq DEF DiskSound
<1>4. p \in Path /\ q \in Path
  <2>1. p # Root
    BY <1>1, <1>2, PrefixForms
  <2>2. ASSUME q = Root
        PROVE  FALSE
    <3>1. Exists(q) /\ ~IsFile(q)
      BY <1>3, <2>2 DEF Exists, IsDir, IsFile
    <3>2. p \in dirs
      BY <1>2, <2>1, <3>1 DEF Exists, IsDir
    <3>3. p \in Below(q)
      BY <1>1, <2>1, <2>2, <3>2, PrefixForms DEF Below, IsStrictPrefix
    <3>4. QED
      BY <1>2, <3>1, <3>3
  <2>3. QED
    BY <1>1, <2>1, <2>2
<1>5. ASSUME NEW r \in DOMAIN files \cup dirs, IsPrefix(p, r)
      PROVE  /\ Onto(r) \in Path /\ IsPrefix(q, Onto(r)) /\ From(Onto(r)) = r
             /\ r = p => Onto(r) = q
             /\ r # p => Parent(r) = p /\ Parent(Onto(r)) = q
  <2>1. r \in Path
    BY <1>3
  <2>2. Onto(r) \in Path
    <3>1. CASE r = p
      BY <1>4, <3>1, HangsItself
    <3>2. CASE r # p
      <4>1. r \in Below(p)
        BY <1>5, <3>2 DEF Below, IsStrictPrefix
      <4>2. QED
        BY <1>2, <4>1
    <3>3. QED
      BY <3>1, <3>2
  <2> DEFINE m == Onto(r)
  <2>3. m = q \o SubSeq(r, Len(p) + 1, Len(r))
    OBVIOUS
  <2>4. m \in Path
    BY <2>2
  <2> HIDE DEF m
  <2>5. /\ r = p => m = q
        /\ r # p => Parent(r) = p /\ Parent(m) = q /\ m # q
        /\ p \o SubSeq(m, Len(q) + 1, Len(m)) = r
    <3>1. m = Hung(p, q, r)
      BY <2>3 DEF Hung
    <3>2. /\ r = p => m = q
          /\ r # p => Parent(r) = p /\ Parent(m) = q /\ m # q
          /\ Hung(q, p, m) = r
      BY <1>4, <1>5, <2>1, <2>4, <3>1, Hangs
    <3>3. QED
      BY <3>2 DEF Hung
  <2>6. IsPrefix(q, m)
    BY <1>4, <2>4, <2>5, PrefixForms
  <2>7. QED
    BY <2>4, <2>5, <2>6 DEF m
<1> HIDE DEF From, Onto
<1>6. ASSUME NEW r \in DOMAIN files, IsPrefix(p, r)
      PROVE  Onto(r) \in DOMAIN files' /\ files'[Onto(r)] = files[r]
  <2>1. Onto(r) \in DOMAIN files'
    BY <1>2, <1>6
  <2>2. IsPrefix(q, Onto(r)) /\ From(Onto(r)) = r
    BY <1>5, <1>6
  <2>3. QED
    BY <1>2, <2>1, <2>2
<1>7. ASSUME NEW r \in DOMAIN files, ~IsPrefix(p, r), r # q
      PROVE  r \in DOMAIN files' /\ files'[r] = files[r]
  <2>1. r \in DOMAIN files'
    BY <1>2, <1>7
  <2>2. ASSUME IsPrefix(q, r)
        PROVE  FALSE
    <3>1. q = Parent(r)
      BY <1>3, <1>4, <1>7, <2>2, PrefixForms
    <3>2. Exists(q)
      BY <1>3, <1>4, <3>1 DEF Exists, IsDir
    <3>3. r \in Below(q)
      BY <1>7, <2>2 DEF Below, IsStrictPrefix
    <3>4. QED
      BY <1>2, <3>2, <3>3
  <2>3. QED
    BY <1>2, <2>1, <2>2
<1>8. \A r \in DOMAIN files' : \/ r \in DOMAIN files /\ ~IsPrefix(p, r) /\ r # q
                               \/ \E o \in DOMAIN files : IsPrefix(p, o) /\ r = Onto(o)
  BY <1>2
<1>9. \A r \in dirs' : \/ r \in dirs /\ ~IsPrefix(p, r)
                       \/ \E o \in dirs : IsPrefix(p, o) /\ r = Onto(o)
  BY <1>2
<1>10. DOMAIN files' \subseteq Path /\ dirs' \subseteq Path
  BY <1>3, <1>5, <1>8, <1>9
<1>11. \A r \in DOMAIN files' : files'[r] \in 0..MaxSize
  BY <1>3, <1>6, <1>7, <1>8
<1>12. ASSUME NEW r \in Path \cup {Root}, Parent(r) \in dirs \cup {Root}, ~IsPrefix(p, r)
       PROVE  Parent(r) \in dirs' \cup {Root}
  BY <1>2, <1>4, <1>12, Above
<1>13. \A r \in DOMAIN files' \cup dirs' : Parent(r) \in dirs' \cup {Root}
  <2>1. ASSUME NEW r \in DOMAIN files \cup dirs, ~IsPrefix(p, r)
        PROVE  Parent(r) \in dirs' \cup {Root}
    BY <1>3, <1>12, <2>1
  <2>2. ASSUME NEW o \in DOMAIN files \cup dirs, IsPrefix(p, o)
        PROVE  Parent(Onto(o)) \in dirs' \cup {Root}
    <3>1. CASE o = p
      BY <1>2, <1>4, <1>5, <1>12, <2>2, <3>1 DEF IsDir
    <3>2. CASE o # p
      <4>1. Parent(o) = p /\ Parent(Onto(o)) = q
        BY <1>5, <2>2, <3>2
      <4>2. p \in dirs /\ IsPrefix(p, p)
        BY <1>3, <1>4, <4>1, PrefixForms
      <4>3. Onto(p) = q
        BY <1>5, <4>2
      <4>4. QED
        BY <1>2, <4>1, <4>2, <4>3
    <3>3. QED
      BY <3>1, <3>2
  <2>3. QED
    BY <1>8, <1>9, <2>1, <2>2
<1>14. Followed
  <2>1. \A s \in Session : \A id \in DOMAIN handles[s] :
          handles[s][id] \in HandleRecord /\ (handles[s][id].linked => handles[s][id].at \in DOMAIN files)
    BY DEF HandlesSound
  <2>2. /\ DOMAIN handles' = Session
        /\ \A s \in Session : /\ DOMAIN handles'[s] = DOMAIN handles[s]
                              /\ \A id \in DOMAIN handles[s] : handles'[s][id] = Moved(handles[s][id], p, q)
    BY <1>2 DEF Handles
  <2>3. ASSUME NEW s \in Session, NEW id \in DOMAIN handles[s]
        PROVE  /\ handles'[s][id] \in HandleRecord /\ handles'[s][id].kind = handles[s][id].kind
               /\ handles'[s][id].linked => handles'[s][id].at \in DOMAIN files'
    <3> DEFINE h == handles[s][id]
               u == Moved(h, p, q)
    <3>1. h \in HandleRecord /\ (h.linked => h.at \in DOMAIN files)
      BY <2>1
    <3>2. handles'[s][id] = u
      BY <2>2
    <3> HIDE DEF h
    <3>3. CASE h.linked /\ IsPrefix(p, h.at)
      <4>1. Onto(h.at) \in Path /\ Onto(h.at) \in DOMAIN files'
        BY <1>5, <1>6, <3>1, <3>3
      <4>2. u \in HandleRecord /\ u.kind = h.kind /\ u.at = Onto(h.at)
        BY <3>1, <3>3, <4>1, MovedForms DEF Onto
      <4> HIDE DEF u
      <4>3. QED
        BY <3>2, <4>1, <4>2 DEF h
    <3>4. CASE ~(h.linked /\ IsPrefix(p, h.at))
      <4>1. u = Unlinked(h, q)
        BY <3>4 DEF Moved
      <4>2. u \in HandleRecord /\ u.kind = h.kind /\ (u.linked => h.linked /\ u.at = h.at /\ h.at # q)
        BY <3>1, <4>1, UnlinkedForms
      <4> HIDE DEF u
      <4>3. u.linked => u.at \in DOMAIN files'
        BY <1>7, <3>1, <3>4, <4>2
      <4>4. QED
        BY <3>2, <4>2, <4>3 DEF h
    <3>5. QED
      BY <3>3, <3>4
  <2>4. QED
    BY <2>2, <2>3 DEF Followed, SameHandles
<1>15. DiskSound'
  BY <1>10, <1>11, <1>13 DEF DiskSound
<1>16. QED
  BY <1>14, <1>15

\* A file gets a size that fits, under a name where there is or may be one.
LEMMA PutSound ==
  ASSUME DiskSound, NEW p \in Path, NEW n \in 0..MaxSize,
         p \in DOMAIN files \/ Parent(p) \in dirs \cup {Root},
         files' = [q \in DOMAIN files \cup {p} |-> IF q = p THEN n ELSE files[q]], dirs' = dirs
  PROVE  DiskSound'
BY DEF DiskSound

\* The handles stay with their files, as none is gone.
LEMMA HandlesStay ==
  ASSUME HandlesSound, DOMAIN files \subseteq DOMAIN files', UNCHANGED handles
  PROVE  Followed
BY DEF HandlesSound, Followed, SameHandles

\* An empty directory is nobody's parent.
LEMMA NoneBelow ==
  ASSUME DiskSound, NEW p \in Path \cup {Root}, Below(p) = {},
         NEW r \in DOMAIN files \cup dirs
  PROVE  Parent(r) # p
<1>1. r \in Path /\ Parent(r) \in Path \cup {Root} /\ r # Root /\ Parent(r) # r
  BY Parents, PathIsSeq DEF DiskSound
<1>2. Parent(r) = p => IsPrefix(p, r) /\ p # r
  BY <1>1, PrefixForms
<1>3. QED
  BY <1>2 DEF Below, IsStrictPrefix

\* The steps one by one: files stay in directories, and handles follow them.
LEMMA UnlinkSound ==
  ASSUME DiskSound, HandlesSound, NEW c \in Client, Unlink(c)
  PROVE  DiskSound' /\ Followed
<1> DEFINE p == Now(c).at
<1>1. /\ p \in DOMAIN files
      /\ files' = [q \in DOMAIN files \ {p} |-> files[q]] /\ dirs' = dirs
      /\ handles' = Handles(LAMBDA h : Unlinked(h, p))
  BY DEF Unlink, IsFile
<1> HIDE DEF p
<1>2. p \in Path
  BY <1>1 DEF DiskSound
<1>3. \A r \in DOMAIN files \cup dirs : Parent(r) \in dirs' \cup {Root}
  BY <1>1 DEF DiskSound
<1>4. QED
  BY <1>1, <1>2, <1>3, GoneSound

LEMMA RemoveSound ==
  ASSUME DiskSound, HandlesSound, TodoSound, NEW c \in Client, RemoveDirAll(c)
  PROVE  DiskSound' /\ Followed
<1> DEFINE p == Now(c).at
<1>1. p \in Path \cup {Root}
  BY NowForms DEF RemoveDirAll, Doing
<1>2. CASE \E q \in Below(p) :
             /\ Below(q) = {}
             /\ files' = [r \in DOMAIN files \ {q} |-> files[r]]
             /\ dirs' = dirs \ {q}
             /\ handles' = Handles(LAMBDA h : Unlinked(h, q))
  <2>1. PICK q \in Below(p) :
             /\ Below(q) = {}
             /\ files' = [r \in DOMAIN files \ {q} |-> files[r]]
             /\ dirs' = dirs \ {q}
             /\ handles' = Handles(LAMBDA h : Unlinked(h, q))
    BY <1>2
  <2>2. q \in Path
    BY DEF Below, DiskSound
  <2>3. \A r \in DOMAIN files \cup dirs : Parent(r) \in dirs' \cup {Root}
    BY <2>1, <2>2, NoneBelow DEF DiskSound
  <2>4. QED
    BY <2>1, <2>2, <2>3, GoneSound
<1>3. CASE Below(p) = {} /\ dirs' = dirs \ {p} /\ UNCHANGED <<files, handles>>
  <2>1. \A r \in DOMAIN files \cup dirs : Parent(r) # p
    BY <1>1, <1>3, NoneBelow
  <2>2. DiskSound'
    BY <1>3, <2>1 DEF DiskSound
  <2>3. QED
    BY <1>3, <2>2, HandlesStay
<1>4. QED
  BY <1>2, <1>3 DEF RemoveDirAll

LEMMA MakeDirSound ==
  ASSUME DiskSound, HandlesSound, TodoSound, NEW c \in Client, MakeDir(c)
  PROVE  DiskSound' /\ Followed
<1> DEFINE p == Now(c).at
<1>1. p \in Path \cup {Root}
  BY NowForms DEF MakeDir, Doing
<1>2. dirs' = dirs \cup OnPath(p) /\ UNCHANGED <<files, handles>>
  BY DEF MakeDir
<1> HIDE DEF p
<1>3. OnPath(p) \subseteq Path /\ \A q \in OnPath(p) : Parent(q) \in OnPath(p) \cup {Root}
  BY <1>1, OnPaths, Parents
<1>4. DiskSound'
  BY <1>2, <1>3 DEF DiskSound
<1>5. QED
  BY <1>2, <1>4, HandlesStay

LEMMA CopySound ==
  ASSUME DiskSound, HandlesSound, TodoSound, NEW c \in Client, Copy(c)
  PROVE  DiskSound' /\ Followed
<1> DEFINE p == Now(c).at
           q == Now(c).to
<1>1. q \in Path \cup {Root}
  BY NowForms DEF Copy, Doing
<1>2. /\ p \in DOMAIN files /\ ~IsDir(q) /\ IsDir(Parent(q))
      /\ files' = [r \in DOMAIN files \cup {q} |-> IF r = q THEN files[p] ELSE files[r]]
      /\ UNCHANGED <<dirs, handles>>
  BY DEF Copy, IsFile
<1> HIDE DEF p, q
<1>3. q \in Path /\ files[p] \in 0..MaxSize /\ Parent(q) \in dirs \cup {Root}
  BY <1>1, <1>2 DEF IsDir, DiskSound
<1>4. DiskSound'
  BY <1>2, <1>3, PutSound
<1>5. QED
  BY <1>2, <1>4, HandlesStay

LEMMA PutsSound ==
  ASSUME DiskSound, HandlesSound, TodoSound, NEW c \in Client, Put(c)
  PROVE  DiskSound' /\ Followed
<1> DEFINE p == Now(c).at
           n == Now(c).n
<1>1. p \in Path \cup {Root} /\ n \in 1..MaxSize
  BY NowForms DEF Put, Doing, Prepared, PreparedFor, Now
<1>2. /\ ~IsDir(p) /\ IsDir(Parent(p))
      /\ files' = [r \in DOMAIN files \cup {p} |-> IF r = p THEN n ELSE files[r]]
      /\ UNCHANGED <<dirs, handles>>
  BY DEF Put
<1> HIDE DEF p, n
<1>3. p \in Path /\ n \in 0..MaxSize /\ Parent(p) \in dirs \cup {Root}
  BY <1>1, <1>2, FilesAssumption DEF IsDir
<1>4. DiskSound'
  BY <1>2, <1>3, PutSound
<1>5. QED
  BY <1>2, <1>4, HandlesStay

LEMMA WriteAtSound ==
  ASSUME DiskSound, HandlesSound, TodoSound, NEW s \in Session, WriteAt(s)
  PROVE  DiskSound' /\ Followed
<1> DEFINE h == handles[s][Now(s).id]
           n == Now(s).n
           m == Max({files[h.at], n})
<1>1. s \in Client
  BY DEF Client
<1>2. n \in 1..MaxSize /\ Now(s).id \in DOMAIN handles[s]
  BY <1>1, NowForms DEF WriteAt, Doing, Prepared, PreparedFor, Now
<1>3. h.linked => h.at \in DOMAIN files
  BY <1>2 DEF HandlesSound
<1>4. files' = (IF h.linked THEN [files EXCEPT ![h.at] = m] ELSE files) /\ UNCHANGED <<dirs, handles>>
  BY DEF WriteAt
<1>5. h.linked => m \in 0..MaxSize
  <2>1. h.linked => files[h.at] \in 0..MaxSize
    BY <1>3 DEF DiskSound
  <2>2. \A a, b \in 0..MaxSize : Max({a, b}) \in 0..MaxSize
    <3>1. \A a, b \in 0..MaxSize : a >= b => Max({a, b}) = a
      BY FilesAssumption DEF Max
    <3>2. \A a, b \in 0..MaxSize : b >= a => Max({a, b}) = b
      BY FilesAssumption DEF Max
    <3>3. QED
      BY <3>1, <3>2, FilesAssumption
  <2>3. n \in 0..MaxSize
    BY <1>2, FilesAssumption
  <2> HIDE DEF h, n
  <2>4. QED
    BY <2>1, <2>2, <2>3
<1> HIDE DEF h, n, m
<1>6. DiskSound' /\ DOMAIN files' = DOMAIN files
  BY <1>3, <1>4, <1>5 DEF DiskSound
<1>7. QED
  BY <1>4, <1>6, HandlesStay

(***************************************************************************)
(* The handles that are opened, closed and read                            *)
(***************************************************************************)
\* A handle more, while there is room.
LEMMA InsertSound ==
  ASSUME HandlesSound, NEW s \in Session, NEW id \in Nat, NEW h \in HandleRecord,
         h.linked => h.at \in DOMAIN files',
         Cardinality(DOMAIN handles[s]) < HandleLimit, DOMAIN files \subseteq DOMAIN files',
         Insert(s, id, h)
  PROVE  /\ HandlesSound' /\ handle_id' = [handle_id EXCEPT ![s] = @ + 1]
         /\ \A u \in Session : u # s => handles'[u] = handles[u]
<1> DEFINE g == [i \in DOMAIN handles[s] \cup {id} |-> IF i = id THEN h ELSE handles[s][i]]
<1>1. handles' = [handles EXCEPT ![s] = g] /\ handle_id' = [handle_id EXCEPT ![s] = @ + 1]
  BY DEF Insert
<1>2. /\ DOMAIN g = DOMAIN handles[s] \cup {id}
      /\ \A i \in DOMAIN g : g[i] = IF i = id THEN h ELSE handles[s][i]
  OBVIOUS
<1> HIDE DEF g
<1>3. /\ DOMAIN handles' = Session /\ handles'[s] = g
      /\ \A u \in Session : u # s => handles'[u] = handles[u]
  BY <1>1 DEF HandlesSound
<1>4. DOMAIN g \subseteq Nat /\ IsFiniteSet(DOMAIN g) /\ Cardinality(DOMAIN g) <= HandleLimit
  <2>1. /\ IsFiniteSet(DOMAIN handles[s]) /\ Cardinality(DOMAIN handles[s]) \in Nat
        /\ DOMAIN handles[s] \subseteq Nat
    BY FS_CardinalityType DEF HandlesSound
  <2>2. IsFiniteSet(DOMAIN handles[s] \cup {id})
        /\ Cardinality(DOMAIN handles[s] \cup {id}) =
             IF id \in DOMAIN handles[s] THEN Cardinality(DOMAIN handles[s])
                                         ELSE Cardinality(DOMAIN handles[s]) + 1
    BY <2>1, FS_AddElement
  <2>3. HandleLimit \in Nat
    BY FilesAssumption
  <2>4. QED
    BY <1>2, <2>1, <2>2, <2>3
<1>5. \A i \in DOMAIN g : g[i] \in HandleRecord /\ (g[i].linked => g[i].at \in DOMAIN files')
  BY <1>2 DEF HandlesSound
<1>6. \A u \in Session : u # s =>
        /\ DOMAIN handles'[u] \subseteq Nat
        /\ IsFiniteSet(DOMAIN handles'[u]) /\ Cardinality(DOMAIN handles'[u]) <= HandleLimit
        /\ \A i \in DOMAIN handles'[u] : /\ handles'[u][i] \in HandleRecord
                                         /\ handles'[u][i].linked => handles'[u][i].at \in DOMAIN files'
  BY <1>3 DEF HandlesSound
<1>7. HandlesSound'
  BY <1>3, <1>4, <1>5, <1>6 DEF HandlesSound
<1>8. QED
  BY <1>1, <1>3, <1>7

\* A session has none any more.
LEMMA EmptySound ==
  ASSUME HandlesSound, UNCHANGED files,
         handles' = handles \/ \E s \in Session : handles' = [handles EXCEPT ![s] = <<>>]
  PROVE  HandlesSound'
<1>1. CASE handles' = handles
  BY <1>1 DEF HandlesSound
<1>2. ASSUME NEW s \in Session, handles' = [handles EXCEPT ![s] = <<>>]
      PROVE  HandlesSound'
  <2>1. DOMAIN handles' = Session /\ handles'[s] = <<>> /\ \A u \in Session : u # s => handles'[u] = handles[u]
    BY <1>2 DEF HandlesSound
  <2>2. DOMAIN handles'[s] = {}
    BY <2>1
  <2>3. IsFiniteSet({}) /\ Cardinality({}) = 0 /\ 0 <= HandleLimit
    BY FS_EmptySet, FilesAssumption
  <2>4. QED
    BY <2>1, <2>2, <2>3 DEF HandlesSound
<1>3. QED
  BY <1>1, <1>2

\* A handle is closed.
LEMMA CloseSound ==
  ASSUME HandlesSound, NEW s \in Session, NEW id \in DOMAIN handles[s], UNCHANGED files,
         handles' = [handles EXCEPT ![s] = [i \in DOMAIN @ \ {id} |-> @[i]]]
  PROVE  HandlesSound' /\ \A u \in Session : u # s => handles'[u] = handles[u]
<1> DEFINE g == [i \in DOMAIN handles[s] \ {id} |-> handles[s][i]]
<1>1. handles' = [handles EXCEPT ![s] = g]
  OBVIOUS
<1>2. DOMAIN g = DOMAIN handles[s] \ {id} /\ \A i \in DOMAIN g : g[i] = handles[s][i]
  OBVIOUS
<1> HIDE DEF g
<1>3. /\ DOMAIN handles' = Session /\ handles'[s] = g
      /\ \A u \in Session : u # s => handles'[u] = handles[u]
  BY <1>1 DEF HandlesSound
<1>4. DOMAIN g \subseteq Nat /\ IsFiniteSet(DOMAIN g) /\ Cardinality(DOMAIN g) <= HandleLimit
  <2>1. /\ IsFiniteSet(DOMAIN handles[s]) /\ Cardinality(DOMAIN handles[s]) <= HandleLimit
        /\ DOMAIN handles[s] \subseteq Nat
    BY DEF HandlesSound
  <2>2. IsFiniteSet(DOMAIN g) /\ Cardinality(DOMAIN g) <= Cardinality(DOMAIN handles[s])
    BY <1>2, <2>1, FS_Subset
  <2>3. Cardinality(DOMAIN g) \in Nat /\ Cardinality(DOMAIN handles[s]) \in Nat /\ HandleLimit \in Nat
    BY <2>1, <2>2, FS_CardinalityType, FilesAssumption
  <2>4. QED
    BY <1>2, <2>1, <2>2, <2>3
<1>5. QED
  BY <1>2, <1>3, <1>4 DEF HandlesSound

\* More of a handle is read.
LEMMA ConsumeSound ==
  ASSUME HandlesSound, NEW s \in Session, NEW id \in DOMAIN handles[s], NEW n \in Nat,
         UNCHANGED files, handles' = [handles EXCEPT ![s][id].consumed = @ + n]
  PROVE  HandlesSound' /\ \A u \in Session : u # s => handles'[u] = handles[u]
<1> DEFINE h == handles[s][id]
           k == [h EXCEPT !.consumed = @ + n]
           g == [handles[s] EXCEPT ![id] = k]
<1>1. handles' = [handles EXCEPT ![s] = g]
  OBVIOUS
<1>2. h \in HandleRecord /\ (h.linked => h.at \in DOMAIN files)
  BY DEF HandlesSound
<1>3. k \in HandleRecord /\ k.linked = h.linked /\ k.at = h.at
  <2> HIDE DEF h
  <2>1. QED
    BY <1>2 DEF HandleRecord
<1> HIDE DEF h, k
<1>4. DOMAIN g = DOMAIN handles[s] /\ \A i \in DOMAIN g : g[i] = IF i = id THEN k ELSE handles[s][i]
  OBVIOUS
<1> HIDE DEF g
<1>5. /\ DOMAIN handles' = Session /\ handles'[s] = g
      /\ \A u \in Session : u # s => handles'[u] = handles[u]
  BY <1>1 DEF HandlesSound
<1>6. QED
  BY <1>2, <1>3, <1>4, <1>5 DEF HandlesSound

\* The step of open gives its session a handle, for which there was room.
LEMMA OpenWithSound ==
  ASSUME DiskSound, HandlesSound, TodoSound, LockSound, NEW s \in Session, OpenWith(s)
  PROVE  /\ DiskSound' /\ HandlesSound'
         /\ \A u \in Session : u # s => handles'[u] = handles[u]
<1> DEFINE p == Now(s).at
           how == Now(s).how
           size == IF IsFile(p) /\ "truncate" \notin how THEN files[p] ELSE 0
           h == FileHandle(p, how, size)
<1>1. s \in Client /\ todo[s] # <<>> /\ Now(s).do = "open"
  BY DEF Client, OpenWith, Doing, Now
<1>2. p \in Path \cup {Root} /\ Cardinality(DOMAIN handles[s]) < HandleLimit
  BY <1>1, NowForms DEF Prepared, PreparedFor
<1>3. /\ IsFile(p) \/ (~Exists(p) /\ IsDir(Parent(p)))
      /\ files' = [q \in DOMAIN files \cup {p} |-> IF q = p THEN size ELSE files[q]]
      /\ Insert(s, next_handle_id(s), h) /\ dirs' = dirs
  BY DEF OpenWith
<1>4. p \in Path /\ (p \in DOMAIN files \/ Parent(p) \in dirs \cup {Root})
  BY <1>2, <1>3 DEF Exists, IsDir, IsFile, DiskSound
<1>5. size \in 0..MaxSize
  BY FilesAssumption DEF DiskSound, IsFile
<1> HIDE DEF size, p
<1>6. DiskSound' /\ DOMAIN files' = DOMAIN files \cup {p}
  BY <1>3, <1>4, <1>5, PutSound
<1>7. h \in HandleRecord /\ h.at = p
  <2>1. size \in Nat
    BY <1>5
  <2>2. QED
    BY <1>4, <2>1 DEF FileHandle, HandleRecord
<1>8. next_handle_id(s) \in Nat
  BY DEF next_handle_id, LockSound
<1>9. h.at \in DOMAIN files' /\ DOMAIN files \subseteq DOMAIN files'
  BY <1>6, <1>7
<1> HIDE DEF h
<1>10. HandlesSound' /\ \A u \in Session : u # s => handles'[u] = handles[u]
  BY <1>2, <1>3, <1>7, <1>8, <1>9, InsertSound
<1>11. QED
  BY <1>6, <1>10

(***************************************************************************)
(* The steps                                                               *)
(***************************************************************************)
\* What remains of a client's steps, and whose handles are others now.
TodoMoves(c) ==
  /\ todo[c] # <<>>
  /\ \/ todo' = todo
     \/ todo' = [todo EXCEPT ![c] = Tail(todo[c])]
     \/ todo' = [todo EXCEPT ![c] = <<>>]
     \/ todo' = [todo EXCEPT ![c] = <<[Now(c) EXCEPT !.do = "tree"]>> \o Tail(todo[c])]
  /\ \A s \in Session : (s = c /\ todo'[s] = <<>>) \/ SameHandles(s)

\* What a queued step needs is there as long as its session keeps its handles.
LEMMA StillPrepared ==
  ASSUME NEW c \in Client, NEW x, Prepared(c, x), c \in Session => SameHandles(c)
  PROVE  PreparedFor(c, x, Len(todo[c]), handles'[c])
BY DEF Prepared, PreparedFor, SameHandles

AllPrepared(c) ==
  /\ todo'[c] \in Seq(StepRecord)
  /\ \A i \in 1..Len(todo'[c]) : PreparedFor(c, todo'[c][i], Len(todo'[c]), handles'[c])

\* Doing or dropping a step leaves those that remain prepared.
LEMMA TodoStep ==
  ASSUME TodoSound, NEW c \in Client, TodoMoves(c)
  PROVE  TodoSound'
<1>1. todo \in [Client -> Seq(StepRecord)] /\ \A d \in Client : \A i \in 1..Len(todo[d]) : Prepared(d, todo[d][i])
  BY DEF TodoSound
<1>2. ASSUME NEW d \in Client, todo'[d] = todo[d]
      PROVE  AllPrepared(d)
  <2>1. CASE todo'[d] = <<>>
    BY <2>1 DEF AllPrepared
  <2>2. CASE todo'[d] # <<>>
    <3>1. d \in Session => SameHandles(d)
      BY <2>2 DEF TodoMoves
    <3>2. QED
      BY <1>1, <1>2, <3>1, StillPrepared DEF AllPrepared
  <2>3. QED
    BY <2>1, <2>2
<1>3. ASSUME todo'[c] = <<>>
      PROVE  AllPrepared(c)
  BY <1>3 DEF AllPrepared
<1> DEFINE t == Tail(todo[c])
<1>4. /\ t \in Seq(StepRecord) /\ \A i \in 1..Len(t) : Prepared(c, t[i])
      /\ Len(todo[c]) = 1 => t = <<>>
      /\ Len(t) \in Nat /\ Len(todo[c]) = Len(t) + 1
  <2>1. todo[c] # <<>> /\ todo[c] \in Seq(StepRecord)
    BY <1>1 DEF TodoMoves
  <2>2. Len(t) = Len(todo[c]) - 1 /\ Len(t) \in Nat /\ Len(todo[c]) \in Nat
    BY <2>1, NowForms, HeadTailProperties, LenProperties
  <2>3. QED
    BY <2>1, <2>2, NowForms
<1> HIDE DEF t
<1>5. ASSUME todo'[c] = t, t # <<>>
      PROVE  AllPrepared(c)
  <2>1. c \in Session => SameHandles(c)
    BY <1>5 DEF TodoMoves
  <2>2. Len(todo[c]) # 1
    BY <1>4, <1>5
  <2>3. ASSUME NEW i \in 1..Len(t)
        PROVE  PreparedFor(c, t[i], Len(t), handles'[c])
    <3>1. PreparedFor(c, t[i], Len(todo[c]), handles'[c])
      BY <1>4, <2>1, StillPrepared
    <3>2. QED
      BY <2>2, <3>1 DEF PreparedFor
  <2>4. QED
    BY <1>4, <1>5, <2>3 DEF AllPrepared
<1> DEFINE x == [Now(c) EXCEPT !.do = "tree"]
<1>6. ASSUME todo'[c] = <<x>> \o t
      PROVE  AllPrepared(c)
  <2>1. x \in StepRecord /\ x.do = "tree"
    BY NowForms DEF TodoMoves, StepRecord
  <2> HIDE DEF x
  <2>2. <<x>> \in Seq(StepRecord) /\ Len(<<x>>) = 1 /\ <<x>>[1] = x
    BY <2>1
  <2>3. /\ <<x>> \o t \in Seq(StepRecord) /\ Len(<<x>> \o t) = 1 + Len(t)
        /\ \A i \in 1..(1 + Len(t)) : (<<x>> \o t)[i] = IF i <= 1 THEN <<x>>[i] ELSE t[i - 1]
    BY <1>4, <2>2, ConcatProperties
  <2>4. c \in Session => SameHandles(c)
    <3>1. todo'[c] # <<>>
      BY <1>4, <1>6, <2>3
    <3>2. QED
      BY <3>1 DEF TodoMoves
  <2>5. ASSUME NEW i \in 1..(1 + Len(t))
        PROVE  PreparedFor(c, (<<x>> \o t)[i], Len(todo[c]), handles'[c])
    <3>1. CASE i = 1
      BY <2>1, <2>2, <2>3, <3>1 DEF PreparedFor
    <3>2. CASE i # 1
      <4>1. i - 1 \in 1..Len(t) /\ (<<x>> \o t)[i] = t[i - 1]
        BY <1>4, <2>3, <3>2
      <4>2. PreparedFor(c, t[i - 1], Len(todo[c]), handles'[c])
        BY <1>4, <2>4, <4>1, StillPrepared
      <4>3. QED
        BY <4>1, <4>2
    <3>3. QED
      BY <3>1, <3>2
  <2>6. Len(<<x>> \o t) = Len(todo[c])
    BY <1>4, <2>3
  <2>7. QED
    BY <1>4, <1>6, <2>3, <2>5, <2>6 DEF AllPrepared
<1> HIDE DEF x
<1>7. /\ \/ todo' = todo
         \/ \E v \in {t, <<>>, <<x>> \o t} : todo' = [todo EXCEPT ![c] = v]
      /\ x = [Now(c) EXCEPT !.do = "tree"]
  BY DEF TodoMoves, t, x
<1>8. \A d \in Client : AllPrepared(d)
  <2>1. CASE todo' = todo
    BY <1>2, <2>1
  <2>2. ASSUME NEW v \in {t, <<>>, <<x>> \o t}, todo' = [todo EXCEPT ![c] = v]
        PROVE  \A d \in Client : AllPrepared(d)
    <3>1. todo'[c] = v /\ \A d \in Client : d # c => todo'[d] = todo[d]
      BY <1>1, <2>2
    <3>2. AllPrepared(c)
      BY <1>3, <1>5, <1>6, <3>1
    <3>3. QED
      BY <1>2, <3>1, <3>2
  <2>3. QED
    BY <1>7, <2>1, <2>2
<1>9. todo' \in [Client -> Seq(StepRecord)]
  <2>1. \A d \in Client : todo'[d] \in Seq(StepRecord)
    BY <1>8 DEF AllPrepared
  <2>2. todo' = [d \in Client |-> todo'[d]]
    BY <1>1, <1>7
  <2>3. QED
    BY <2>1, <2>2
<1>10. QED
  BY <1>8, <1>9 DEF TodoSound, Prepared, AllPrepared

\* The steps that leave the files alone.
UsageSteps(c) ==
  \/ Allocate(c) \/ AllocateTree(c) \/ Forget(c) \/ Rehang(c) \/ Clear(c) \/ Zero(c) \/ Fails(c)

FileSteps(c) ==
  \/ Unlink(c) \/ RemoveDirAll(c) \/ MakeDir(c) \/ Move(c) \/ Copy(c) \/ Put(c)
  \/ (c \in Session /\ WriteAt(c))

\* Steps of the accounting; a panic of rename_path closes the session and drops its queue.
LEMMA UsageStepMoves ==
  ASSUME DiskSound, HandlesSound, TodoSound, NEW c \in Client, UsageSteps(c)
  PROVE  DiskSound' /\ HandlesSound' /\ TodoMoves(c)
<1>1. UNCHANGED disk
  BY DEF UsageSteps, Allocate, AllocateTree, Forget, Rehang, Clear, Zero, Fails
<1>2. DiskSound'
  BY <1>1 DEF disk, DiskSound
<1>3. /\ todo[c] # <<>>
      /\ \/ todo' = [todo EXCEPT ![c] = Tail(todo[c])]
         \/ todo' = [todo EXCEPT ![c] = <<>>]
         \/ todo' = [todo EXCEPT ![c] = <<[Now(c) EXCEPT !.do = "tree"]>> \o Tail(todo[c])]
  BY DEF UsageSteps, Allocate, AllocateTree, Forget, Rehang, Clear, Zero, Fails, Done, Drop, Doing
<1>4. \/ handles' = handles
      \/ c \in Session /\ handles' = [handles EXCEPT ![c] = <<>>] /\ todo' = [todo EXCEPT ![c] = <<>>]
  BY DEF UsageSteps, Allocate, AllocateTree, Forget, Rehang, Clear, Zero, Fails, Drop
<1>5. HandlesSound'
  BY <1>1, <1>4, EmptySound DEF disk
<1>6. \A s \in Session : (s = c /\ todo'[s] = <<>>) \/ SameHandles(s)
  <2>1. CASE handles' = handles
    BY <2>1 DEF SameHandles
  <2>2. CASE c \in Session /\ handles' = [handles EXCEPT ![c] = <<>>] /\ todo' = [todo EXCEPT ![c] = <<>>]
    <3>1. todo'[c] = <<>> /\ \A s \in Session : s # c => handles'[s] = handles[s]
      BY <2>2 DEF TodoSound, HandlesSound
    <3>2. QED
      BY <3>1 DEF SameHandles
  <2>3. QED
    BY <1>4, <2>1, <2>2
<1>7. QED
  BY <1>2, <1>3, <1>5, <1>6 DEF TodoMoves

\* Steps that change files leave each session its handles.
LEMMA FileStepMoves ==
  ASSUME DiskSound, HandlesSound, TodoSound, NEW c \in Client, FileSteps(c)
  PROVE  DiskSound' /\ HandlesSound' /\ TodoMoves(c)
<1>1. DiskSound' /\ Followed
  BY UnlinkSound, RemoveSound, MakeDirSound, MoveSound, CopySound, PutsSound, WriteAtSound DEF FileSteps
<1>2. /\ todo[c] # <<>>
      /\ \/ todo' = todo
         \/ todo' = [todo EXCEPT ![c] = Tail(todo[c])]
  BY DEF FileSteps, Unlink, RemoveDirAll, MakeDir, Move, Copy, Put, WriteAt, Done, Doing
<1>3. QED
  BY <1>1, <1>2, FollowedIsSound DEF Followed, TodoMoves

\* The only step that adds a handle is the last of its queue.
LEMMA OpenStepMoves ==
  ASSUME DiskSound, HandlesSound, TodoSound, LockSound, NEW c \in Session, OpenWith(c)
  PROVE  DiskSound' /\ HandlesSound' /\ TodoMoves(c)
<1>1. DiskSound' /\ HandlesSound' /\ \A s \in Session : s # c => handles'[s] = handles[s]
  BY OpenWithSound
<1>2. todo[c] # <<>> /\ todo' = [todo EXCEPT ![c] = Tail(todo[c])] /\ Now(c).do = "open" /\ c \in Client
  BY DEF OpenWith, Doing, Done, Now, Client
<1>3. Tail(todo[c]) = <<>>
  BY <1>2, NowForms DEF Prepared, PreparedFor
<1>4. todo'[c] = <<>>
  BY <1>2, <1>3 DEF TodoSound
<1>5. QED
  BY <1>1, <1>2, <1>4 DEF TodoMoves, SameHandles

\* A step on a file keeps the disk and the handles sound, and moves what is left to do in order.
LEMMA StepMoves ==
  ASSUME DiskSound, HandlesSound, TodoSound, LockSound, NEW c \in Client, TakesStep(c)
  PROVE  DiskSound' /\ HandlesSound' /\ TodoSound' /\ TodoMoves(c)
<1>1. UsageSteps(c) \/ FileSteps(c) \/ (c \in Session /\ OpenWith(c))
  BY DEF TakesStep, UsageSteps, FileSteps
<1>2. DiskSound' /\ HandlesSound' /\ TodoMoves(c)
  BY <1>1, UsageStepMoves, FileStepMoves, OpenStepMoves
<1>3. QED
  BY <1>2, TodoStep

\* The usage stays a number through every step.
LEMMA StepUsage ==
  ASSUME UsageSound, TodoSound, NEW c \in Client, TakesStep(c)
  PROVE  UsageSound'
<1>1. UNCHANGED scanner
  BY DEF TakesStep, Allocate, AllocateTree, Forget, Rehang, Clear, Zero, Unlink, RemoveDirAll, MakeDir,
         Move, Copy, Put, OpenWith, WriteAt, Fails, StepKeeps
<1>2. CASE UNCHANGED usage
  BY <1>1, <1>2 DEF usage, UsageSound
<1>3. CASE Allocate(c)
  <2>1. Now(c).n \in Int
    BY <1>3, NowForms DEF Allocate, Doing
  <2>2. Positive(cached + Now(c).n) \in Nat
    BY <2>1, PositiveIsNumber DEF UsageSound
  <2>3. cached' \in Nat /\ tree' = tree
    BY <1>3, <2>2 DEF Allocate, UsageSound
  <2>4. QED
    BY <1>1, <2>3 DEF UsageSound
<1>4. CASE AllocateTree(c)
  <2>1. tree' = update_size(tree, Now(c).at, Now(c).n) /\ cached' = cached /\ todo[c] # <<>>
    BY <1>4 DEF AllocateTree, Doing
  <2>2. Usages(tree')
    BY <2>1, NowForms, UpdateKeeps DEF UsageSound
  <2>3. QED
    BY <1>1, <2>1, <2>2 DEF UsageSound
<1>5. CASE Forget(c) \/ Rehang(c)
  <2>1. tree' = remove_path(tree, Now(c).at) /\ cached' = cached
    BY <1>5 DEF Forget, Rehang
  <2>2. Usages(tree')
    BY <2>1, RemoveKeeps DEF UsageSound
  <2>3. QED
    BY <1>1, <2>1, <2>2 DEF UsageSound
<1>6. CASE Clear(c)
  <2>1. tree' = <<>> /\ cached' = cached
    BY <1>6 DEF Clear
  <2>2. Usages(tree')
    BY <2>1 DEF Usages
  <2>3. QED
    BY <1>1, <2>1, <2>2 DEF UsageSound
<1>7. CASE Zero(c)
  BY <1>1, <1>7 DEF Zero, UsageSound
<1>8. QED
  BY <1>2, <1>3, <1>4, <1>5, <1>6, <1>7
     DEF TakesStep, Unlink, RemoveDirAll, MakeDir, Move, Copy, Put, OpenWith, WriteAt, Fails

\* Only a session's request that was under way touches files under a lock.
LEMMA StepLock ==
  ASSUME HandlesSound, TodoSound, LockSound, NEW c \in Client, TakesStep(c), TodoMoves(c)
  PROVE  LockSound'
<1>1. Marked(c) = FALSE
  BY DEF LockSound, TodoMoves, Marked
<1>2. intruded' = FALSE
  BY <1>1 DEF LockSound, TakesStep, Allocate, AllocateTree, Forget, Rehang, Clear, Zero, Unlink,
              RemoveDirAll, MakeDir, Move, Copy, Put, OpenWith, WriteAt, Fails, history
<1>3. locked' = locked /\ excused' = excused
  BY DEF TakesStep, Allocate, AllocateTree, Forget, Rehang, Clear, Zero, Unlink, RemoveDirAll, MakeDir,
         Move, Copy, Put, OpenWith, WriteAt, Fails, StepKeeps, history
<1>4. \/ session' = session
      \/ c \in Session /\ session' = [session EXCEPT ![c] = "closed"] /\ todo' = [todo EXCEPT ![c] = <<>>]
  BY DEF TakesStep, Allocate, AllocateTree, Forget, Rehang, Clear, Zero, Unlink, RemoveDirAll, MakeDir,
         Move, Copy, Put, OpenWith, WriteAt, Fails, StepKeeps, Drop
<1>5. handle_id' = handle_id \/ \E s \in Session : handle_id' = [handle_id EXCEPT ![s] = @ + 1]
  BY DEF TakesStep, Allocate, AllocateTree, Forget, Rehang, Clear, Zero, Unlink, RemoveDirAll, MakeDir,
         Move, Copy, Put, OpenWith, WriteAt, Fails, StepKeeps, Insert
<1>6. handle_id' \in [Session -> Nat]
  BY <1>5 DEF LockSound
<1>7. session' \in [Session -> {"none", "auth", "open", "closed"}]
  BY <1>4 DEF LockSound
<1>8. \A s \in Session : todo'[s] # <<>> => todo[s] # <<>>
  BY DEF TodoMoves, TodoSound, Client
<1>9. ASSUME NEW s \in Session, todo'[s] # <<>>
      PROVE  session'[s] = "open" /\ (locked' => excused'[s])
  <2>1. session[s] = "open" /\ (locked => excused[s])
    BY <1>8, <1>9 DEF LockSound
  <2>2. session'[s] = session[s]
    BY <1>4, <1>9 DEF LockSound, TodoSound, Client
  <2>3. QED
    BY <1>3, <2>1, <2>2
<1>10. QED
  BY <1>2, <1>3, <1>6, <1>7, <1>9 DEF LockSound

\* A step of any client keeps the invariant.
LEMMA StepKeepsAll ==
  ASSUME FilesInvariant, NEW c \in Client, TakesStep(c)
  PROVE  FilesInvariant'
BY StepMoves, StepUsage, StepLock DEF FilesInvariant

(***************************************************************************)
(* The requests                                                            *)
(***************************************************************************)
LEMMA QueueSound ==
  ASSUME TodoSound, NEW c \in Client, NEW Q \in SUBSET StepRecord, NEW v \in Seq(Q),
         \A x \in Q : PreparedFor(c, x, Len(v), handles[c]),
         todo' = [todo EXCEPT ![c] = v], UNCHANGED handles
  PROVE  TodoSound' /\ \A d \in Client : d # c => todo'[d] = todo[d]
<1>1. v \in Seq(StepRecord) /\ \A i \in 1..Len(v) : v[i] \in Q
  BY SeqMonotonic, ElementOfSeq
<1>2. todo' \in [Client -> Seq(StepRecord)] /\ todo'[c] = v /\ \A d \in Client : d # c => todo'[d] = todo[d]
  BY <1>1 DEF TodoSound
<1>3. \A i \in 1..Len(v) : PreparedFor(c, v[i], Len(v), handles[c])
  BY <1>1
<1>4. ASSUME NEW d \in Client, NEW i \in 1..Len(todo'[d])
      PROVE  PreparedFor(d, todo'[d][i], Len(todo'[d]), handles'[d])
  BY <1>2, <1>3 DEF TodoSound, Prepared
<1>5. QED
  BY <1>2, <1>4 DEF TodoSound, Prepared

\* A plain step needs nothing.
LEMMA PlainIsPrepared ==
  ASSUME NEW c, NEW x \in Plain, NEW n, NEW hs
  PROVE  PreparedFor(c, x, n, hs)
BY DEF PreparedFor, Plain

\* The queue of a session's request that the lock allowed.
LEMMA QueuesSound ==
  ASSUME FilesInvariant, NEW s \in Session, NEW Q \in SUBSET StepRecord, NEW v \in Seq(Q),
         \A x \in Q : PreparedFor(s, x, Len(v), handles[s]),
         Ready(s), ~locked, Queues(s, v)
  PROVE  FilesInvariant'
<1>1. s \in Client
  BY DEF Client
<1>2. UNCHANGED <<disk, usage, scanner, handles, handle_id, session, locked, intruded>>
      /\ todo' = [todo EXCEPT ![s] = v] /\ excused' = [excused EXCEPT ![s] = FALSE]
  BY DEF Queues, Answers, SessionKeeps
<1>3. TodoSound' /\ \A d \in Client : d # s => todo'[d] = todo[d]
  BY <1>1, <1>2, QueueSound DEF FilesInvariant
<1>4. DiskSound' /\ HandlesSound' /\ UsageSound'
  BY <1>2 DEF FilesInvariant, disk, usage, DiskSound, HandlesSound, UsageSound
<1>5. LockSound'
  BY <1>2, <1>3 DEF FilesInvariant, LockSound, Ready, Client
<1>6. QED
  BY <1>3, <1>4, <1>5 DEF FilesInvariant

\* A client's queue remains: one of no steps, or of steps on handles that are as they were.
LEMMA TodoSame ==
  ASSUME TodoSound, UNCHANGED todo, \A s \in Session : todo[s] = <<>> \/ SameHandles(s)
  PROVE  TodoSound'
<1>1. todo' \in [Client -> Seq(StepRecord)]
  BY DEF TodoSound
<1>2. ASSUME NEW d \in Client, NEW i \in 1..Len(todo[d])
      PROVE  PreparedFor(d, todo[d][i], Len(todo[d]), handles'[d])
  <2>1. Prepared(d, todo[d][i]) /\ todo[d] # <<>>
    BY <1>2 DEF TodoSound
  <2>2. d \in Session => SameHandles(d)
    BY <2>1
  <2>3. QED
    BY <2>1, <2>2, StillPrepared
<1>3. QED
  BY <1>1, <1>2 DEF TodoSound, Prepared

\* An answer of a session that leaves no steps.
LEMMA AnswerSound ==
  ASSUME FilesInvariant, NEW s \in Session, Ready(s), Answers(s), UNCHANGED todo,
         HandlesSound', \A u \in Session : u # s => handles'[u] = handles[u],
         handle_id' = handle_id \/ handle_id' = [handle_id EXCEPT ![s] = @ + 1]
  PROVE  FilesInvariant'
<1>1. UNCHANGED <<disk, usage, scanner, session, locked, intruded>> /\ todo[s] = <<>>
      /\ excused' = [excused EXCEPT ![s] = FALSE]
  BY DEF Answers, SessionKeeps, Ready
<1>2. DiskSound' /\ UsageSound'
  BY <1>1 DEF FilesInvariant, disk, usage, DiskSound, UsageSound
<1>3. TodoSound'
  <2>1. \A u \in Session : todo[u] = <<>> \/ SameHandles(u)
    BY <1>1 DEF SameHandles
  <2>2. QED
    BY <2>1, TodoSame DEF FilesInvariant
<1>4. LockSound'
  <2>1. handle_id' \in [Session -> Nat]
    BY DEF FilesInvariant, LockSound
  <2>2. excused' \in [Session -> BOOLEAN] /\ \A u \in Session : u # s => excused'[u] = excused[u]
    BY <1>1 DEF FilesInvariant, LockSound
  <2>3. \A u \in Session : todo'[u] # <<>> => session'[u] = "open" /\ (locked' => excused'[u])
    BY <1>1, <2>2 DEF FilesInvariant, LockSound
  <2>4. QED
    BY <1>1, <2>1, <2>2, <2>3 DEF FilesInvariant, LockSound
<1>5. QED
  BY <1>2, <1>3, <1>4 DEF FilesInvariant

\* A session that is let in, or opened, has no steps.
LEMMA EntersSound ==
  ASSUME FilesInvariant, NEW s \in Session, Authenticate(s) \/ SubsystemRequest(s)
  PROVE  FilesInvariant'
<1>1. UNCHANGED <<disk, usage, scanner, locked, todo, history>> /\ session[s] # "open"
      /\ \E x \in {"auth", "open"} : session' = [session EXCEPT ![s] = x]
      /\ (handle_id' = handle_id \/ handle_id' = [handle_id EXCEPT ![s] = 0])
      /\ (handles' = handles \/ handles' = [handles EXCEPT ![s] = <<>>])
  BY DEF Authenticate, SubsystemRequest, SessionKeeps
<1>2. todo[s] = <<>> /\ \A u \in Session : u # s => handles'[u] = handles[u]
  BY <1>1 DEF FilesInvariant, LockSound, HandlesSound
<1>3. DiskSound' /\ UsageSound'
  BY <1>1 DEF FilesInvariant, disk, usage, DiskSound, UsageSound
<1>4. HandlesSound'
  BY <1>1, EmptySound DEF FilesInvariant, disk
<1>5. TodoSound'
  <2>1. \A u \in Session : todo[u] = <<>> \/ SameHandles(u)
    BY <1>2 DEF SameHandles
  <2>2. QED
    BY <1>1, <2>1, TodoSame DEF FilesInvariant
<1>6. LockSound'
  <2>1. handle_id' \in [Session -> Nat]
    BY <1>1 DEF FilesInvariant, LockSound
  <2>2. /\ session' \in [Session -> {"none", "auth", "open", "closed"}]
        /\ \A u \in Session : u # s => session'[u] = session[u]
    BY <1>1 DEF FilesInvariant, LockSound
  <2>3. excused' = excused /\ intruded' = intruded /\ todo' = todo /\ locked' = locked
    BY <1>1 DEF history
  <2>4. \A u \in Session : todo'[u] # <<>> => session'[u] = "open" /\ (locked' => excused'[u])
    BY <1>2, <2>2, <2>3 DEF FilesInvariant, LockSound
  <2>5. QED
    BY <2>1, <2>2, <2>3, <2>4 DEF FilesInvariant, LockSound
<1>7. QED
  BY <1>3, <1>4, <1>5, <1>6 DEF FilesInvariant

\* Requests that queue steps which need nothing.
LEMMA PlainRequests ==
  ASSUME FilesInvariant, NEW s \in Session, NEW p \in Path, NEW q \in Path,
         RemoveFile(s, p) \/ Rmdir(s, p) \/ Mkdir(s, p) \/ Rename(s, p, q) \/ CopyFileRequest(s, p, q)
  PROVE  FilesInvariant'
<1>1. ASSUME NEW v \in Seq(Plain), Ready(s), ~locked, Queues(s, v)
      PROVE  FilesInvariant'
  <2>1. Plain \in SUBSET StepRecord
    BY DEF Plain
  <2>2. \A x \in Plain : PreparedFor(s, x, Len(v), handles[s])
    BY PlainIsPrepared
  <2> HIDE DEF Plain
  <2>3. QED
    BY <1>1, <2>1, <2>2, QueuesSound
<1>2. DiskSound /\ UsageSound
  BY DEF FilesInvariant
<1>3. CASE RemoveFile(s, p)
  <2>1. IsFile(p) /\ Ready(s) /\ ~locked /\ Queues(s, TruncatePath(p) \o Charge(Parent(p), -files[p]))
    BY <1>3 DEF RemoveFile, allow_action
  <2>2. -files[p] \in Int /\ "count" \in PlainDo /\ Parent(p) \in Path \cup {Root}
    BY <1>2, <2>1, FilesAssumption, Parents DEF DiskSound, IsFile, PlainDo
  <2>3. TruncatePath(p) \in Seq(Plain) /\ Charge(Parent(p), -files[p]) \in Seq(Plain)
    BY <1>2, <2>1, <2>2, QueueForms, PlainForms DEF Exists
  <2>4. TruncatePath(p) \o Charge(Parent(p), -files[p]) \in Seq(Plain)
    BY <2>3, ConcatProperties
  <2>5. QED
    BY <1>1, <2>1, <2>4
<1>4. CASE Rmdir(s, p)
  <2>1. Exists(p) /\ Ready(s) /\ ~locked /\ Queues(s, TruncatePath(p))
    BY <1>4 DEF Rmdir, allow_action, Exists, IsDir
  <2>2. QED
    BY <1>1, <1>2, <2>1, QueueForms
<1>5. CASE Mkdir(s, p)
  <2>1. Ready(s) /\ ~locked /\ Queues(s, <<Step("mkdir", p)>>)
    BY <1>5 DEF Mkdir, allow_action
  <2>2. "mkdir" \in PlainDo
    BY DEF PlainDo
  <2>3. Step("mkdir", p) \in Plain
    BY <2>2, PlainForms
  <2>4. <<Step("mkdir", p)>> \in Seq(Plain)
    BY <2>3
  <2>5. QED
    BY <1>1, <2>1, <2>4
<1>6. CASE Rename(s, p, q)
  <2>1. Exists(p) /\ Ready(s) /\ ~locked /\ Queues(s, RenamePath(p, q))
    BY <1>6 DEF Rename, allow_action
  <2>2. QED
    BY <1>1, <1>2, <2>1, QueueForms
<1>7. CASE CopyFileRequest(s, p, q)
  <2>1. IsFile(p) /\ Ready(s) /\ ~locked /\ Queues(s, CopyFile(p, q))
    BY <1>7 DEF CopyFileRequest, allow_action
  <2>2. QED
    BY <1>1, <1>2, <2>1, QueueForms
<1>8. QED
  BY <1>3, <1>4, <1>5, <1>6, <1>7

\* The file is opened in a step of its own, with room for its handle seen to.
LEMMA OpenFileSound ==
  ASSUME FilesInvariant, NEW s \in Session, NEW p \in Path,
         NEW how \in SUBSET {"strict", "write", "create", "truncate"}, OpenFile(s, p, how)
  PROVE  FilesInvariant'
<1> DEFINE x == [Step("open", p) EXCEPT !.how = how]
<1>1. Ready(s) /\ ~locked /\ Cardinality(DOMAIN handles[s]) < HandleLimit /\ Queues(s, <<x>>)
  BY DEF OpenFile, allow_action
<1>2. x \in StepRecord
  <2>1. 0 \in Int /\ 0 \in Nat
    OBVIOUS
  <2>2. QED
    BY <2>1, StepForms
<1>3. x.do = "open"
  BY DEF Step
<1> HIDE DEF x
<1>4. {x} \in SUBSET StepRecord /\ <<x>> \in Seq({x}) /\ Len(<<x>>) = 1
  BY <1>2
<1>5. \A y \in {x} : PreparedFor(s, y, Len(<<x>>), handles[s])
  BY <1>1, <1>3, <1>4 DEF PreparedFor
<1>6. QED
  BY <1>1, <1>4, <1>5, QueuesSound

\* A handle that is to be written through stays till its write is done.
LEMMA WriteDataSound ==
  ASSUME FilesInvariant, NEW s \in Session, NEW id \in DOMAIN handles[s],
         NEW end \in 1..MaxSize, NEW n \in 1..end, WriteData(s, id, n, end)
  PROVE  FilesInvariant'
<1> DEFINE p == Parent(handles[s][id].path)
           x == [Step("write", Root) EXCEPT !.id = id, !.n = end]
           v == ChargeOrFail(p, n) \o <<x>>
           Q == Plain \cup {x}
<1>1. Ready(s) /\ ~locked /\ Is(s, id, "file") /\ Queues(s, v)
  BY DEF WriteData, allow_action
<1>2. handles[s][id].path \in Path \cup {Root} /\ id \in Nat
  BY DEF FilesInvariant, HandlesSound, HandleRecord
<1>3. p \in Path \cup {Root} /\ n \in Int /\ end \in Int /\ "count" \in PlainDo
  BY <1>2, Parents, FilesAssumption DEF PlainDo
<1>4. ChargeOrFail(p, n) \in Seq(Plain)
  BY <1>3, PlainForms
<1>5. x \in StepRecord
  <2>1. "write" \in PlainDo \cup {"open", "write", "put"} /\ Root \in Path \cup {Root}
        /\ {} \in SUBSET {"strict", "write", "create", "truncate"}
    OBVIOUS
  <2>2. QED
    BY <1>2, <1>3, <2>1, StepForms
<1>6. x.do = "write" /\ x.id = id /\ x.n = end
  BY DEF Step
<1> HIDE DEF x, p
<1>7. Q \in SUBSET StepRecord /\ <<x>> \in Seq(Q)
  BY <1>5 DEF Plain
<1>8. v \in Seq(Q)
  <2>1. ChargeOrFail(p, n) \in Seq(Q)
    BY <1>4, SeqMonotonic
  <2> HIDE DEF Q
  <2>2. QED
    BY <1>7, <2>1, ConcatProperties
<1> HIDE DEF v
<1>9. ASSUME NEW y \in Q
      PROVE  PreparedFor(s, y, Len(v), handles[s])
  <2>1. CASE y \in Plain
    BY <2>1, PlainIsPrepared
  <2>2. CASE y = x
    BY <1>1, <1>6, <2>2 DEF PreparedFor, Is
  <2>3. QED
    BY <2>1, <2>2
<1> HIDE DEF Q
<1>10. QED
  BY <1>1, <1>7, <1>8, <1>9, QueuesSound

\* A directory is opened at once, with room for its handle.
LEMMA OpendirSound ==
  ASSUME FilesInvariant, NEW s \in Session, NEW p \in Path, Opendir(s, p)
  PROVE  FilesInvariant'
<1>1. /\ Ready(s) /\ Cardinality(DOMAIN handles[s]) < HandleLimit
      /\ Insert(s, next_handle_id(s), DirHandle(p)) /\ Answers(s) /\ todo' = todo
  BY DEF Opendir
<1>2. next_handle_id(s) \in Nat /\ files' = files
  BY <1>1 DEF FilesInvariant, LockSound, next_handle_id, Answers, SessionKeeps, disk
<1>3. DirHandle(p) \in HandleRecord /\ ~DirHandle(p).linked
  BY DEF DirHandle, HandleRecord
<1>4. /\ HandlesSound' /\ handle_id' = [handle_id EXCEPT ![s] = @ + 1]
      /\ \A u \in Session : u # s => handles'[u] = handles[u]
  BY <1>1, <1>2, <1>3, InsertSound DEF FilesInvariant
<1>5. QED
  BY <1>1, <1>4, AnswerSound

\* Closing a handle, or reading on through it.
LEMMA HandleRequests ==
  ASSUME FilesInvariant, NEW s \in Session, NEW id \in DOMAIN handles[s],
         Close(s, id) \/ Readdir(s, id) \/ Read(s, id)
  PROVE  FilesInvariant'
<1>1. Ready(s) /\ Answers(s) /\ handle_id' = handle_id /\ todo' = todo /\ files' = files
  BY DEF Close, Readdir, Read, Answers, SessionKeeps, disk
<1>2. ASSUME NEW n \in Nat, handles' = [handles EXCEPT ![s][id].consumed = @ + n]
      PROVE  HandlesSound' /\ \A u \in Session : u # s => handles'[u] = handles[u]
  BY <1>1, <1>2, ConsumeSound DEF FilesInvariant
<1>3. HandlesSound' /\ \A u \in Session : u # s => handles'[u] = handles[u]
  <2>1. CASE Close(s, id)
    BY <1>1, <2>1, CloseSound DEF FilesInvariant, Close
  <2>2. CASE Readdir(s, id)
    <3>1. PICK n \in 0..Min({SendAmount, EntryLimit - handles[s][id].consumed,
                             Cardinality({q \in DOMAIN files \cup dirs :
                                            Parent(q) = handles[s][id].path})}) :
            handles' = [handles EXCEPT ![s][id].consumed = @ + n]
      BY <2>2 DEF Readdir
    <3>2. n \in Nat
      OBVIOUS
    <3>3. QED
      BY <1>2, <3>1, <3>2
  <2>3. CASE Read(s, id)
    <3>1. PICK n \in 0..(IF handles[s][id].linked THEN files[handles[s][id].at] ELSE MaxSize) :
            handles' = [handles EXCEPT ![s][id].consumed = @ + n]
      BY <2>3 DEF Read
    <3>2. n \in Nat
      OBVIOUS
    <3>3. QED
      BY <1>2, <3>1, <3>2
  <2>4. QED
    BY <2>1, <2>2, <2>3
<1>4. QED
  BY <1>1, <1>3, AnswerSound

\* A request of a session keeps the invariant.
LEMMA RequestKeepsAll ==
  ASSUME FilesInvariant, NEW s \in Session, SftpRequests(s)
  PROVE  FilesInvariant'
<1>1. \A how \in {{}, {"write"}, {"write", "create"}, {"write", "truncate"}} :
        how \in SUBSET {"strict", "write", "create", "truncate"}
  OBVIOUS
<1>2. CASE Authenticate(s) \/ SubsystemRequest(s)
  BY <1>2, EntersSound
<1>3. ASSUME NEW p \in Path,
             \/ RemoveFile(s, p) \/ Rmdir(s, p) \/ Mkdir(s, p) \/ Opendir(s, p)
             \/ \E q \in Path : Rename(s, p, q) \/ CopyFileRequest(s, p, q)
             \/ \E how \in {{}, {"write"}, {"write", "create"}, {"write", "truncate"}} : OpenFile(s, p, how)
      PROVE  FilesInvariant'
  BY <1>1, <1>3, PlainRequests, OpendirSound, OpenFileSound
<1>4. ASSUME NEW id \in DOMAIN handles[s],
             \/ Close(s, id) \/ Readdir(s, id) \/ Read(s, id)
             \/ \E end \in 1..MaxSize : \E n \in 1..end : WriteData(s, id, n, end)
      PROVE  FilesInvariant'
  BY <1>4, HandleRequests, WriteDataSound
<1>5. QED
  BY <1>2, <1>3, <1>4 DEF SftpRequests

(***************************************************************************)
(* The routes                                                              *)
(***************************************************************************)
\* A route queues its steps for itself.
LEMMA CalledSound ==
  ASSUME FilesInvariant, NEW r \in Route, NEW Q \in SUBSET StepRecord, NEW v \in Seq(Q),
         \A x \in Q : x \in Plain \/ (x.do = "put" /\ x.n \in 1..MaxSize), Called(r, v)
  PROVE  FilesInvariant'
<1>1. r \in Client /\ r \notin Session /\ \A s \in Session : s \in Client /\ s # r
  BY FilesAssumption DEF Client
<1>2. /\ UNCHANGED <<disk, usage, scanner, sftp, locked, history>>
      /\ todo' = [todo EXCEPT ![r] = v]
  BY DEF Called, SessionKeeps
<1>3. \A x \in Q : PreparedFor(r, x, Len(v), handles[r])
  BY <1>1, PlainIsPrepared DEF PreparedFor
<1>4. TodoSound' /\ \A d \in Client : d # r => todo'[d] = todo[d]
  BY <1>1, <1>2, <1>3, QueueSound DEF FilesInvariant, sftp
<1>5. DiskSound' /\ HandlesSound' /\ UsageSound'
  BY <1>2 DEF FilesInvariant, disk, usage, sftp, DiskSound, HandlesSound, UsageSound
<1>6. LockSound'
  BY <1>1, <1>2, <1>4 DEF FilesInvariant, LockSound, sftp, history
<1>7. QED
  BY <1>4, <1>5, <1>6 DEF FilesInvariant

\* A call of a route that queues plain steps.
LEMMA PlainCalls ==
  ASSUME FilesInvariant, NEW r \in Route, NEW v \in Seq(Plain), Called(r, v)
  PROVE  FilesInvariant'
<1>1. Plain \in SUBSET StepRecord
  BY DEF Plain
<1> HIDE DEF Plain
<1>2. \A x \in Plain : x \in Plain \/ (x.do = "put" /\ x.n \in 1..MaxSize)
  OBVIOUS
<1>3. QED
  BY <1>1, <1>2, CalledSound

\* The route that writes a file queues what is within MaxSize.
LEMMA WriteFileSound ==
  ASSUME FilesInvariant, NEW r \in Route, NEW p \in Path, NEW n \in 1..MaxSize,
         NEW length \in {0, n}, WriteFile(r, p, n, length)
  PROVE  FilesInvariant'
<1> DEFINE m == length - (IF IsFile(p) THEN files[p] ELSE 0)
           x == [Step("put", p) EXCEPT !.n = n]
           a == <<Step("mkdirs", Parent(p))>>
           b == ChargeOrFail(Parent(p), m)
           v == a \o b \o <<x>>
           Q == Plain \cup {x}
<1>1. Called(r, v)
  BY DEF WriteFile
<1>2. n \in Int /\ n \in Nat /\ m \in Int
  BY FilesAssumption DEF FilesInvariant, DiskSound, IsFile
<1>3. p \in Path \cup {Root} /\ Parent(p) \in Path \cup {Root} /\ "mkdirs" \in PlainDo /\ "count" \in PlainDo
  BY Parents DEF PlainDo
<1>4. Step("mkdirs", Parent(p)) \in Plain
  BY <1>3, PlainForms
<1> HIDE DEF m
<1>5. b \in Seq(Plain)
  BY <1>2, <1>3, PlainForms
<1>6. x \in StepRecord
  <2>1. 0 \in Nat /\ {} \in SUBSET {"strict", "write", "create", "truncate"}
    OBVIOUS
  <2>2. QED
    BY <1>2, <1>3, <2>1, StepForms
<1>7. x.do = "put" /\ x.n = n
  BY DEF Step
<1> HIDE DEF x
<1>8. Plain \in SUBSET StepRecord
  BY DEF Plain
<1>9. Q \in SUBSET StepRecord /\ \A y \in Q : y \in Plain \/ (y.do = "put" /\ y.n \in 1..MaxSize)
  BY <1>6, <1>7, <1>8
<1>10. a \in Seq(Q) /\ b \in Seq(Q) /\ <<x>> \in Seq(Q)
  <2>1. Plain \subseteq Q
    OBVIOUS
  <2>2. b \in Seq(Q)
    BY <1>5, <2>1, SeqMonotonic
  <2> HIDE DEF Plain, b
  <2>3. QED
    BY <1>4, <2>2
<1> HIDE DEF Q, a, b
<1>11. v \in Seq(Q)
  BY <1>10, ConcatProperties
<1> HIDE DEF v
<1>12. QED
  BY <1>1, <1>9, <1>11, CalledSound

\* A request of a route keeps the invariant: its queue is no session's.
LEMMA RouteKeepsAll ==
  ASSUME FilesInvariant, NEW r \in Route, RouteRequests(r)
  PROVE  FilesInvariant'
<1>1. DiskSound /\ UsageSound
  BY DEF FilesInvariant
<1>2. ASSUME NEW p \in Path, DeleteFile(r, p)
      PROVE  FilesInvariant'
  BY <1>1, <1>2, QueueForms, PlainCalls DEF DeleteFile
<1>3. ASSUME NEW p \in Path, CreateDirectory(r, p)
      PROVE  FilesInvariant'
  <2>1. "mkdirs" \in PlainDo
    BY DEF PlainDo
  <2>2. Step("mkdirs", p) \in Plain
    BY <2>1, PlainForms
  <2>3. <<Step("mkdirs", p)>> \in Seq(Plain)
    BY <2>2
  <2>4. QED
    BY <1>3, <2>3, PlainCalls DEF CreateDirectory
<1>4. ASSUME NEW p \in Path, NEW q \in Path, RenameFile(r, p, q) \/ CopyInPlace(r, p, q)
      PROVE  FilesInvariant'
  BY <1>1, <1>4, QueueForms, PlainCalls DEF RenameFile, CopyInPlace
<1>5. QED
  BY <1>2, <1>3, <1>4, WriteFileSound DEF RouteRequests

(***************************************************************************)
(* The lock and the checker                                                *)
(***************************************************************************)
\* A lock excuses exactly the requests that are under way.
LEMMA LockKeepsAll ==
  ASSUME FilesInvariant, Lock \/ Unlock
  PROVE  FilesInvariant'
<1>1. "maintenance" \in Client /\ \A s \in Session : s \in Client /\ s # "maintenance"
  BY FilesAssumption DEF Client
<1>2. UNCHANGED <<disk, usage, scanner, sftp, intruded>>
  BY DEF Lock, Unlock, history
<1>3. DiskSound' /\ HandlesSound' /\ UsageSound'
  BY <1>2 DEF FilesInvariant, disk, usage, sftp, DiskSound, HandlesSound, UsageSound
<1>4. CASE Lock
  <2>1. PICK v \in {<<>>, TruncateRoot} : todo' = [todo EXCEPT !["maintenance"] = v]
    BY <1>4 DEF Lock
  <2>2. Plain \in SUBSET StepRecord /\ v \in Seq(Plain)
    <3>1. TruncateRoot \in Seq(Plain)
      <4>1. <<Home>> \in Path
        BY FilesAssumption DEF Path
      <4>2. QED
        BY <4>1, QueueForms DEF FilesInvariant
    <3>2. <<>> \in Seq(Plain)
      OBVIOUS
    <3>3. QED
      BY <3>1, <3>2 DEF Plain
  <2>3. \A x \in Plain : PreparedFor("maintenance", x, Len(v), handles["maintenance"])
    BY PlainIsPrepared
  <2> HIDE DEF Plain
  <2>4. TodoSound' /\ \A d \in Client : d # "maintenance" => todo'[d] = todo[d]
    BY <1>1, <1>2, <2>1, <2>2, <2>3, QueueSound DEF FilesInvariant, sftp
  <2>5. locked' = TRUE /\ excused' = [s \in Session |-> todo[s] # <<>>]
    BY <1>4 DEF Lock
  <2>6. LockSound'
    BY <1>1, <1>2, <2>4, <2>5 DEF FilesInvariant, LockSound, sftp
  <2>7. QED
    BY <1>3, <2>4, <2>6 DEF FilesInvariant
<1>5. CASE Unlock
  <2>1. locked' = FALSE /\ UNCHANGED <<todo, excused>>
    BY <1>5 DEF Unlock, history
  <2>2. TodoSound'
    BY <1>2, <2>1 DEF FilesInvariant, TodoSound, Prepared, PreparedFor, sftp
  <2>3. LockSound'
    BY <1>2, <2>1 DEF FilesInvariant, LockSound, sftp
  <2>4. QED
    BY <1>3, <2>2, <2>3 DEF FilesInvariant
<1>6. QED
  BY <1>4, <1>5

\* The checker touches the usage only.
LEMMA RestStays ==
  ASSUME FilesInvariant, UNCHANGED <<disk, sftp, todo, locked, history>>
  PROVE  DiskSound' /\ HandlesSound' /\ TodoSound' /\ LockSound'
<1>1. DiskSound' /\ HandlesSound'
  BY DEF FilesInvariant, disk, sftp, DiskSound, HandlesSound
<1>2. TodoSound'
  BY DEF FilesInvariant, TodoSound, Prepared, PreparedFor, sftp
<1>3. LockSound'
  BY DEF FilesInvariant, LockSound, sftp, history
<1>4. QED
  BY <1>1, <1>2, <1>3

\* What a directory holds directly is a number.
LEMMA LocalIsNumber ==
  ASSUME DiskSound, NEW p
  PROVE  Local(p) \in Nat
<1> DEFINE S == {q \in DOMAIN files : Parent(q) = p}
<1>1. S \subseteq Path /\ \A q \in S : files[q] \in Nat
  BY FilesAssumption DEF DiskSound
<1>2. IsFiniteSet(S)
  BY <1>1, PathsAreFinite, FS_Subset
<1> HIDE DEF S
<1>3. SumOf(files, S) \in Nat
  BY <1>1, <1>2, SumIsNumber
<1>4. QED
  BY <1>3 DEF Local, S, SumOf

\* The checker: what it adds up are numbers.
LEMMA ScanKeepsAll ==
  ASSUME FilesInvariant, Scan
  PROVE  FilesInvariant'
<1>1. UNCHANGED <<disk, sftp, todo, locked, history>>
  BY DEF Scan, ScanReads, ScanReplaces, ScanStores, ScanKeeps
<1>2. CASE ScanReads
  <2>1. PICK p \in scanner.unread :
          scanner' = [scanner EXCEPT
            !.unread = (@ \ {p}) \cup {q \in dirs : Parent(q) = p},
            !.found = update_size(@, p, Local(p)),
            !.root = IF p = Root THEN Local(p) ELSE @]
    BY <1>2 DEF ScanReads
  <2>2. Local(p) \in Nat /\ Local(p) \in Int
    BY LocalIsNumber DEF FilesInvariant
  <2>3. p \in Path \cup {Root} /\ dirs \subseteq Path
    BY DEF FilesInvariant, UsageSound, DiskSound
  <2> DEFINE f == update_size(scanner.found, p, Local(p))
  <2>4. Usages(f)
    BY <2>2, <2>3, UpdateKeeps DEF FilesInvariant, UsageSound
  <2> HIDE DEF f
  <2>5. /\ scanner'.pc = scanner.pc
        /\ scanner'.unread = (scanner.unread \ {p}) \cup {q \in dirs : Parent(q) = p}
        /\ scanner'.found = f
        /\ scanner'.root = IF p = Root THEN Local(p) ELSE scanner.root
        /\ scanner' = [pc |-> scanner'.pc, unread |-> scanner'.unread, found |-> scanner'.found,
                       root |-> scanner'.root]
    BY <2>1 DEF FilesInvariant, UsageSound, f
  <2>6. UNCHANGED usage
    BY <1>2 DEF ScanReads
  <2>7. UsageSound'
    BY <2>2, <2>3, <2>4, <2>5, <2>6 DEF FilesInvariant, UsageSound, usage
  <2>8. QED
    BY <1>1, <2>7, RestStays DEF FilesInvariant
<1>3. CASE ScanReplaces
  <2>1. tree' = scanner.found /\ scanner' = [scanner EXCEPT !.pc = "store"] /\ cached' = cached
    BY <1>3 DEF ScanReplaces
  <2>2. UsageSound'
    BY <2>1 DEF FilesInvariant, UsageSound
  <2>3. QED
    BY <1>1, <2>2, RestStays DEF FilesInvariant
<1>4. CASE ScanStores
  <2> DEFINE S == {p \in DOMAIN scanner.found : Len(p) = 1}
  <2>1. S \subseteq Path /\ \A p \in S : scanner.found[p] \in Nat
    BY DEF FilesInvariant, UsageSound, Usages
  <2>2. IsFiniteSet(S)
    BY <2>1, PathsAreFinite, FS_Subset
  <2> HIDE DEF S
  <2>3. SumOf(scanner.found, S) \in Nat
    BY <2>1, <2>2, SumIsNumber
  <2>4. cached' \in Nat
    <3>1. cached' = scanner.root + SumOf(scanner.found, S)
      BY <1>4 DEF ScanStores, SumOf, S
    <3>2. scanner.root \in Nat
      BY DEF FilesInvariant, UsageSound
    <3>3. QED
      BY <2>3, <3>1, <3>2
  <2>5. tree' = tree /\ scanner' = [pc |-> "read", unread |-> {Root}, found |-> <<>>, root |-> 0]
    BY <1>4 DEF ScanStores, NewScan
  <2>6. UsageSound'
    <3>1. Usages(<<>>)
      BY DEF Usages
    <3>2. QED
      BY <2>4, <2>5, <3>1 DEF FilesInvariant, UsageSound
  <2>7. QED
    BY <1>1, <2>6, RestStays DEF FilesInvariant
<1>5. QED
  BY <1>2, <1>3, <1>4 DEF Scan

\* The tree and the handles start in line with each other.
LEMMA FilesStart == FilesInit => FilesInvariant
<1> SUFFICES ASSUME FilesInit
             PROVE  FilesInvariant
  OBVIOUS
<1>1. Home \in Folder /\ MaxSize \in Nat
  BY FilesAssumption
<1>2. DiskSound
  <2>1. dirs = {<<Home>>} /\ <<Home>> \in Path /\ Parent(<<Home>>) = Root
    BY <1>1, ParentForms DEF FilesInit, Path
  <2>2. files = [p \in {Home} \X File |-> MaxSize]
    BY DEF FilesInit
  <2>3. {Home} \X File \subseteq Path
    BY <1>1 DEF Path
  <2>4. \A p \in {Home} \X File : Parent(p) = <<Home>>
    <3> TAKE p \in {Home} \X File
    <3>1. PICK y \in File : p = <<Home, y>>
      OBVIOUS
    <3>2. QED
      BY <3>1, ParentForms
  <2>5. QED
    BY <1>1, <2>1, <2>2, <2>3, <2>4 DEF DiskSound
<1>3. HandlesSound
  <2>1. DOMAIN <<>> = {}
    OBVIOUS
  <2>2. IsFiniteSet({}) /\ Cardinality({}) = 0 /\ 0 <= HandleLimit
    BY FilesAssumption, FS_EmptySet
  <2>3. handles = [s \in Session |-> <<>>]
    BY DEF FilesInit
  <2>4. QED
    BY <2>1, <2>2, <2>3 DEF HandlesSound
<1>4. UsageSound
  <2>1. tree = [p \in {} |-> 0] /\ cached = 0
        /\ scanner = [pc |-> "read", unread |-> {Root}, found |-> <<>>, root |-> 0]
    BY DEF FilesInit, NewScan
  <2>2. Usages(<<>>) /\ Usages([p \in {} |-> 0])
    BY DEF Usages
  <2>3. QED
    BY <2>1, <2>2 DEF UsageSound
<1>5. TodoSound
  BY DEF FilesInit, TodoSound
<1>6. LockSound
  BY DEF FilesInit, LockSound, Client
<1>7. QED
  BY <1>2, <1>3, <1>4, <1>5, <1>6 DEF FilesInvariant

\* Every request and every step of a handle keeps them in line.
LEMMA FilesKept == FilesInvariant /\ [FilesNext]_filesVars => FilesInvariant'
<1> SUFFICES ASSUME FilesInvariant, [FilesNext]_filesVars
             PROVE  FilesInvariant'
  OBVIOUS
<1>1. CASE Scan
  BY <1>1, ScanKeepsAll
<1>2. CASE Lock \/ Unlock
  BY <1>2, LockKeepsAll
<1>3. ASSUME NEW c \in Client, TakesStep(c)
      PROVE  FilesInvariant'
  BY <1>3, StepKeepsAll
<1>4. ASSUME NEW s \in Session, SftpRequests(s)
      PROVE  FilesInvariant'
  BY <1>4, RequestKeepsAll
<1>5. ASSUME NEW r \in Route, RouteRequests(r)
      PROVE  FilesInvariant'
  BY <1>5, RouteKeepsAll
<1>6. CASE UNCHANGED filesVars
  <2>1. UNCHANGED <<disk, usage, scanner, sftp, todo, locked, history>>
    BY <1>6 DEF filesVars
  <2>2. UsageSound'
    BY <2>1 DEF FilesInvariant, UsageSound, usage
  <2>3. QED
    BY <2>1, <2>2, RestStays DEF FilesInvariant
<1>7. QED
  BY <1>1, <1>2, <1>3, <1>4, <1>5, <1>6 DEF FilesNext

\* A session that was let in before a lock cannot change the files of a locked server:
\* whatever the clients, the sizes and the limits, only the request it had under way when
\* the lock came does, and no session exceeds HANDLE_LIMIT (allow_action of sftp/mod.rs,
\* is_locked_state).
THEOREM LockKeepsSessionsOut == FilesSpec => []LockKeepsOut
<1>1. FilesInvariant => LockKeepsOut
  <2> SUFFICES ASSUME FilesInvariant
               PROVE  LockKeepsOut
    OBVIOUS
  <2>1. \A c \in Client : \A i \in 1..Len(todo[c]) : todo[c][i] \in StepRecord
    BY DEF FilesInvariant, TodoSound
  <2>2. FilesTypeOK
    <3>1. DOMAIN files \subseteq Path /\ (\A p \in DOMAIN files : files[p] \in 0..MaxSize) /\ dirs \subseteq Path
      BY DEF FilesInvariant, DiskSound
    <3>2. (\A p \in DOMAIN tree : p \in Path /\ tree[p] \in Nat) /\ cached \in Nat
      BY DEF FilesInvariant, UsageSound, Usages
    <3>3. \A s \in Session : \A id \in DOMAIN handles[s] : handles[s][id] \in HandleRecord
      BY DEF FilesInvariant, HandlesSound
    <3>4. /\ session \in [Session -> {"none", "auth", "open", "closed"}]
          /\ handle_id \in [Session -> Nat]
          /\ locked \in BOOLEAN
          /\ excused \in [Session -> BOOLEAN] /\ intruded \in BOOLEAN
      BY DEF FilesInvariant, LockSound
    <3>5. QED
      BY <2>1, <3>1, <3>2, <3>3, <3>4 DEF FilesTypeOK
  <2>3. QED
    BY <2>2 DEF LockKeepsOut, FilesInvariant, LockSound, HandlesSound
<1>2. QED
  BY <1>1, FilesStart, FilesKept, PTL DEF FilesSpec
=============================================================================
