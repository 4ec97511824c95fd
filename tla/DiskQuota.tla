------------------------------ MODULE DiskQuota ------------------------------
(***************************************************************************)
(* The disk limit of one server as its writers see it: the cached usage    *)
(* and allocate_in_path_raw (server/filesystem/mod.rs), the two buffered   *)
(* writers that account for what they write (server/filesystem/writer.rs)  *)
(* and truncate_path, which gives the space of a file back.                *)
(*                                                                         *)
(* A step is the code between two atomic accesses of the cached usage, or  *)
(* one poll of a writer.  Each writer writes one file, once; its caller    *)
(* drops it after an error, as every caller in the repository does.  The   *)
(* usage per directory and the checker's scan are left out, and so is what *)
(* the process in the container writes by itself.                          *)
(***************************************************************************)
EXTENDS Integers, FiniteSets

CONSTANTS
  Writer,      \* files being written
  Sync,        \* those written by FileSystemWriter, the rest by AsyncFileSystemWriter
  Threshold,   \* ALLOCATION_THRESHOLD
  Limit,       \* disk_limit, in force
  MaxChunk,    \* bound: bytes in one call of write
  Modulus      \* 2^64: the cached usage is a u64

ASSUME QuotaAssumption ==
  /\ Sync \subseteq Writer /\ Writer # {} /\ IsFiniteSet(Writer)
  /\ Threshold \in Nat \ {0}
  /\ Limit \in Nat \ {0}
  /\ MaxChunk \in Nat \ {0}
  /\ Modulus \in Nat

\* The largest allocation, and how far the usage gets when all writers have one under
\* way: limits and numbers of writers are far from 2^64.
MaxAllocation == Threshold - 1 + MaxChunk
Ceiling == Limit + (Cardinality(Writer) - 1) * MaxAllocation

ASSUME WidthAssumption == Ceiling < Modulus

VARIABLES
  disk_usage_cached,
  writer,
  counted,    \* history: bytes allocated for each file
  allocated,  \* history: bytes allocated for all files
  overlap     \* history: two deallocations were under way at once

vars == <<disk_usage_cached, writer, counted, allocated, overlap>>

\* "write" and "flush" are polls that begin, "accept" hands the chunk to the
\* buffer.  "check" and "add" are an allocation under way, "late" and "lateadd"
\* the one a dropped writer leaves behind, "free" and "sub" a deallocation.
PC == {"new", "open", "write", "accept", "check", "add", "failed", "late",
       "lateadd", "closed", "free", "sub", "gone"}

WriterRecord == [pc : PC, flushing : BOOLEAN, chunk : Nat, accumulated : Nat,
                 allocation : Nat, accepted : Nat]

New == [pc |-> "new", flushing |-> FALSE, chunk |-> 0, accumulated |-> 0,
        allocation |-> 0, accepted |-> 0]

TypeOK ==
  /\ disk_usage_cached \in 0..(Modulus - 1)
  /\ writer \in [Writer -> WriterRecord]
  /\ counted \in [Writer -> Nat]
  /\ allocated \in Nat
  /\ overlap \in BOOLEAN

Init ==
  /\ disk_usage_cached = 0
  /\ writer = [w \in Writer |-> New]
  /\ counted = [w \in Writer |-> 0]
  /\ allocated = 0
  /\ overlap = FALSE

At(w, pc) == writer[w].pc = pc
Unchanged == UNCHANGED <<disk_usage_cached, counted, allocated, overlap>>

(***************************************************************************)
(* The writers                                                             *)
(***************************************************************************)
Open(w) ==
  /\ At(w, "new")
  /\ writer' = [writer EXCEPT ![w].pc = "open"]
  /\ Unchanged

Write(w, n) ==
  /\ At(w, "open")
  /\ writer' = [writer EXCEPT ![w].pc = "write", ![w].chunk = n]
  /\ Unchanged

\* Mutants of Count: the chunk that reaches the threshold is not in the
\* allocation; the threshold is never looked at.
CountBefore(w) ==
  LET total == writer[w].accumulated + writer[w].chunk
  IN  /\ At(w, "write")
      /\ writer' =
           IF total >= Threshold
           THEN [writer EXCEPT ![w].pc = "check", ![w].flushing = FALSE,
                               ![w].accumulated = 0,
                               ![w].allocation = writer[w].accumulated]
           ELSE [writer EXCEPT ![w].pc = "accept", ![w].accumulated = total]
      /\ Unchanged

CountOnly(w) ==
  /\ At(w, "write")
  /\ writer[w].accumulated <= Limit
  /\ writer' = [writer EXCEPT ![w].pc = "accept",
                              ![w].accumulated = @ + writer[w].chunk]
  /\ Unchanged

\* The chunk is counted before the buffer takes it; over the threshold, what has
\* accumulated is allocated first.
Count(w) ==
  LET total == writer[w].accumulated + writer[w].chunk
  IN  /\ At(w, "write")
      /\ writer' =
           IF total >= Threshold
           THEN [writer EXCEPT ![w].pc = "check", ![w].flushing = FALSE,
                               ![w].accumulated = 0, ![w].allocation = total]
           ELSE [writer EXCEPT ![w].pc = "accept", ![w].accumulated = total]
      /\ Unchanged

\* The buffer takes the chunk or a part of it; the caller writes the rest, which
\* is then counted again.
Accept(w) ==
  /\ At(w, "accept")
  /\ \E n \in 1..writer[w].chunk :
       writer' = [writer EXCEPT ![w].pc = IF n = writer[w].chunk THEN "open" ELSE "write",
                                ![w].chunk = writer[w].chunk - n,
                                ![w].accepted = @ + n]
  /\ Unchanged

\* An async writer's buffer may be busy: the poll is repeated, and counts the
\* chunk once more.
AcceptPending(w) ==
  /\ At(w, "accept")
  /\ w \notin Sync
  /\ writer' = [writer EXCEPT ![w].pc = "write"]
  /\ Unchanged

\* flush, seek and shutdown allocate what has accumulated.
Flush(w) ==
  /\ At(w, "open")
  /\ writer[w].accumulated > 0
  /\ writer' = [writer EXCEPT ![w].pc = "check", ![w].flushing = TRUE,
                              ![w].allocation = writer[w].accumulated,
                              ![w].accumulated = 0]
  /\ Unchanged

\* A dropped FileSystemWriter forgets what has accumulated ...
DropSync(w) ==
  /\ w \in Sync
  /\ writer[w].pc \in {"open", "failed"}
  /\ writer' = [writer EXCEPT ![w].pc = "closed", ![w].accumulated = 0]
  /\ Unchanged

\* ... a dropped AsyncFileSystemWriter has it allocated by a task of its own.
\* It may be dropped with a write pending.
DropAsync(w) ==
  /\ w \notin Sync
  /\ writer[w].pc \in {"open", "write", "failed"}
  /\ writer' = IF writer[w].accumulated > 0
               THEN [writer EXCEPT ![w].pc = "late", ![w].accumulated = 0,
                                   ![w].allocation = writer[w].accumulated]
               ELSE [writer EXCEPT ![w].pc = "closed"]
  /\ Unchanged

(***************************************************************************)
(* allocate_in_path_raw                                                    *)
(***************************************************************************)
Fits(n) == disk_usage_cached + n <= Limit

\* Mutant of Check: the chunk that reaches the limit is let through.
CheckCurrent(w) ==
  /\ At(w, "check")
  /\ disk_usage_cached <= Limit
  /\ writer' = [writer EXCEPT ![w].pc = "add"]
  /\ Unchanged

Check(w) ==
  /\ At(w, "check")
  /\ Fits(writer[w].allocation)
  /\ writer' = [writer EXCEPT ![w].pc = "add"]
  /\ Unchanged

\* A sync writer keeps what it could not allocate, an async one has reset it.
Refuse(w) ==
  /\ At(w, "check")
  /\ ~Fits(writer[w].allocation)
  /\ writer' = [writer EXCEPT
                  ![w].pc = "failed", ![w].allocation = 0,
                  ![w].accumulated = IF w \in Sync THEN writer[w].allocation ELSE 0]
  /\ Unchanged

\* The usage grows.  A poll that had to wait for the map of directories counts
\* its chunk again.
Add(w) ==
  /\ At(w, "add")
  /\ disk_usage_cached' = (disk_usage_cached + writer[w].allocation) % Modulus
  /\ counted' = [counted EXCEPT ![w] = @ + writer[w].allocation]
  /\ allocated' = allocated + writer[w].allocation
  /\ \E pc \in IF writer[w].flushing THEN {"open"}
               ELSE IF w \in Sync THEN {"accept"} ELSE {"accept", "write"} :
       writer' = [writer EXCEPT ![w].pc = pc, ![w].allocation = 0]
  /\ UNCHANGED overlap

\* The allocation of a dropped writer: whether it fits, nobody hears of it.
LateCheck(w) ==
  /\ At(w, "late")
  /\ writer' = IF Fits(writer[w].allocation)
               THEN [writer EXCEPT ![w].pc = "lateadd"]
               ELSE [writer EXCEPT ![w].pc = "closed", ![w].allocation = 0]
  /\ Unchanged

LateAdd(w) ==
  /\ At(w, "lateadd")
  /\ disk_usage_cached' = (disk_usage_cached + writer[w].allocation) % Modulus
  /\ counted' = [counted EXCEPT ![w] = @ + writer[w].allocation]
  /\ allocated' = allocated + writer[w].allocation
  /\ writer' = [writer EXCEPT ![w].pc = "closed", ![w].allocation = 0]
  /\ UNCHANGED overlap

(***************************************************************************)
(* truncate_path                                                           *)
(***************************************************************************)

\* A closed file is deleted: its size is read.
Truncate(w) ==
  /\ At(w, "closed")
  /\ writer[w].accepted > 0
  /\ writer' = [writer EXCEPT ![w].pc = "free"]
  /\ overlap' = (overlap \/ \E u \in Writer : writer[u].pc \in {"free", "sub"})
  /\ UNCHANGED <<disk_usage_cached, counted, allocated>>

\* Mutant of Free: no test for less being counted than given back.
FreeUnchecked(w) ==
  /\ At(w, "free")
  /\ writer' = [writer EXCEPT ![w].pc = "sub"]
  /\ Unchanged

\* More than is counted cannot be given back.
Free(w) ==
  /\ At(w, "free")
  /\ IF disk_usage_cached >= writer[w].accepted
     THEN /\ writer' = [writer EXCEPT ![w].pc = "sub"]
          /\ UNCHANGED disk_usage_cached
     ELSE /\ writer' = [writer EXCEPT ![w].pc = "gone"]
          /\ disk_usage_cached' = 0
  /\ UNCHANGED <<counted, allocated, overlap>>

Sub(w) ==
  /\ At(w, "sub")
  /\ disk_usage_cached' = (disk_usage_cached - writer[w].accepted) % Modulus
  /\ writer' = [writer EXCEPT ![w].pc = "gone"]
  /\ UNCHANGED <<counted, allocated, overlap>>

Steps(w) ==
  \/ Open(w) \/ (\E n \in 1..MaxChunk : Write(w, n))
  \/ Count(w) \/ Accept(w) \/ AcceptPending(w)
  \/ Flush(w) \/ DropSync(w) \/ DropAsync(w)
  \/ Check(w) \/ Refuse(w) \/ Add(w) \/ LateCheck(w) \/ LateAdd(w)
  \/ Truncate(w) \/ Free(w) \/ Sub(w)

Next == \E w \in Writer : Steps(w)

Spec == Init /\ [][Next]_vars

(***************************************************************************)
(* Properties                                                              *)
(***************************************************************************)
\* Until it fails or is dropped, a writer never has more bytes in its file than it
\* has allocated or is about to: repeated polls and partial writes count a byte
\* twice, but never not at all.
NothingUncounted ==
  \A w \in Writer :
    writer[w].pc \in {"open", "write", "accept", "check", "add"}
      => writer[w].accepted <= counted[w] + writer[w].accumulated + writer[w].allocation

\* Of what is in a file less than one threshold has not been allocated, at any time and
\* however its writer ends.
LossBounded ==
  \A w \in Writer : writer[w].accepted <= counted[w] + Threshold - 1

\* The usage exceeds the limit by no more than the allocations that other writers
\* had under way: one each.
OvershootBounded ==
  ~overlap => disk_usage_cached <= Ceiling

\* All values have their types, and giving space back one file at a time never takes
\* the usage below zero, where it would wrap around.
NoUnderflow == TypeOK /\ (~overlap => disk_usage_cached <= allocated)
=============================================================================
