--------------------------- MODULE BackupsProofs ---------------------------
(***************************************************************************)
(* Proofs about Backups, for any number of backups, archives of any size   *)
(* and parts of any length.  Backups share no state but the crashes, so    *)
(* the invariant is about one backup at a time.                            *)
(***************************************************************************)
EXTENDS Backups, TLAPS

(***************************************************************************)
(* The inductive invariant                                                 *)
(***************************************************************************)

\* The pieces create has laid down.
Laid(b) == {Pieces[adapter[b]][i] : i \in 1..laid[b]}

\* Where create stands says how much it has laid down and what the panel can know.
Stage(b) ==
  /\ laid[b] <= Len(Pieces[adapter[b]])
  /\ create[b] = "none" => laid[b] = 0
  /\ create[b] = "lay" => laid[b] < Len(Pieces[adapter[b]])
  /\ create[b] \in {"hash", "urls", "upload", "put", "drop", "good", "record"}
     => laid[b] = Len(Pieces[adapter[b]])
  /\ panel[b] = "successful" => /\ create[b] \in {"record", "over", "killed"}
                                /\ laid[b] = Len(Pieces[adapter[b]])
  /\ panel[b] = "unsuccessful" => create[b] \in {"cleanup", "over", "killed"}
  /\ create[b] \in {"urls", "upload", "put", "drop"} => adapter[b] = "s3"

\* Backups in S3 of which the archive was sent.
Sent(b) == adapter[b] = "s3" /\ (create[b] = "good" \/ panel[b] = "successful")

\* What was accepted of an archive is its beginning, and the next attempt starts behind it,
\* unless an earlier attempt moved the offset.
Sequential(b) ==
  /\ create[b] = "put" => upload[b].left > 0
  /\ ghost[b].spoiled \/ Adjacent(upload[b].parts, Size - upload[b].remaining)
  /\ create[b] = "put" => ghost[b].spoiled \/ upload[b].position = Size - upload[b].remaining
  /\ create[b] = "drop" \/ Sent(b) => ghost[b].spoiled \/ Exact(b)
  /\ Sent(b) => stored[b] = {}

\* An adapter makes pieces of its own only.
Kinds(b) ==
  /\ Tarball(b) => stored[b] \subseteq {"archive", "content", "fragment"}
  /\ adapter[b] \in {"zip", "ddup"} => stored[b] \subseteq {"archive", "content"}
  /\ adapter[b] = "btrfs" => stored[b] \subseteq {"directory", "snapshot", "ignored"}
  /\ adapter[b] = "zfs" => stored[b] \subseteq {"directory", "snapshot", "ignored", "dataset"}

\* Until a backup is deleted there is what was laid down; a tarball that was torn has a
\* fragment for its content.
Intact(b) ==
  ~ghost[b].erased /\ adapter[b] # "s3" =>
    \/ stored[b] = Laid(b)
    \/ /\ adapter[b] = "tar" /\ laid[b] = 2
       /\ stored[b] = {"archive", "fragment"}

Torn(b) ==
  /\ ghost[b].torn => laid[b] = 2 /\ Tarball(b)
  /\ "fragment" \in stored[b] => ghost[b].torn

\* Whatever lies in the directory of a snapshot is gone before it; the list of what a
\* snapshot ignores comes after the snapshot.
Nested(b) ==
  /\ adapter[b] = "btrfs" /\ "ignored" \in stored[b] => laid[b] >= 2
  /\ adapter[b] = "btrfs" /\ stored[b] \cap {"snapshot", "ignored"} # {}
     => "directory" \in stored[b]
  /\ adapter[b] = "zfs" /\ stored[b] \cap {"ignored", "dataset"} # {}
     => "directory" \in stored[b]

\* A deletion in its second step has begun; a subvolume is gone before its directory only
\* while a deletion is at that step.  The deletion with which create ends comes last.
Deleting(b) ==
  /\ create[b] # "over" => removal[b]["create"] = "none"
  /\ \A t \in {"route", "create"} : removal[b][t] = "rest" => ghost[b].erased /\ Snapshots(b)
  /\ /\ adapter[b] = "btrfs" /\ ~ghost[b].kept
     /\ \A t \in {"route", "create"} : removal[b][t] # "rest"
     /\ laid[b] >= 2 /\ "directory" \in stored[b]
     => "snapshot" \in stored[b]

\* The deletion with which a failed create ends has gone through.
Cleaned(b) ==
  /\ create[b] = "over" /\ panel[b] = "unsuccessful" /\ ghost[b].heard
  /\ ~ghost[b].kept /\ removal[b]["create"] = "none"

Cleared(b) ==
  Cleaned(b) =>
    /\ ~Snapshots(b) => stored[b] = {}
    /\ adapter[b] = "btrfs" => "snapshot" \notin stored[b]
    /\ adapter[b] = "zfs" => "directory" \notin stored[b]

\* What a restore has read so far.
Restored(b) ==
  LET r == reader[b]["restore"] IN
  /\ Snapshots(b) /\ ~ghost[b].erased /\ r.pc \in {"read", "good"}
     => laid[b] >= 3 /\ r.got = "whole"
  /\ adapter[b] \in {"zip", "ddup"} /\ r.pc \in {"read", "good"} => r.got = "whole"
  /\ adapter[b] = "s3" /\ r.pc \in {"read", "good"}
     => r.got = "whole" \/ ghost[b].spoiled \/ ghost[b].torn
  /\ adapter[b] = "tar" /\ r.pc = "good" => r.got = "whole" \/ ghost[b].torn

\* What a download has read so far, of a backup that was complete when it began.
Downloaded(b) ==
  LET r == reader[b]["download"] IN
  /\ r.pc # "none" => adapter[b] # "s3"
  /\ ghost[b].ready /\ ~ghost[b].erased /\ r.pc # "none" => Complete(b)
  /\ ghost[b].ready /\ ~ghost[b].erased /\ r.pc \in {"read", "good"} => r.got = "whole"

Faithful(b) ==
  /\ Stage(b) /\ Sequential(b) /\ Kinds(b) /\ Intact(b) /\ Torn(b) /\ Nested(b)
  /\ Deleting(b) /\ Cleared(b) /\ Restored(b) /\ Downloaded(b)

Inv == TypeOK /\ \A b \in Backup : Faithful(b)

(***************************************************************************)
(* What the steps leave alone                                              *)
(***************************************************************************)

\* Steps of create that only bring it from one place to another.
Walks(b) ==
  \/ Request(b) \/ Unbuilt(b) \/ Hash(b) \/ CreateFails(b)
  \/ GiveUp(b) \/ Unanswered(b) \/ Uploaded(b) \/ Record(b)

Uploads(b) == Urls(b) \/ Attempt(b) \/ Accepted(b) \/ Refused(b) \/ LateRead(b)

Reports(b) == ReportGood(b) \/ ReportBad(b)

Deletes(b) == DeleteRequest(b) \/ \E t \in {"route", "create"} : DeleteSteps(b, t)

Reads(b) == ReadSteps(b) \/ RestoreRequest(b) \/ DownloadRequest(b)

\* Everything that happens to one backup.
Step(b) ==
  \/ Walks(b) \/ Uploads(b) \/ Lay(b) \/ DropArchive(b) \/ Reports(b) \/ Cleanup(b)
  \/ Deletes(b) \/ Reads(b)

\* What the node can do, by backup.
LEMMA Steps == Next <=> (\E b \in Backup : Step(b)) \/ Crash
  BY DEF Next, Step, Walks, Uploads, Reports, Deletes, Reads, CreateSteps, Requests

\* What history remembers, but for one field.
SameErased(b)  == ghost'[b].erased = ghost[b].erased
SameHeard(b)   == ghost'[b].heard = ghost[b].heard
SameSpoiled(b) == ghost'[b].spoiled = ghost[b].spoiled
SameTorn(b)    == ghost'[b].torn = ghost[b].torn
SameKept(b)    == ghost'[b].kept = ghost[b].kept
SameReady(b)   == ghost'[b].ready = ghost[b].ready

LEMMA WalkFrame ==
  ASSUME NEW b \in Backup, Walks(b)
  PROVE  UNCHANGED <<adapter, laid, stored, upload, panel, removal, reader, crashes, ghost>>
  BY DEF Walks, Request, Unbuilt, Hash, CreateFails, GiveUp, Unanswered, Uploaded, Record,
         Aside, stores

LEMMA UploadFrame ==
  ASSUME TypeOK, NEW b \in Backup, Uploads(b)
  PROVE  /\ UNCHANGED <<adapter, laid, stored, panel, removal, reader, crashes>>
         /\ ghost' \in [Backup -> Ghost]
         /\ \A c \in Backup : c # b => ghost'[c] = ghost[c]
         /\ SameErased(b) /\ SameHeard(b) /\ SameTorn(b) /\ SameKept(b) /\ SameReady(b)
         /\ ghost[b].spoiled => ghost'[b].spoiled
<1> USE DEF SameErased, SameHeard, SameTorn, SameKept, SameReady
<1>1. CASE Urls(b) \/ Attempt(b) \/ Accepted(b) \/ Refused(b)
  BY <1>1 DEF Urls, Attempt, Accepted, Refused, Aside, TypeOK
<1>2. CASE LateRead(b)
  BY <1>2 DEF LateRead, Aside, TypeOK, Ghost
<1>3. QED
  BY <1>1, <1>2 DEF Uploads

LEMMA ReportFrame ==
  ASSUME TypeOK, NEW b \in Backup, Reports(b)
  PROVE  /\ UNCHANGED <<adapter, laid, stored, upload, removal, reader, crashes>>
         /\ ghost' \in [Backup -> Ghost]
         /\ \A c \in Backup : c # b => ghost'[c] = ghost[c]
         /\ SameErased(b) /\ SameSpoiled(b) /\ SameTorn(b) /\ SameKept(b) /\ SameReady(b)
<1>1. UNCHANGED <<adapter, laid, stored, upload, removal, reader, crashes>>
  BY DEF Reports, ReportGood, ReportBad, Report, Aside, stores
<1>2. PICK heard \in BOOLEAN : ghost' = [ghost EXCEPT ![b].heard = heard]
  BY DEF Reports, ReportGood, ReportBad, Report
<1>3. QED
  BY <1>1, <1>2 DEF TypeOK, Ghost, SameErased, SameSpoiled, SameTorn, SameKept, SameReady

LEMMA LayFrame ==
  ASSUME TypeOK, NEW b \in Backup, Lay(b)
  PROVE  /\ UNCHANGED <<adapter, upload, panel, removal, reader, crashes>>
         /\ ghost' \in [Backup -> Ghost]
         /\ \A c \in Backup : c # b => ghost'[c] = ghost[c]
         /\ SameErased(b) /\ SameHeard(b) /\ SameSpoiled(b) /\ SameKept(b) /\ SameReady(b)
<1>1. UNCHANGED <<adapter, upload, panel, removal, reader, crashes>>
  BY DEF Lay, Aside
<1>2. PICK torn \in BOOLEAN : ghost' = [ghost EXCEPT ![b].torn = torn]
  BY DEF Lay, Tarball
<1>3. QED
  BY <1>1, <1>2 DEF TypeOK, Ghost, SameErased, SameHeard, SameSpoiled, SameKept, SameReady

LEMMA DeleteFrame ==
  ASSUME TypeOK, NEW b \in Backup, Deletes(b)
  PROVE  /\ UNCHANGED <<create, adapter, laid, upload, panel, reader, crashes>>
         /\ ghost' \in [Backup -> Ghost]
         /\ \A c \in Backup : c # b => ghost'[c] = ghost[c]
         /\ SameHeard(b) /\ SameSpoiled(b) /\ SameTorn(b) /\ SameReady(b)
         /\ ghost[b].erased => ghost'[b].erased
         /\ ghost[b].kept => ghost'[b].kept
<1> USE DEF SameHeard, SameSpoiled, SameTorn, SameReady
<1>1. CASE DeleteRequest(b)
  BY <1>1 DEF DeleteRequest, stores, TypeOK
<1>2. ASSUME NEW t \in {"route", "create"}, DeleteBegins(b, t)
      PROVE  UNCHANGED <<create, adapter, laid, upload, panel, reader, crashes>>
             /\ ghost' = [ghost EXCEPT ![b].erased = TRUE]
  BY <1>2 DEF DeleteBegins
<1>3. ASSUME NEW t \in {"route", "create"}, DeleteRest(b, t)
      PROVE  UNCHANGED <<create, adapter, laid, upload, panel, reader, crashes, ghost>>
  BY <1>3 DEF DeleteRest
<1>4. ASSUME NEW t \in {"route", "create"}, DeleteFails(b, t)
      PROVE  UNCHANGED <<create, adapter, laid, upload, panel, reader, crashes>>
             /\ ghost' = [ghost EXCEPT ![b].kept = TRUE, ![b].erased = TRUE]
  BY <1>4 DEF DeleteFails, stores
<1>5. CASE \E t \in {"route", "create"} : DeleteBegins(b, t)
  <2>1. ghost' = [ghost EXCEPT ![b].erased = TRUE]
    BY <1>2, <1>5
  <2>2. QED
    BY <1>2, <1>5, <2>1 DEF TypeOK, Ghost
<1>6. CASE \E t \in {"route", "create"} : DeleteRest(b, t)
  BY <1>3, <1>6 DEF TypeOK
<1>7. CASE \E t \in {"route", "create"} : DeleteFails(b, t)
  <2>1. ghost' = [ghost EXCEPT ![b].kept = TRUE, ![b].erased = TRUE]
    BY <1>4, <1>7
  <2> DEFINE g == [ghost EXCEPT ![b].kept = TRUE]
  <2>2. /\ g \in [Backup -> Ghost]
        /\ g[b].heard = ghost[b].heard /\ g[b].spoiled = ghost[b].spoiled
        /\ g[b].torn = ghost[b].torn /\ g[b].ready = ghost[b].ready /\ g[b].kept
        /\ \A c \in Backup : c # b => g[c] = ghost[c]
    BY DEF TypeOK, Ghost
  <2>3. ghost' = [g EXCEPT ![b].erased = TRUE]
    BY <2>1
  <2> HIDE DEF g
  <2>4. QED
    BY <1>4, <1>7, <2>2, <2>3 DEF Ghost
<1>8. QED
  BY <1>1, <1>5, <1>6, <1>7 DEF Deletes, DeleteSteps

LEMMA ReadFrame ==
  ASSUME TypeOK, NEW b \in Backup, Reads(b)
  PROVE  /\ UNCHANGED <<create, adapter, laid, stored, upload, panel, removal, crashes>>
         /\ ghost' \in [Backup -> Ghost]
         /\ \A c \in Backup : c # b => ghost'[c] = ghost[c]
         /\ SameErased(b) /\ SameHeard(b) /\ SameSpoiled(b) /\ SameTorn(b) /\ SameKept(b)
         /\ DownloadRequest(b) \/ UNCHANGED ghost
<1> USE DEF SameErased, SameHeard, SameSpoiled, SameTorn, SameKept
<1>1. CASE DownloadRequest(b)
  <2>1. PICK ready \in BOOLEAN : ghost' = [ghost EXCEPT ![b].ready = ready]
    BY <1>1 DEF DownloadRequest, Complete
  <2>2. UNCHANGED <<create, adapter, laid, stored, upload, panel, removal, crashes>>
    BY <1>1 DEF DownloadRequest, Off, stores
  <2>3. QED
    BY <1>1, <2>1, <2>2 DEF TypeOK, Ghost
<1>2. CASE RestoreRequest(b)
  BY <1>2 DEF RestoreRequest, Off, stores, TypeOK
<1>3. CASE ReadSteps(b)
  <2>1. Off /\ UNCHANGED ghost
    BY <1>3 DEF ReadSteps, Open, ReadFails, ReadEnds, RestoreReads, DownloadReads
  <2>2. QED
    BY <2>1 DEF Off, stores, TypeOK
<1>4. QED
  BY <1>1, <1>2, <1>3 DEF Reads

LEMMA KeptRecord ==
  ASSUME NEW r \in Ghost
  PROVE  LET s == [r EXCEPT !.kept = TRUE] IN
         /\ s \in Ghost /\ s.kept
         /\ s.erased = r.erased /\ s.heard = r.heard /\ s.spoiled = r.spoiled
         /\ s.torn = r.torn /\ s.ready = r.ready
  BY DEF Ghost

LEMMA CrashFrame ==
  ASSUME TypeOK, Crash, NEW b \in Backup
  PROVE  /\ UNCHANGED <<adapter, laid, stored, upload, panel>>
         /\ ghost' \in [Backup -> Ghost]
         /\ SameErased(b) /\ SameHeard(b) /\ SameSpoiled(b) /\ SameTorn(b) /\ SameReady(b)
         /\ ghost'[b].kept <=> ghost[b].kept \/ \E t \in {"route", "create"} : removal[b][t] # "none"
         /\ create'[b] = IF create[b] \in {"none", "over"} THEN create[b] ELSE "killed"
         /\ \A t \in {"route", "create"} : removal'[b][t] = "none"
         /\ \A k \in {"restore", "download"} : reader'[b][k] = NoReader
<1>1. ghost' = [c \in Backup |->
                  IF \E t \in {"route", "create"} : removal[c][t] # "none"
                  THEN [ghost[c] EXCEPT !.kept = TRUE] ELSE ghost[c]]
  BY DEF Crash
<1>2. \A c \in Backup :
        ghost'[c] = IF \E t \in {"route", "create"} : removal[c][t] # "none"
                    THEN [ghost[c] EXCEPT !.kept = TRUE] ELSE ghost[c]
  BY <1>1
<1>3. \A c \in Backup : ghost'[c] \in Ghost
  <2> TAKE c \in Backup
  <2> DEFINE r == ghost[c]
  <2>1. r \in Ghost
    BY DEF TypeOK
  <2>2. ghost'[c] = [r EXCEPT !.kept = TRUE] \/ ghost'[c] = r
    BY <1>2
  <2>3. QED
    BY <2>1, <2>2, KeptRecord
<1>4. ghost' \in [Backup -> Ghost]
  BY <1>1, <1>2, <1>3
<1>5. /\ SameErased(b) /\ SameHeard(b) /\ SameSpoiled(b) /\ SameTorn(b) /\ SameReady(b)
      /\ ghost'[b].kept <=> ghost[b].kept \/ \E t \in {"route", "create"} : removal[b][t] # "none"
  <2> DEFINE r == ghost[b]
  <2>1. r \in Ghost /\ r.kept \in BOOLEAN
    BY DEF TypeOK, Ghost
  <2>2. CASE \E t \in {"route", "create"} : removal[b][t] # "none"
    <3>1. ghost'[b] = [r EXCEPT !.kept = TRUE]
      BY <1>2, <2>2
    <3>2. QED
      BY <2>1, <2>2, <3>1, KeptRecord
         DEF SameErased, SameHeard, SameSpoiled, SameTorn, SameReady
  <2>3. CASE ~\E t \in {"route", "create"} : removal[b][t] # "none"
    <3>1. ghost'[b] = r
      BY <1>2, <2>3
    <3>2. QED
      BY <2>1, <2>3, <3>1 DEF SameErased, SameHeard, SameSpoiled, SameTorn, SameReady
  <2>4. QED
    BY <2>2, <2>3
<1>6. UNCHANGED <<adapter, laid, stored, upload, panel>>
  BY DEF Crash, stores
<1>7. create'[b] = IF create[b] \in {"none", "over"} THEN create[b] ELSE "killed"
  BY DEF Crash
<1>8. /\ \A t \in {"route", "create"} : removal'[b][t] = "none"
      /\ \A k \in {"restore", "download"} : reader'[b][k] = NoReader
  BY DEF Crash
<1>9. QED
  BY <1>4, <1>5, <1>6, <1>7, <1>8

(***************************************************************************)
(* The upload, and all types                                               *)
(***************************************************************************)

LEMMA UploadFields ==
  ASSUME TypeOK, NEW b \in Backup
  PROVE  LET u == upload[b] IN
         /\ u.left \in 0..MaxUrls /\ u.attempts \in 0..MaxAttempts
         /\ u.remaining \in 0..Size /\ u.position \in 0..Size
         /\ u.lingering \in BOOLEAN /\ u.parts \in Seq((0..Size) \X (0..Size))
         /\ PartLength(b) \in 0..u.remaining
  BY BackupAssumption DEF TypeOK, Upload, PartLength, Min2

\* The record of one upload changed, the others did not.
Alike(f, g, b) == g \in [Backup -> Upload] /\ \A c \in Backup : c # b => g[c] = f[c]

\* What becomes of an upload in each step.
LEMMA UrlsUpload ==
  ASSUME TypeOK, NEW b \in Backup, Urls(b)
  PROVE  LET u == upload[b] v == upload'[b] IN
         /\ Alike(upload, upload', b)
         /\ v.remaining = u.remaining /\ v.position = u.position /\ v.parts = u.parts
<1>1. PICK n \in 0..MaxUrls : upload' = [upload EXCEPT ![b].left = n]
  BY DEF Urls
<1>2. upload \in [Backup -> Upload]
  BY DEF TypeOK
<1>3. QED
  BY <1>1, <1>2 DEF Alike, Upload

LEMMA AttemptUpload ==
  ASSUME TypeOK, NEW b \in Backup, Attempt(b)
  PROVE  LET u == upload[b] v == upload'[b] IN
         /\ Alike(upload, upload', b) /\ v.left = u.left
         /\ v.remaining = u.remaining /\ v.position = Size - u.remaining /\ v.parts = u.parts
<1> DEFINE n == upload[b].attempts + 1
           p == Size - upload[b].remaining
           g == [upload EXCEPT ![b].attempts = n]
<1>1. upload' = [g EXCEPT ![b].position = p]
  BY DEF Attempt
<1>2. n \in 0..MaxAttempts /\ p \in 0..Size /\ upload \in [Backup -> Upload]
  BY UploadFields, BackupAssumption DEF Attempt, TypeOK
<1> HIDE DEF n, p
<1>3. /\ Alike(upload, g, b) /\ g[b].left = upload[b].left
      /\ g[b].remaining = upload[b].remaining /\ g[b].parts = upload[b].parts
  BY <1>2 DEF Alike, Upload
<1> HIDE DEF g
<1>4. /\ Alike(g, upload', b) /\ upload'[b].left = g[b].left
      /\ upload'[b].remaining = g[b].remaining /\ upload'[b].parts = g[b].parts
      /\ upload'[b].position = p
  BY <1>1, <1>2, <1>3 DEF Alike, Upload
<1>5. QED
  BY <1>3, <1>4 DEF Alike, p

LEMMA AcceptedUpload ==
  ASSUME TypeOK, NEW b \in Backup, Accepted(b), upload[b].left > 0
  PROVE  LET u == upload[b] v == upload'[b] n == PartLength(b) IN
         /\ Alike(upload, upload', b)
         /\ v.remaining = u.remaining - n
         /\ v.parts = Append(u.parts, <<u.position, n>>)
<1> DEFINE u == upload[b]
           l == u.left - 1
           r == u.remaining - PartLength(b)
           q == Append(u.parts, <<u.position, PartLength(b)>>)
           f == [upload EXCEPT ![b].left = l]
           g == [f EXCEPT ![b].attempts = 0]
           h == [g EXCEPT ![b].remaining = r]
<1>1. upload' = [h EXCEPT ![b].parts = q]
  <2>1. upload' = [upload EXCEPT ![b].left = u.left - 1, ![b].attempts = 0,
                                 ![b].remaining = u.remaining - PartLength(b),
                                 ![b].parts = Append(u.parts, <<u.position, PartLength(b)>>)]
    BY DEF Accepted
  <2>2. QED
    BY <2>1
<1>2. l \in 0..MaxUrls /\ r \in 0..Size /\ 0 \in 0..MaxAttempts
  BY UploadFields, BackupAssumption
<1>3. q \in Seq((0..Size) \X (0..Size))
  <2>1. <<u.position, PartLength(b)>> \in (0..Size) \X (0..Size)
    BY UploadFields, BackupAssumption
  <2>2. QED
    BY <2>1, UploadFields
<1>4. upload \in [Backup -> Upload]
  BY DEF TypeOK
<1> HIDE DEF l, r, q
<1>5. Alike(upload, f, b) /\ f[b].remaining = u.remaining
  BY <1>2, <1>4 DEF Alike, Upload
<1> HIDE DEF f
<1>6. Alike(f, g, b) /\ g[b].remaining = f[b].remaining
  BY <1>2, <1>5 DEF Alike, Upload
<1> HIDE DEF g
<1>7. Alike(g, h, b) /\ h[b].remaining = r
  BY <1>2, <1>6 DEF Alike, Upload
<1> HIDE DEF h
<1>8. Alike(h, upload', b) /\ upload'[b].remaining = h[b].remaining /\ upload'[b].parts = q
  BY <1>1, <1>3, <1>7 DEF Alike, Upload
<1>9. QED
  BY <1>5, <1>6, <1>7, <1>8 DEF Alike, r, q

LEMMA RefusedUpload ==
  ASSUME TypeOK, NEW b \in Backup, Refused(b)
  PROVE  LET u == upload[b] v == upload'[b] IN
         /\ Alike(upload, upload', b)
         /\ v.remaining = u.remaining /\ v.parts = u.parts
<1>1. PICK x \in BOOLEAN : upload' = [upload EXCEPT ![b].lingering = x]
  BY UploadFields DEF Refused
<1>2. upload \in [Backup -> Upload]
  BY DEF TypeOK
<1>3. QED
  BY <1>1, <1>2 DEF Alike, Upload

LEMMA LateReadUpload ==
  ASSUME TypeOK, NEW b \in Backup, LateRead(b)
  PROVE  LET u == upload[b] v == upload'[b] IN
         /\ Alike(upload, upload', b) /\ v.left = u.left
<1> DEFINE p == Min2(upload[b].position + 1, Size)
           x == FALSE
           g == [upload EXCEPT ![b].lingering = x]
<1>1. upload' = [g EXCEPT ![b].position = p]
  BY DEF LateRead
<1>2. p \in 0..Size /\ x \in BOOLEAN /\ upload \in [Backup -> Upload]
  BY UploadFields, BackupAssumption DEF TypeOK, Min2
<1> HIDE DEF p, x
<1>3. Alike(upload, g, b) /\ g[b].left = upload[b].left
  BY <1>2 DEF Alike, Upload
<1> HIDE DEF g
<1>4. g \in [Backup -> Upload]
  BY <1>3 DEF Alike
<1>5. Alike(g, upload', b) /\ upload'[b].left = g[b].left
  BY <1>1, <1>2, <1>4 DEF Alike, Upload
<1>6. QED
  BY <1>3, <1>5 DEF Alike

\* Nothing happens to a backup.
Stays(c) ==
  /\ create'[c] = create[c] /\ adapter'[c] = adapter[c] /\ laid'[c] = laid[c]
  /\ stored'[c] = stored[c] /\ upload'[c] = upload[c] /\ panel'[c] = panel[c]
  /\ removal'[c] = removal[c] /\ reader'[c] = reader[c] /\ ghost'[c] = ghost[c]

PC == {"none", "lay", "hash", "urls", "upload", "put", "drop",
       "good", "record", "bad", "cleanup", "over", "killed"}
ReaderRecord == [pc : {"none", "open", "read", "good", "bad"}, got : {"nothing", "part", "whole"}]

\* A step of one backup keeps the types, and nothing happens to the others.
LEMMA CreateGoes ==
  ASSUME TypeOK, NEW b \in Backup, NEW pc \in PC, Goto(b, pc)
  PROVE  /\ create' \in [Backup -> PC] /\ create'[b] = pc
         /\ \A c \in Backup : c # b => create'[c] = create[c]
  BY DEF TypeOK, Goto, PC

LEMMA WalkTypes ==
  ASSUME TypeOK, NEW b \in Backup, Walks(b)
  PROVE  TypeOK' /\ \A c \in Backup : c # b => Stays(c)
<1>1. \E pc \in PC : Goto(b, pc)
  BY DEF Walks, Request, Unbuilt, Hash, CreateFails, GiveUp, Unanswered, Uploaded, Record, PC
<1>2. create' \in [Backup -> PC] /\ \A c \in Backup : c # b => create'[c] = create[c]
  BY <1>1, CreateGoes
<1>3. QED
  BY <1>2, WalkFrame DEF TypeOK, Stays, PC

LEMMA UploadTypes ==
  ASSUME TypeOK, NEW b \in Backup, Uploads(b), create[b] = "put" => upload[b].left > 0
  PROVE  TypeOK' /\ \A c \in Backup : c # b => Stays(c)
<1>1. create' \in [Backup -> PC] /\ \A c \in Backup : c # b => create'[c] = create[c]
  <2>1. (\E pc \in PC : Goto(b, pc)) \/ UNCHANGED create
    BY DEF Uploads, Urls, Attempt, Accepted, Refused, LateRead, PC
  <2>2. QED
    BY <2>1, CreateGoes DEF TypeOK, PC
<1>2. Alike(upload, upload', b)
  <2>1. Accepted(b) => upload[b].left > 0
    BY DEF Accepted
  <2>2. QED
    BY <2>1, UrlsUpload, AttemptUpload, AcceptedUpload, RefusedUpload, LateReadUpload DEF Uploads
<1>3. QED
  BY <1>1, <1>2, UploadFrame DEF TypeOK, Stays, PC, Alike

\* The pieces of an adapter.
LEMMA PieceFacts ==
  ASSUME TypeOK, NEW b \in Backup
  PROVE  LET P == Pieces[adapter[b]] IN
         /\ \/ /\ adapter[b] \in {"tar", "zip", "s3", "ddup"} /\ Len(P) = 2
               /\ P[1] = "archive" /\ P[2] = "content"
               /\ ToSet(P) = {"archive", "content"}
            \/ /\ adapter[b] = "btrfs" /\ Len(P) = 3
               /\ P[1] = "directory" /\ P[2] = "snapshot" /\ P[3] = "ignored"
               /\ ToSet(P) = {"directory", "snapshot", "ignored"}
            \/ /\ adapter[b] = "zfs" /\ Len(P) = 4
               /\ P[1] = "directory" /\ P[2] = "snapshot" /\ P[3] = "ignored" /\ P[4] = "dataset"
               /\ ToSet(P) = {"directory", "snapshot", "ignored", "dataset"}
<1>1. adapter[b] \in {"tar", "zip", "s3", "ddup", "btrfs", "zfs"}
  BY BackupAssumption DEF TypeOK
<1>2. CASE adapter[b] \in {"tar", "zip", "s3", "ddup"}
  <2>1. Pieces[adapter[b]] = <<"archive", "content">>
    BY <1>2 DEF Pieces, TarPieces, ZipPieces, S3Pieces, DdupPieces
  <2>2. QED
    BY <1>2, <2>1 DEF ToSet
<1>3. CASE adapter[b] = "btrfs"
  <2>1. Pieces[adapter[b]] = <<"directory", "snapshot", "ignored">>
    BY <1>3 DEF Pieces, BtrfsPieces
  <2>2. QED
    BY <1>3, <2>1 DEF ToSet
<1>4. CASE adapter[b] = "zfs"
  <2>1. Pieces[adapter[b]] = <<"directory", "snapshot", "ignored", "dataset">>
    BY <1>4 DEF Pieces, ZfsPieces
  <2>2. QED
    BY <1>4, <2>1 DEF ToSet
<1>5. QED
  BY <1>1, <1>2, <1>3, <1>4

LEMMA LayTypes ==
  ASSUME TypeOK, NEW b \in Backup, Lay(b), Stage(b)
  PROVE  TypeOK' /\ \A c \in Backup : c # b => Stays(c)
<1>1. create' \in [Backup -> PC] /\ \A c \in Backup : c # b => create'[c] = create[c]
  <2>1. \E pc \in PC : Goto(b, pc)
    BY DEF Lay, PC
  <2>2. QED
    BY <2>1, CreateGoes
<1>2. laid[b] < Len(Pieces[adapter[b]]) /\ Len(Pieces[adapter[b]]) \in 0..4
      /\ Pieces[adapter[b]][laid[b] + 1] \in Piece
  <2>1. create[b] = "lay" /\ laid[b] \in 0..4 /\ laid[b] < Len(Pieces[adapter[b]])
    BY DEF Lay, Stage, TypeOK
  <2>2. QED
    BY <2>1, PieceFacts DEF Piece
<1>3. laid' \in [Backup -> 0..4] /\ \A c \in Backup : c # b => laid'[c] = laid[c]
  <2>1. laid' = [laid EXCEPT ![b] = laid[b] + 1] /\ laid \in [Backup -> 0..4]
    BY DEF Lay, TypeOK
  <2>2. laid[b] + 1 \in 0..4
    BY <1>2, <2>1
  <2>3. QED
    BY <2>1, <2>2
<1>4. stored' \in [Backup -> SUBSET Piece] /\ \A c \in Backup : c # b => stored'[c] = stored[c]
  BY <1>2 DEF Lay, TypeOK, Piece
<1>5. QED
  BY <1>1, <1>3, <1>4, LayFrame DEF TypeOK, Stays, PC

LEMMA DropTypes ==
  ASSUME TypeOK, NEW b \in Backup, DropArchive(b)
  PROVE  TypeOK' /\ \A c \in Backup : c # b => Stays(c)
  BY CreateGoes DEF DropArchive, Goto, Aside, TypeOK, Stays, PC

LEMMA ReportTypes ==
  ASSUME TypeOK, NEW b \in Backup, Reports(b)
  PROVE  TypeOK' /\ \A c \in Backup : c # b => Stays(c)
<1>1. create' \in [Backup -> PC] /\ \A c \in Backup : c # b => create'[c] = create[c]
  <2>1. \E pc \in PC : Goto(b, pc)
    BY DEF Reports, ReportGood, ReportBad, Report, PC
  <2>2. QED
    BY <2>1, CreateGoes
<1>2. \E status \in {"successful", "unsuccessful"} :
        panel' = [panel EXCEPT ![b] = status] \/ UNCHANGED panel
  BY DEF Reports, ReportGood, ReportBad, Report
<1>3. /\ panel' \in [Backup -> {"waiting", "successful", "unsuccessful"}]
      /\ \A c \in Backup : c # b => panel'[c] = panel[c]
  BY <1>2 DEF TypeOK
<1>4. QED
  BY <1>1, <1>3, ReportFrame DEF TypeOK, Stays, PC

\* What a step does to the deletions of one backup.
Removes(b) ==
  /\ removal' \in [Backup -> [{"route", "create"} -> {"none", "delete", "rest"}]]
  /\ \A c \in Backup : c # b => removal'[c] = removal[c]

LEMMA CleanupTypes ==
  ASSUME TypeOK, NEW b \in Backup, Cleanup(b)
  PROVE  TypeOK' /\ \A c \in Backup : c # b => Stays(c)
<1>1. create' \in [Backup -> PC] /\ \A c \in Backup : c # b => create'[c] = create[c]
  BY CreateGoes DEF Cleanup, PC
<1>2. Removes(b)
  BY DEF Cleanup, TypeOK, Removes
<1>3. UNCHANGED <<adapter, laid, stored, upload, panel, reader, crashes, ghost>>
  BY DEF Cleanup, stores
<1>4. QED
  BY <1>1, <1>2, <1>3 DEF TypeOK, Stays, PC, Removes

LEMMA DeleteTypes ==
  ASSUME TypeOK, NEW b \in Backup, Deletes(b)
  PROVE  TypeOK' /\ \A c \in Backup : c # b => Stays(c)
<1>1. Removes(b)
  <2>1. CASE DeleteRequest(b)
    BY <2>1 DEF DeleteRequest, TypeOK, Removes
  <2>2. ASSUME NEW t \in {"route", "create"}, DeleteSteps(b, t)
        PROVE  Removes(b)
    <3>1. PICK x \in {"none", "delete", "rest"} :
            removal' = [removal EXCEPT ![b][t] = x] \/ UNCHANGED removal
      BY <2>2 DEF DeleteSteps, DeleteBegins, DeleteRest, DeleteFails
    <3>2. CASE UNCHANGED removal
      BY <3>2 DEF TypeOK, Removes
    <3>3. CASE removal' = [removal EXCEPT ![b][t] = x]
      BY <3>3 DEF TypeOK, Removes
    <3>4. QED
      BY <3>1, <3>2, <3>3
  <2>3. QED
    BY <2>1, <2>2 DEF Deletes
<1>2. /\ stored' \in [Backup -> SUBSET Piece]
      /\ \A c \in Backup : c # b => stored'[c] = stored[c]
  <2>1. CASE DeleteRequest(b)
    BY <2>1 DEF DeleteRequest, TypeOK, stores
  <2>2. ASSUME NEW t \in {"route", "create"}, DeleteBegins(b, t)
        PROVE  \E s \in SUBSET Piece : stored' = [stored EXCEPT ![b] = s] \/ UNCHANGED stored
    <3>1. Destroyed(b) \in SUBSET Piece
      BY BackupAssumption DEF TypeOK, Destroyed, WingsUnlinked, DdupUnlinked, S3Unlinked,
         BtrfsDestroyed, ZfsDestroyed
    <3>2. QED
      BY <2>2, <3>1 DEF DeleteBegins
  <2>3. ASSUME NEW t \in {"route", "create"}, DeleteRest(b, t) \/ DeleteFails(b, t)
        PROVE  \E s \in SUBSET Piece : stored' = [stored EXCEPT ![b] = s] \/ UNCHANGED stored
    BY <2>3 DEF DeleteRest, DeleteFails, stores, TypeOK
  <2>4. QED
    BY <2>1, <2>2, <2>3 DEF Deletes, DeleteSteps, TypeOK
<1>3. QED
  BY <1>1, <1>2, DeleteFrame DEF TypeOK, Stays, Removes

LEMMA ReadTypes ==
  ASSUME TypeOK, NEW b \in Backup, Reads(b)
  PROVE  TypeOK' /\ \A c \in Backup : c # b => Stays(c)
<1>1. \E k \in {"restore", "download"}, pc \in {"none", "open", "read", "good", "bad"},
         got \in {"nothing", "part", "whole"} : Goes(b, k, pc, got)
  <2>1. \A k \in {"restore", "download"} : reader[b][k].got \in {"nothing", "part", "whole"}
    BY DEF TypeOK
  <2>2. CASE RestoreReads(b)
    BY <2>1, <2>2 DEF RestoreReads
  <2>3. CASE DownloadReads(b)
    BY <2>1, <2>3 DEF DownloadReads
  <2>4. ASSUME NEW k \in {"restore", "download"}, Open(b, k) \/ ReadFails(b, k) \/ ReadEnds(b, k)
        PROVE  \E pc \in {"none", "open", "read", "good", "bad"},
                  got \in {"nothing", "part", "whole"} : Goes(b, k, pc, got)
    BY <2>1, <2>4 DEF Open, ReadFails, ReadEnds
  <2>5. CASE RestoreRequest(b) \/ DownloadRequest(b)
    BY <2>5 DEF RestoreRequest, DownloadRequest
  <2>6. QED
    BY <2>2, <2>3, <2>4, <2>5 DEF Reads, ReadSteps
<1>2. /\ reader' \in [Backup -> [{"restore", "download"} -> ReaderRecord]]
      /\ \A c \in Backup : c # b => reader'[c] = reader[c]
  BY <1>1 DEF Goes, TypeOK, ReaderRecord
<1>3. QED
  BY <1>2, ReadFrame DEF TypeOK, Stays, ReaderRecord

LEMMA CrashTypes ==
  ASSUME TypeOK, Crash
  PROVE  TypeOK'
<1>1. UNCHANGED <<adapter, laid, stored, upload, panel>>
  BY DEF Crash, stores
<1>2. create' \in [Backup -> PC]
  BY DEF Crash, TypeOK, PC
<1>3. removal' \in [Backup -> [{"route", "create"} -> {"none", "delete", "rest"}]]
  BY DEF Crash
<1>4. reader' \in [Backup -> [{"restore", "download"} -> ReaderRecord]]
  BY DEF Crash, NoReader, ReaderRecord
<1>5. crashes' \in 0..MaxCrashes
  BY BackupAssumption DEF Crash, TypeOK
<1>6. ghost' \in [Backup -> Ghost]
  <2>1. Backup = {} => ghost' \in [Backup -> Ghost]
    BY DEF Crash
  <2>2. QED
    BY <2>1, CrashFrame
<1>7. QED
  BY <1>1, <1>2, <1>3, <1>4, <1>5, <1>6 DEF TypeOK, PC, ReaderRecord

LEMMA StepTypes ==
  ASSUME TypeOK, NEW b \in Backup, Faithful(b), Step(b)
  PROVE  TypeOK' /\ \A c \in Backup : c # b => Stays(c)
  BY WalkTypes, UploadTypes, LayTypes, DropTypes, ReportTypes, CleanupTypes, DeleteTypes, ReadTypes
     DEF Step, Faithful, Sequential

(***************************************************************************)
(* A step of a backup keeps what is known of it, one part of the invariant *)
(* after the other                                                         *)
(***************************************************************************)

LEMMA StageKept ==
  ASSUME TypeOK, NEW b \in Backup, Faithful(b), Step(b)
  PROVE  Stage(b)'
<1> DEFINE n == Len(Pieces[adapter[b]])
<1>1. n \in 2..4 /\ laid[b] \in 0..4
  BY PieceFacts DEF TypeOK
<1>2. CASE Walks(b)
  <2>1. Stage(b) /\ create \in [Backup -> PC] /\ panel[b] \in {"waiting", "successful", "unsuccessful"}
    BY DEF Faithful, TypeOK, PC
  <2>2. UNCHANGED <<adapter, laid, panel>>
    BY <1>2, WalkFrame
  <2>3. CASE Request(b)
    <3>1. create[b] = "none" /\ create'[b] = "lay"
      BY <2>1, <2>3 DEF Request, Goto
    <3>2. laid[b] = 0 /\ panel[b] = "waiting"
      BY <2>1, <3>1 DEF Stage
    <3> HIDE DEF n
    <3>3. n' = n /\ laid'[b] = 0 /\ panel'[b] = "waiting"
      BY <2>2, <3>2 DEF n
    <3>4. laid'[b] < n' /\ laid'[b] <= n'
      BY <1>1, <3>3
    <3>5. QED
      BY <3>1, <3>3, <3>4 DEF Stage, n
  <2>4. CASE Unbuilt(b) \/ CreateFails(b)
    <3>1. create[b] \in {"lay", "hash", "urls", "drop"} /\ create'[b] \in {"over", "bad"}
      BY <2>1, <2>4 DEF Unbuilt, CreateFails, Goto
    <3>2. QED
      BY <2>1, <2>2, <3>1 DEF Stage
  <2>5. CASE Hash(b)
    <3>1. create[b] = "hash" /\ create'[b] = IF adapter[b] = "s3" THEN "urls" ELSE "good"
      BY <2>1, <2>5 DEF Hash, Goto
    <3>2. QED
      BY <2>1, <2>2, <3>1 DEF Stage
  <2>6. CASE GiveUp(b) \/ Unanswered(b) \/ Uploaded(b) \/ Record(b)
    BY <1>1, <2>1, <2>2, <2>6 DEF GiveUp, Unanswered, Uploaded, Record, Goto, Stage
  <2>7. QED
    BY <1>2, <2>3, <2>4, <2>5, <2>6 DEF Walks
<1>3. CASE Uploads(b)
  BY <1>3, UploadFrame
     DEF Uploads, Urls, Attempt, Accepted, Refused, LateRead, Goto, TypeOK, Faithful, Stage
<1>4. CASE Lay(b)
  <2>1. laid' = [laid EXCEPT ![b] = laid[b] + 1]
    BY <1>4 DEF Lay
  <2>2. create' = [create EXCEPT ![b] = IF laid[b] + 1 = n THEN "hash" ELSE "lay"]
    BY <1>4 DEF Lay, Goto
  <2>3. create[b] = "lay" /\ laid[b] < n /\ panel[b] = "waiting"
    BY <1>4 DEF Lay, Faithful, Stage, TypeOK
  <2>4. laid'[b] = laid[b] + 1 /\ create'[b] = IF laid[b] + 1 = n THEN "hash" ELSE "lay"
    BY <2>1, <2>2 DEF TypeOK
  <2>5. QED
    BY <1>1, <1>4, <2>3, <2>4, LayFrame DEF Stage
<1>5. CASE DropArchive(b)
  BY <1>5 DEF DropArchive, Aside, Goto, TypeOK, Faithful, Stage
<1>6. CASE Reports(b)
  <2>1. CASE ReportGood(b)
    BY <1>6, <2>1, ReportFrame DEF ReportGood, Report, Goto, TypeOK, Faithful, Stage
  <2>2. CASE ReportBad(b)
    BY <1>6, <2>2, ReportFrame DEF ReportBad, Report, Goto, TypeOK, Faithful, Stage
  <2>3. QED
    BY <1>6, <2>1, <2>2 DEF Reports
<1>7. CASE Cleanup(b)
  BY <1>7 DEF Cleanup, Goto, stores, TypeOK, Faithful, Stage
<1>8. CASE Deletes(b)
  BY <1>8, DeleteFrame DEF Faithful, Stage
<1>9. CASE Reads(b)
  BY <1>9, ReadFrame DEF Faithful, Stage
<1>10. QED
  BY <1>2, <1>3, <1>4, <1>5, <1>6, <1>7, <1>8, <1>9 DEF Step

\* A part that begins where the others end.
LEMMA AdjacentAppended ==
  ASSUME NEW parts \in Seq((0..Size) \X (0..Size)), NEW p \in 0..Size, NEW n \in 0..Size,
         Adjacent(parts, p)
  PROVE  Adjacent(Append(parts, <<p, n>>), p + n)
<1> DEFINE q == Append(parts, <<p, n>>)
<1>1. /\ q # <<>> /\ Len(q) = Len(parts) + 1 /\ Len(parts) \in Nat
      /\ q[Len(parts) + 1] = <<p, n>>
      /\ \A i \in 1..Len(parts) : q[i] = parts[i]
  <2>1. <<p, n>> \in (0..Size) \X (0..Size)
    OBVIOUS
  <2> DEFINE r == <<p, n>>
  <2> HIDE DEF r
  <2>2. LET a == Append(parts, r) IN
        /\ a # <<>> /\ Len(a) = Len(parts) + 1 /\ Len(parts) \in Nat
        /\ a[Len(parts) + 1] = r
        /\ \A i \in 1..Len(parts) : a[i] = parts[i]
    OBVIOUS
  <2>3. QED
    BY <2>2 DEF r
<1> HIDE DEF q
<1>2. CASE parts = <<>>
  BY <1>1, <1>2 DEF Adjacent
<1>3. CASE parts # <<>>
  <2>1. Len(parts) > 0
    BY <1>3
  <2>2. q[1] = parts[1] /\ parts[1][1] = 0
    BY <1>1, <1>3, <2>1 DEF Adjacent
  <2>3. p = q[Len(parts)][1] + q[Len(parts)][2]
    BY <1>1, <1>3, <2>1 DEF Adjacent
  <2>4. ASSUME NEW i \in 2..Len(q)
        PROVE  q[i][1] = q[i - 1][1] + q[i - 1][2]
    <3>1. CASE i = Len(q)
      <4>1. i = Len(parts) + 1 /\ i - 1 = Len(parts)
        BY <1>1, <3>1
      <4>2. QED
        BY <1>1, <2>3, <4>1
    <3>2. CASE i # Len(q)
      <4>1. i \in 2..Len(parts) /\ i \in 1..Len(parts) /\ i - 1 \in 1..Len(parts)
        BY <1>1, <3>2
      <4>2. parts[i][1] = parts[i - 1][1] + parts[i - 1][2]
        BY <1>3, <4>1 DEF Adjacent
      <4>3. QED
        BY <1>1, <4>1, <4>2
    <3>3. QED
      BY <3>1, <3>2
  <2>5. p + n = q[Len(q)][1] + q[Len(q)][2]
    BY <1>1
  <2>6. QED
    BY <1>1, <2>2, <2>4, <2>5 DEF Adjacent
<1>4. QED
  BY <1>2, <1>3 DEF q

LEMMA SequentialKept ==
  ASSUME TypeOK, NEW b \in Backup, Faithful(b), Step(b)
  PROVE  Sequential(b)'
<1> DEFINE u == upload[b]
           v == upload'[b]
<1>0. /\ create \in [Backup -> PC] /\ Stage(b) /\ Sequential(b)
      /\ u.remaining \in 0..Size /\ u.position \in 0..Size
      /\ Size \in Nat
  BY UploadFields, BackupAssumption DEF TypeOK, Faithful, PC
<1>1. CASE Walks(b)
  <2>1. CASE Uploaded(b)
    BY <1>0, <1>1, <2>1, WalkFrame DEF Uploaded, Goto, Sequential, Sent, Exact, Stage
  <2>2. CASE Request(b) \/ Unbuilt(b) \/ Hash(b) \/ CreateFails(b) \/ GiveUp(b) \/ Unanswered(b) \/ Record(b)
    <3>1. create'[b] \notin {"put", "drop", "good"} \/ (create'[b] = "good" /\ adapter[b] # "s3")
      BY <1>0, <2>2 DEF Request, Unbuilt, Hash, CreateFails, GiveUp, Unanswered, Record, Goto
    <3>2. QED
      BY <1>0, <1>1, <3>1, WalkFrame DEF Sequential, Sent, Exact, Stage
  <2>3. QED
    BY <1>1, <2>1, <2>2 DEF Walks
<1>2. CASE Uploads(b)
  <2>1. panel[b] # "successful" /\ ~Sent(b)' /\ create'[b] # "drop"
    BY <1>0, <1>2, UploadFrame
       DEF Uploads, Urls, Attempt, Accepted, Refused, LateRead, Goto, Sent, Stage
  <2>2. CASE Urls(b)
    BY <1>0, <1>2, <2>1, <2>2, UrlsUpload, UploadFrame DEF Urls, Goto, Sequential
  <2>3. CASE Attempt(b)
    <3>1. create'[b] = "put" /\ u.left > 0
      BY <1>0, <2>3 DEF Attempt, Goto
    <3>2. QED
      BY <1>0, <1>2, <2>1, <2>3, <3>1, AttemptUpload, UploadFrame DEF Sequential
  <2>4. CASE Accepted(b)
    <3>1. create[b] = "put" /\ create'[b] = "upload" /\ u.left > 0 /\ ghost' = ghost
      BY <1>0, <2>4 DEF Accepted, Goto, Sequential
    <3>2. v.remaining = u.remaining - PartLength(b) /\ v.parts = Append(u.parts, <<u.position, PartLength(b)>>)
      BY <2>4, <3>1, AcceptedUpload
    <3>3. ASSUME ~ghost[b].spoiled
          PROVE  Adjacent(v.parts, Size - v.remaining)
      <4>1. Adjacent(u.parts, u.position) /\ u.position = Size - u.remaining
        BY <1>0, <3>1, <3>3 DEF Sequential
      <4>2. PartLength(b) \in 0..Size /\ u.parts \in Seq((0..Size) \X (0..Size))
        BY <1>0, UploadFields
      <4>3. Adjacent(v.parts, u.position + PartLength(b))
        BY <1>0, <3>2, <4>1, <4>2, AdjacentAppended
      <4>4. u.position + PartLength(b) = Size - v.remaining
        BY <1>0, <3>2, <4>1, <4>2
      <4>5. QED
        BY <4>3, <4>4
    <3>4. QED
      BY <2>1, <3>1, <3>3 DEF Sequential
  <2>5. CASE Refused(b)
    <3>1. create'[b] = "upload" /\ ghost' = ghost
      BY <1>0, <2>5 DEF Refused, Goto
    <3>2. QED
      BY <1>0, <2>1, <2>5, <3>1, RefusedUpload DEF Sequential
  <2>6. CASE LateRead(b)
    <3>1. create[b] = "put" /\ ghost'[b].spoiled
      BY <2>6 DEF LateRead, TypeOK, Ghost
    <3>2. QED
      BY <1>0, <2>1, <2>6, <3>1, LateReadUpload DEF Sequential
  <2>7. QED
    BY <1>2, <2>2, <2>3, <2>4, <2>5, <2>6 DEF Uploads
<1>3. CASE Lay(b)
  <2>1. create'[b] \in {"lay", "hash"} /\ create[b] = "lay"
    BY <1>0, <1>3 DEF Lay, Goto
  <2>2. QED
    BY <1>0, <1>3, <2>1, LayFrame DEF Sequential, Sent, Stage, SameSpoiled
<1>4. CASE DropArchive(b)
  <2>1. stored'[b] = {} /\ create[b] = "drop" /\ create'[b] = "good"
    BY <1>0, <1>4 DEF DropArchive, Goto, TypeOK
  <2>2. UNCHANGED <<upload, ghost>>
    BY <1>4 DEF DropArchive
  <2>3. QED
    BY <1>0, <2>1, <2>2 DEF Sequential, Sent, Exact
<1>5. CASE Reports(b)
  <2>1. CASE ReportGood(b)
    <3>1. create[b] = "good" /\ create'[b] \in {"record", "over"}
      BY <1>0, <2>1 DEF ReportGood, Report, Goto
    <3>2. QED
      BY <1>0, <1>5, <3>1, ReportFrame DEF Sequential, Sent, Exact, SameSpoiled
  <2>2. CASE ReportBad(b)
    <3>1. create'[b] \in {"cleanup", "over"} /\ panel'[b] \in {panel[b], "unsuccessful"}
      BY <1>0, <2>2 DEF ReportBad, Report, Goto, TypeOK
    <3>2. QED
      BY <1>0, <1>5, <3>1, ReportFrame DEF Sequential, Sent, Exact, SameSpoiled
  <2>3. QED
    BY <1>5, <2>1, <2>2 DEF Reports
<1>6. CASE Cleanup(b)
  BY <1>0, <1>6 DEF Cleanup, Goto, stores, Sequential, Sent, Exact
<1>7. CASE Deletes(b)
  <2>1. adapter[b] = "s3" /\ stored[b] = {} => stored'[b] = {}
    <3>1. CASE DeleteRequest(b)
      BY <3>1 DEF DeleteRequest, stores
    <3>2. ASSUME NEW t \in {"route", "create"}, DeleteSteps(b, t), adapter[b] = "s3", stored[b] = {}
          PROVE  stored'[b] = {}
      BY <3>2 DEF DeleteSteps, DeleteBegins, DeleteRest, DeleteFails, stores, TypeOK,
                  Destroyed, S3Unlinked
    <3>3. QED
      BY <1>7, <3>1, <3>2 DEF Deletes
  <2>2. QED
    BY <1>0, <1>7, <2>1, DeleteFrame DEF Sequential, Sent, Exact, SameSpoiled
<1>8. CASE Reads(b)
  BY <1>0, <1>8, ReadFrame DEF Sequential, Sent, Exact, SameSpoiled
<1>9. QED
  BY <1>1, <1>2, <1>3, <1>4, <1>5, <1>6, <1>7, <1>8 DEF Step

\* The next piece, in a backup.
LEMMA LayEffect ==
  ASSUME TypeOK, NEW b \in Backup, Faithful(b), Lay(b)
  PROVE  LET piece == Pieces[adapter[b]][laid[b] + 1]
             torn == ghost'[b].torn
         IN
         /\ create[b] = "lay" /\ panel[b] = "waiting" /\ laid[b] < Len(Pieces[adapter[b]])
         /\ laid'[b] = laid[b] + 1
         /\ Snapshots(b) /\ laid[b] > 0 => "directory" \in stored[b]
         /\ torn => Tarball(b) /\ piece = "content"
         /\ stored'[b] = IF piece = "content" /\ "archive" \notin stored[b] THEN stored[b]
                         ELSE stored[b] \union {IF torn THEN "fragment" ELSE piece}
<1> DEFINE piece == Pieces[adapter[b]][laid[b] + 1]
<1>1. PICK torn \in {FALSE, Tarball(b) /\ piece = "content"} :
        /\ ghost' = [ghost EXCEPT ![b].torn = torn]
        /\ stored' = IF piece = "content" /\ "archive" \notin stored[b] THEN stored
                     ELSE [stored EXCEPT ![b] = stored[b] \union {IF torn THEN "fragment" ELSE piece}]
  BY DEF Lay
<1>2. torn => Tarball(b) /\ piece = "content"
  BY <1>1
<1>3. ghost'[b].torn <=> torn
  <2>1. ghost' = [ghost EXCEPT ![b].torn = torn]
    BY <1>1
  <2>2. QED
    BY <2>1 DEF TypeOK, Ghost
<1>4. stored'[b] = IF piece = "content" /\ "archive" \notin stored[b] THEN stored[b]
                   ELSE stored[b] \union {IF torn THEN "fragment" ELSE piece}
  <2> HIDE DEF piece
  <2>1. QED
    BY <1>1 DEF TypeOK
<1>5. /\ create[b] = "lay" /\ panel[b] = "waiting" /\ laid[b] < Len(Pieces[adapter[b]])
      /\ laid'[b] = laid[b] + 1
      /\ Snapshots(b) /\ laid[b] > 0 => "directory" \in stored[b]
  BY DEF Lay, Faithful, Stage, TypeOK
<1>6. QED
  BY <1>2, <1>3, <1>4, <1>5

\* A deletion that begins, goes on or fails, in a backup.
LEMMA BeginEffect ==
  ASSUME TypeOK, NEW b \in Backup, NEW t \in {"route", "create"}, DeleteBegins(b, t)
  PROVE  /\ removal[b][t] = "delete"
         /\ removal'[b][t] = IF HasRest(b) THEN "rest" ELSE "none"
         /\ \A s \in {"route", "create"} : s # t => removal'[b][s] = removal[b][s]
         /\ stored'[b] = IF Snapshots(b) /\ ~HasRest(b) THEN stored[b] ELSE Destroyed(b)
         /\ ghost'[b].erased /\ SameKept(b)
<1>1. ghost'[b].erased /\ SameKept(b)
  <2>1. ghost' = [ghost EXCEPT ![b].erased = TRUE]
    BY DEF DeleteBegins
  <2>2. QED
    BY <2>1 DEF TypeOK, Ghost, SameKept
<1>2. PICK x \in {"rest", "none"} :
        /\ x = IF HasRest(b) THEN "rest" ELSE "none"
        /\ removal' = [removal EXCEPT ![b][t] = x]
  BY DEF DeleteBegins
<1>3. /\ removal'[b][t] = x
      /\ \A s \in {"route", "create"} : s # t => removal'[b][s] = removal[b][s]
  <2>1. removal' = [removal EXCEPT ![b][t] = x]
    BY <1>2
  <2>2. QED
    BY <2>1 DEF TypeOK
<1>4. /\ removal[b][t] = "delete"
      /\ stored'[b] = IF Snapshots(b) /\ ~HasRest(b) THEN stored[b] ELSE Destroyed(b)
  BY DEF DeleteBegins, TypeOK
<1>5. QED
  BY <1>1, <1>2, <1>3, <1>4

LEMMA RestEffect ==
  ASSUME TypeOK, NEW b \in Backup, NEW t \in {"route", "create"}, DeleteRest(b, t)
  PROVE  LET inside == IF adapter[b] = "zfs" THEN {"ignored", "dataset"} ELSE {"ignored", "snapshot"}
         IN
         /\ removal[b][t] = "rest" /\ UNCHANGED ghost
         /\ \A s \in {"route", "create"} : s # t => removal'[b][s] = removal[b][s]
         /\ \/ /\ removal'[b][t] = "rest"
               /\ \E piece \in inside \cap stored[b] : stored'[b] = stored[b] \ {piece}
            \/ /\ removal'[b][t] = "none" /\ inside \cap stored[b] = {}
               /\ stored'[b] = stored[b] \ {"directory"}
<1> DEFINE inside == IF adapter[b] = "zfs" THEN {"ignored", "dataset"} ELSE {"ignored", "snapshot"}
<1>1. removal[b][t] = "rest" /\ UNCHANGED ghost
  BY DEF DeleteRest
<1>2. CASE /\ \E piece \in inside \cap stored[b] : stored' = [stored EXCEPT ![b] = stored[b] \ {piece}]
           /\ UNCHANGED removal
  <2> HIDE DEF inside
  <2>1. \E piece \in inside \cap stored[b] : stored'[b] = stored[b] \ {piece}
    BY <1>2 DEF TypeOK
  <2>2. QED
    BY <1>1, <1>2, <2>1 DEF inside
<1>3. CASE /\ inside \cap stored[b] = {}
           /\ stored' = [stored EXCEPT ![b] = stored[b] \ {"directory"}]
           /\ removal' = [removal EXCEPT ![b][t] = "none"]
  <2> HIDE DEF inside
  <2>1. stored'[b] = stored[b] \ {"directory"}
    BY <1>3 DEF TypeOK
  <2>2. /\ removal'[b][t] = "none"
        /\ \A s \in {"route", "create"} : s # t => removal'[b][s] = removal[b][s]
    BY <1>3 DEF TypeOK
  <2>3. QED
    BY <1>1, <1>3, <2>1, <2>2 DEF inside
<1>4. QED
  BY <1>2, <1>3 DEF DeleteRest

LEMMA FailEffect ==
  ASSUME TypeOK, NEW b \in Backup, NEW t \in {"route", "create"}, DeleteFails(b, t)
  PROVE  /\ removal'[b][t] = "none"
         /\ \A s \in {"route", "create"} : s # t => removal'[b][s] = removal[b][s]
         /\ UNCHANGED stored
         /\ ghost'[b].erased /\ ghost'[b].kept
<1>1. /\ removal'[b][t] = "none"
      /\ \A s \in {"route", "create"} : s # t => removal'[b][s] = removal[b][s]
  <2>1. removal' = [removal EXCEPT ![b][t] = "none"]
    BY DEF DeleteFails
  <2>2. QED
    BY <2>1 DEF TypeOK
<1>2. ghost'[b].erased /\ ghost'[b].kept
  <2> DEFINE g == [ghost EXCEPT ![b].kept = TRUE]
  <2>1. g \in [Backup -> Ghost] /\ g[b].kept
    BY DEF TypeOK, Ghost
  <2>2. ghost' = [g EXCEPT ![b].erased = TRUE]
    BY DEF DeleteFails
  <2> HIDE DEF g
  <2>3. QED
    BY <2>1, <2>2 DEF Ghost
<1>3. QED
  BY <1>1, <1>2 DEF DeleteFails, stores

LEMMA RequestEffect ==
  ASSUME TypeOK, NEW b \in Backup, DeleteRequest(b)
  PROVE  /\ removal[b]["route"] = "none" /\ removal'[b]["route"] = "delete"
         /\ removal'[b]["create"] = removal[b]["create"]
         /\ UNCHANGED <<stored, ghost>>
  BY DEF DeleteRequest, stores, TypeOK

LEMMA DeleteShrinks ==
  ASSUME TypeOK, NEW b \in Backup, Deletes(b)
  PROVE  stored'[b] \subseteq stored[b]
<1>1. ASSUME NEW t \in {"route", "create"}, DeleteBegins(b, t)
      PROVE  stored'[b] \subseteq stored[b]
  <2>1. Destroyed(b) \subseteq stored[b]
    BY BackupAssumption DEF TypeOK, Destroyed, WingsUnlinked, DdupUnlinked, S3Unlinked,
       BtrfsDestroyed, ZfsDestroyed
  <2>2. QED
    BY <1>1, <2>1, BeginEffect
<1>2. ASSUME NEW t \in {"route", "create"}, DeleteRest(b, t)
      PROVE  stored'[b] \subseteq stored[b]
  BY <1>2, RestEffect
<1>3. QED
  BY <1>1, <1>2, FailEffect, RequestEffect DEF Deletes, DeleteSteps

LEMMA KindsKept ==
  ASSUME TypeOK, NEW b \in Backup, Faithful(b), Step(b)
  PROVE  Kinds(b)'
<1>1. Kinds(b)
  BY DEF Faithful
<1>2. CASE stored'[b] \subseteq stored[b] /\ UNCHANGED adapter
  BY <1>1, <1>2 DEF Kinds, Tarball
<1>3. CASE Walks(b) \/ Uploads(b) \/ Reports(b) \/ Reads(b)
  BY <1>2, <1>3, WalkFrame, UploadFrame, ReportFrame, ReadFrame
<1>4. CASE DropArchive(b) \/ Cleanup(b)
  BY <1>2, <1>4 DEF DropArchive, Cleanup, Aside, stores, TypeOK
<1>5. CASE Lay(b)
  <2>1. UNCHANGED adapter
    BY <1>5, LayFrame
  <2>2. laid[b] \in 0..4 /\ laid[b] < Len(Pieces[adapter[b]])
    <3>1. laid[b] \in 0..4
      BY DEF TypeOK
    <3>2. QED
      BY <1>5, <3>1, LayEffect
  <2> DEFINE piece == Pieces[adapter[b]][laid[b] + 1]
  <2>3. /\ adapter[b] \in {"tar", "zip", "s3", "ddup"} => piece \in {"archive", "content"}
        /\ adapter[b] = "btrfs" => piece \in {"directory", "snapshot", "ignored"}
        /\ adapter[b] = "zfs" => piece \in {"directory", "snapshot", "ignored", "dataset"}
    BY <2>2, PieceFacts
  <2>4. /\ ghost'[b].torn => Tarball(b) /\ piece = "content"
        /\ stored'[b] = IF piece = "content" /\ "archive" \notin stored[b] THEN stored[b]
                        ELSE stored[b] \union {IF ghost'[b].torn THEN "fragment" ELSE piece}
    BY <1>5, LayEffect
  <2> HIDE DEF piece
  <2>5. QED
    BY <1>1, <2>1, <2>3, <2>4 DEF Kinds, Tarball
<1>6. CASE Deletes(b)
  <2>1. UNCHANGED adapter
    BY <1>6, DeleteFrame
  <2>2. stored'[b] \subseteq stored[b]
    BY <1>6, DeleteShrinks
  <2>3. QED
    BY <1>2, <2>1, <2>2
<1>7. QED
  BY <1>3, <1>4, <1>5, <1>6 DEF Step

LEMMA IntactKept ==
  ASSUME TypeOK, NEW b \in Backup, Faithful(b), Step(b)
  PROVE  Intact(b)'
<1>1. Intact(b) /\ Stage(b) /\ Deleting(b)
  BY DEF Faithful
<1>2. CASE UNCHANGED <<adapter, laid, stored>> /\ SameErased(b)
  BY <1>1, <1>2 DEF Intact, Laid, SameErased
<1>3. CASE Walks(b) \/ Uploads(b) \/ Reports(b) \/ Reads(b)
  BY <1>2, <1>3, WalkFrame, UploadFrame, ReportFrame, ReadFrame DEF SameErased
<1>4. CASE Cleanup(b)
  BY <1>2, <1>4 DEF Cleanup, stores, SameErased
<1>5. CASE DropArchive(b)
  <2>1. adapter'[b] = "s3"
    BY <1>1, <1>5 DEF DropArchive, Aside, Stage
  <2>2. QED
    BY <2>1 DEF Intact
<1>6. CASE Lay(b)
  <2> SUFFICES ASSUME ~ghost'[b].erased, adapter'[b] # "s3"
               PROVE  \/ stored'[b] = Laid(b)'
                      \/ /\ adapter'[b] = "tar" /\ laid'[b] = 2
                         /\ stored'[b] = {"archive", "fragment"}
    BY DEF Intact
  <2> DEFINE piece == Pieces[adapter[b]][laid[b] + 1]
  <2>1. UNCHANGED adapter /\ ~ghost[b].erased /\ adapter[b] # "s3"
    BY <1>6, LayFrame DEF SameErased
  <2>2. laid[b] \in 0..4 /\ laid[b] < Len(Pieces[adapter[b]]) /\ laid'[b] = laid[b] + 1
    <3>1. laid[b] \in 0..4
      BY DEF TypeOK
    <3>2. QED
      BY <1>6, <3>1, LayEffect
  <2>3. stored[b] = Laid(b)
    <3>1. Tarball(b) => laid[b] # 2
      BY <2>2, PieceFacts DEF Tarball
    <3>2. QED
      BY <1>1, <2>1, <3>1 DEF Intact, Tarball
  <2>4. Laid(b)' = Laid(b) \union {piece}
    <3>1. 1..laid'[b] = (1..laid[b]) \union {laid[b] + 1}
      BY <2>2
    <3>2. Laid(b)' = {Pieces[adapter[b]][i] : i \in 1..laid'[b]}
      BY <2>1 DEF Laid
    <3>3. QED
      BY <3>1, <3>2 DEF Laid
  <2>5. piece = "content" => adapter[b] \in {"tar", "zip", "ddup"} /\ laid[b] = 1 /\ Laid(b) = {"archive"}
    <3>1. ASSUME piece = "content"
          PROVE  adapter[b] \in {"tar", "zip", "s3", "ddup"} /\ laid[b] = 1 /\ Pieces[adapter[b]][1] = "archive"
      BY <2>2, <3>1, PieceFacts
    <3>2. ASSUME piece = "content"
          PROVE  Laid(b) = {"archive"}
      <4>1. 1..laid[b] = {1}
        BY <3>1, <3>2
      <4>2. QED
        BY <3>1, <3>2, <4>1 DEF Laid
    <3>3. QED
      BY <2>1, <3>1, <3>2
  <2>6. /\ ghost'[b].torn => Tarball(b) /\ piece = "content"
        /\ stored'[b] = IF piece = "content" /\ "archive" \notin stored[b] THEN stored[b]
                        ELSE stored[b] \union {IF ghost'[b].torn THEN "fragment" ELSE piece}
    BY <1>6, LayEffect
  <2> HIDE DEF piece
  <2>7. stored'[b] = stored[b] \union {IF ghost'[b].torn THEN "fragment" ELSE piece}
    BY <2>3, <2>5, <2>6
  <2>8. CASE ghost'[b].torn
    <3>1. adapter[b] = "tar" /\ laid[b] = 1 /\ stored[b] = {"archive"}
      BY <2>1, <2>3, <2>5, <2>6, <2>8 DEF Tarball
    <3>2. QED
      BY <2>1, <2>2, <2>7, <2>8, <3>1
  <2>9. CASE ~ghost'[b].torn
    BY <2>3, <2>4, <2>7, <2>9
  <2>10. QED
    BY <2>8, <2>9
<1>7. CASE Deletes(b)
  <2>1. CASE DeleteRequest(b)
    BY <1>2, <1>7, <2>1, RequestEffect, DeleteFrame DEF SameErased
  <2>2. ASSUME NEW t \in {"route", "create"}, DeleteSteps(b, t)
        PROVE  ghost'[b].erased
    BY <1>1, <2>2, BeginEffect, RestEffect, FailEffect DEF DeleteSteps, Deleting
  <2>3. QED
    BY <1>7, <2>1, <2>2 DEF Deletes, Intact
<1>8. QED
  BY <1>3, <1>4, <1>5, <1>6, <1>7 DEF Step

LEMMA TornKept ==
  ASSUME TypeOK, NEW b \in Backup, Faithful(b), Step(b)
  PROVE  Torn(b)'
<1>1. Torn(b) /\ Stage(b)
  BY DEF Faithful
<1>2. CASE UNCHANGED <<adapter, laid>> /\ SameTorn(b) /\ stored'[b] \subseteq stored[b]
  BY <1>1, <1>2 DEF Torn, Tarball, SameTorn
<1>3. CASE Walks(b) \/ Uploads(b) \/ Reports(b) \/ Reads(b)
  BY <1>2, <1>3, WalkFrame, UploadFrame, ReportFrame, ReadFrame DEF SameTorn
<1>4. CASE DropArchive(b) \/ Cleanup(b)
  BY <1>2, <1>4 DEF DropArchive, Cleanup, Aside, stores, SameTorn, TypeOK
<1>5. CASE Lay(b)
  <2> DEFINE piece == Pieces[adapter[b]][laid[b] + 1]
  <2>1. UNCHANGED adapter
    BY <1>5, LayFrame
  <2>2. laid[b] \in 0..4 /\ laid[b] < Len(Pieces[adapter[b]]) /\ laid'[b] = laid[b] + 1
    <3>1. laid[b] \in 0..4
      BY DEF TypeOK
    <3>2. QED
      BY <1>5, <3>1, LayEffect
  <2>3. piece # "fragment" /\ (piece = "content" => laid[b] = 1)
    BY <2>2, PieceFacts
  <2>4. ~ghost[b].torn /\ "fragment" \notin stored[b]
    <3>1. Tarball(b) => laid[b] # 2
      BY <2>2, PieceFacts DEF Tarball
    <3>2. QED
      BY <1>1, <3>1 DEF Torn
  <2>5. /\ ghost'[b].torn => Tarball(b) /\ piece = "content"
        /\ stored'[b] = IF piece = "content" /\ "archive" \notin stored[b] THEN stored[b]
                        ELSE stored[b] \union {IF ghost'[b].torn THEN "fragment" ELSE piece}
    BY <1>5, LayEffect
  <2> HIDE DEF piece
  <2>6. QED
    BY <2>1, <2>2, <2>3, <2>4, <2>5 DEF Torn, Tarball
<1>6. CASE Deletes(b)
  <2>1. UNCHANGED <<adapter, laid>> /\ SameTorn(b)
    BY <1>6, DeleteFrame
  <2>2. stored'[b] \subseteq stored[b]
    BY <1>6, DeleteShrinks
  <2>3. QED
    BY <1>2, <2>1, <2>2
<1>7. QED
  BY <1>3, <1>4, <1>5, <1>6 DEF Step

LEMMA NestedKept ==
  ASSUME TypeOK, NEW b \in Backup, Faithful(b), Step(b)
  PROVE  Nested(b)'
<1>1. Nested(b) /\ Stage(b)
  BY DEF Faithful
<1>2. CASE UNCHANGED <<adapter, laid, stored>>
  BY <1>1, <1>2 DEF Nested
<1>3. CASE Walks(b) \/ Uploads(b) \/ Reports(b) \/ Reads(b) \/ Cleanup(b)
  BY <1>2, <1>3, WalkFrame, UploadFrame, ReportFrame, ReadFrame DEF Cleanup, stores
<1>4. CASE DropArchive(b)
  <2>1. adapter'[b] = "s3"
    BY <1>1, <1>4 DEF DropArchive, Aside, Stage
  <2>2. QED
    BY <2>1 DEF Nested
<1>5. CASE Lay(b)
  <2> DEFINE piece == Pieces[adapter[b]][laid[b] + 1]
  <2>1. UNCHANGED adapter
    BY <1>5, LayFrame
  <2>2. laid[b] \in 0..4 /\ laid[b] < Len(Pieces[adapter[b]]) /\ laid'[b] = laid[b] + 1
    <3>1. laid[b] \in 0..4
      BY DEF TypeOK
    <3>2. QED
      BY <1>5, <3>1, LayEffect
  <2>3. Snapshots(b) => /\ piece # "content" /\ (piece = "directory" \/ laid[b] > 0)
                        /\ piece = "ignored" => laid[b] = 2
    BY <2>2, PieceFacts DEF Snapshots
  <2>4. /\ ghost'[b].torn => Tarball(b) /\ piece = "content"
        /\ stored'[b] = IF piece = "content" /\ "archive" \notin stored[b] THEN stored[b]
                        ELSE stored[b] \union {IF ghost'[b].torn THEN "fragment" ELSE piece}
        /\ Snapshots(b) /\ laid[b] > 0 => "directory" \in stored[b]
    BY <1>5, LayEffect
  <2> HIDE DEF piece
  <2>5. Snapshots(b) => "directory" \in stored'[b]
    BY <2>3, <2>4
  <2>6. adapter[b] = "btrfs" /\ "ignored" \in stored'[b] => laid'[b] >= 2
    <3>1. ASSUME adapter[b] = "btrfs", "ignored" \in stored'[b], "ignored" \notin stored[b]
          PROVE  piece = "ignored"
      BY <2>4, <3>1
    <3>2. QED
      BY <1>1, <2>2, <2>3, <3>1 DEF Nested, Snapshots
  <2>7. QED
    BY <2>1, <2>5, <2>6 DEF Nested, Snapshots
<1>6. CASE Deletes(b)
  <2>1. UNCHANGED <<adapter, laid>>
    BY <1>6, DeleteFrame
  <2>2. ASSUME NEW t \in {"route", "create"}, DeleteBegins(b, t)
        PROVE  Nested(b)'
    <3>1. stored'[b] = IF Snapshots(b) /\ ~HasRest(b) THEN stored[b] ELSE Destroyed(b)
      BY <2>2, BeginEffect
    <3>2. /\ adapter[b] = "btrfs" => stored'[b] = stored[b]
          /\ adapter[b] = "zfs" => stored'[b] = stored[b] \/ stored'[b] = stored[b] \ {"snapshot"}
      BY <3>1 DEF Destroyed, BtrfsDestroyed, ZfsDestroyed
    <3>3. QED
      BY <1>1, <2>1, <3>2 DEF Nested
  <2>3. ASSUME NEW t \in {"route", "create"}, DeleteRest(b, t)
        PROVE  Nested(b)'
    BY <1>1, <2>1, <2>3, RestEffect DEF Nested
  <2>4. QED
    BY <1>2, <1>6, <2>1, <2>2, <2>3, FailEffect, RequestEffect DEF Deletes, DeleteSteps
<1>7. QED
  BY <1>3, <1>4, <1>5, <1>6 DEF Step

LEMMA OverStays ==
  ASSUME TypeOK, NEW b \in Backup, Step(b), create[b] = "over"
  PROVE  create'[b] = "over"
<1>1. ~Lay(b) /\ ~DropArchive(b) /\ ~Cleanup(b) /\ ~Reports(b) /\ ~Uploads(b) /\ ~Walks(b)
  BY DEF Lay, DropArchive, Cleanup, Reports, ReportGood, ReportBad,
         Uploads, Urls, Attempt, Accepted, Refused, LateRead,
         Walks, Request, Unbuilt, Hash, CreateFails, GiveUp, Unanswered, Uploaded, Record
<1>2. QED
  BY <1>1, DeleteFrame, ReadFrame DEF Step

LEMMA DeletingKept ==
  ASSUME TypeOK, NEW b \in Backup, Faithful(b), Step(b)
  PROVE  Deleting(b)'
<1>0. create'[b] # "over" => create[b] # "over"
  BY OverStays
<1>1. Deleting(b) /\ Stage(b)
  BY DEF Faithful
<1>2. CASE UNCHANGED <<adapter, laid, stored, removal>> /\ SameErased(b) /\ SameKept(b)
  BY <1>0, <1>1, <1>2 DEF Deleting, Snapshots, SameErased, SameKept
<1>3. CASE Walks(b) \/ Uploads(b) \/ Reports(b) \/ Reads(b)
  BY <1>2, <1>3, WalkFrame, UploadFrame, ReportFrame, ReadFrame DEF SameErased, SameKept
<1>4. CASE DropArchive(b)
  <2>1. adapter'[b] = "s3" /\ UNCHANGED <<adapter, removal, ghost>>
    BY <1>1, <1>4 DEF DropArchive, Aside, Stage
  <2>2. QED
    BY <1>0, <1>1, <2>1 DEF Deleting, Snapshots
<1>5. CASE Lay(b)
  <2> DEFINE piece == Pieces[adapter[b]][laid[b] + 1]
  <2>1. UNCHANGED <<adapter, removal>> /\ SameErased(b) /\ SameKept(b)
    BY <1>5, LayFrame
  <2>2. laid[b] \in 0..4 /\ laid[b] < Len(Pieces[adapter[b]]) /\ laid'[b] = laid[b] + 1
    <3>1. laid[b] \in 0..4
      BY DEF TypeOK
    <3>2. QED
      BY <1>5, <3>1, LayEffect
  <2>3. adapter[b] = "btrfs" => /\ piece # "content"
                                /\ laid[b] = 1 => piece = "snapshot"
    BY <2>2, PieceFacts
  <2>4. /\ ghost'[b].torn => Tarball(b) /\ piece = "content"
        /\ stored'[b] = IF piece = "content" /\ "archive" \notin stored[b] THEN stored[b]
                        ELSE stored[b] \union {IF ghost'[b].torn THEN "fragment" ELSE piece}
        /\ Snapshots(b) /\ laid[b] > 0 => "directory" \in stored[b]
    BY <1>5, LayEffect
  <2> HIDE DEF piece
  <2>5. ASSUME adapter[b] = "btrfs", ~ghost[b].kept, laid[b] >= 1,
               \A t \in {"route", "create"} : removal[b][t] # "rest"
        PROVE  "snapshot" \in stored'[b]
    <3>1. "directory" \in stored[b] /\ ~ghost'[b].torn /\ stored'[b] = stored[b] \union {piece}
      BY <2>2, <2>3, <2>4, <2>5 DEF Snapshots, Tarball
    <3>2. CASE laid[b] = 1
      BY <2>3, <2>5, <3>1, <3>2
    <3>3. CASE laid[b] >= 2
      BY <1>1, <2>5, <3>1, <3>3 DEF Deleting
    <3>4. QED
      BY <2>2, <2>5, <3>2, <3>3
  <2>6. laid'[b] >= 2 => laid[b] >= 1
    BY <2>2
  <2>7. QED
    BY <1>0, <1>1, <2>1, <2>5, <2>6 DEF Deleting, Snapshots, SameErased, SameKept
<1>6. CASE Cleanup(b)
  <2>1. UNCHANGED <<adapter, laid, stored, ghost>>
    BY <1>6 DEF Cleanup, stores
  <2>2. removal'[b]["create"] = "delete" /\ removal'[b]["route"] = removal[b]["route"]
    BY <1>6 DEF Cleanup, TypeOK
  <2>3. removal[b]["create"] = "none" /\ create'[b] = "over"
    BY <1>1, <1>6 DEF Cleanup, Goto, TypeOK, Deleting
  <2>4. QED
    BY <1>1, <2>1, <2>2, <2>3 DEF Deleting, Snapshots
<1>7. CASE Deletes(b)
  <2>1. UNCHANGED <<create, adapter, laid>> /\ (ghost[b].erased => ghost'[b].erased)
        /\ (ghost[b].kept => ghost'[b].kept)
    BY <1>7, DeleteFrame
  <2>2. CASE DeleteRequest(b)
    BY <1>1, <2>1, <2>2, RequestEffect DEF Deleting, Snapshots
  <2>3. ASSUME NEW t \in {"route", "create"}, DeleteBegins(b, t)
        PROVE  Deleting(b)'
    <3>1. /\ removal[b][t] = "delete"
          /\ removal'[b][t] = IF HasRest(b) THEN "rest" ELSE "none"
          /\ \A s \in {"route", "create"} : s # t => removal'[b][s] = removal[b][s]
          /\ stored'[b] = IF Snapshots(b) /\ ~HasRest(b) THEN stored[b] ELSE Destroyed(b)
          /\ ghost'[b].erased /\ SameKept(b)
      BY <2>3, BeginEffect
    <3>2. adapter[b] = "btrfs" => stored'[b] = stored[b]
      BY <3>1 DEF Destroyed, BtrfsDestroyed
    <3>3. HasRest(b) => Snapshots(b)
      BY DEF HasRest, Snapshots
    <3>4. QED
      BY <1>1, <2>1, <3>1, <3>2, <3>3 DEF Deleting, Snapshots, SameKept
  <2>4. ASSUME NEW t \in {"route", "create"}, DeleteRest(b, t)
        PROVE  Deleting(b)'
    <3>1. /\ ghost[b].erased /\ UNCHANGED ghost
          /\ \A s \in {"route", "create"} : s # t => removal'[b][s] = removal[b][s]
          /\ removal[b][t] = "rest"
      BY <1>1, <2>4, RestEffect DEF Deleting
    <3>2. CASE removal'[b][t] = "rest"
      BY <1>1, <2>1, <3>1, <3>2 DEF Deleting, Snapshots
    <3>3. CASE removal'[b][t] = "none"
      <4>1. stored'[b] = stored[b] \ {"directory"}
        BY <2>4, <3>3, RestEffect
      <4>2. QED
        BY <1>1, <2>1, <3>1, <3>3, <4>1 DEF Deleting, Snapshots
    <3>4. QED
      BY <2>4, <3>2, <3>3, RestEffect
  <2>5. ASSUME NEW t \in {"route", "create"}, DeleteFails(b, t)
        PROVE  Deleting(b)'
    BY <1>1, <2>1, <2>5, FailEffect DEF Deleting, Snapshots
  <2>6. QED
    BY <1>7, <2>2, <2>3, <2>4, <2>5 DEF Deletes, DeleteSteps
<1>8. QED
  BY <1>3, <1>4, <1>5, <1>6, <1>7 DEF Step

LEMMA ClearedKept ==
  ASSUME TypeOK, NEW b \in Backup, Faithful(b), Step(b)
  PROVE  Cleared(b)'
<1>1. Cleared(b) /\ Stage(b) /\ Deleting(b)
  BY DEF Faithful
<1>2. create \in [Backup -> PC]
  BY DEF TypeOK, PC
<1>3. CASE Walks(b)
  <2>1. UNCHANGED panel
    BY <1>3, WalkFrame
  <2>2. CASE Unbuilt(b) \/ Record(b)
    <3>1. panel[b] # "unsuccessful"
      BY <1>1, <2>2 DEF Unbuilt, Record, Stage
    <3>2. QED
      BY <2>1, <3>1 DEF Cleared, Cleaned
  <2>3. CASE Request(b) \/ Hash(b) \/ CreateFails(b) \/ GiveUp(b) \/ Unanswered(b) \/ Uploaded(b)
    <3>1. create'[b] # "over"
      BY <1>2, <2>3 DEF Request, Hash, CreateFails, GiveUp, Unanswered, Uploaded, Goto
    <3>2. QED
      BY <3>1 DEF Cleared, Cleaned
  <2>4. QED
    BY <1>3, <2>2, <2>3 DEF Walks
<1>4. CASE Uploads(b) \/ Lay(b) \/ DropArchive(b)
  <2>1. create'[b] # "over"
    BY <1>2, <1>4 DEF Uploads, Urls, Attempt, Accepted, Refused, LateRead, Lay, DropArchive, Goto
  <2>2. QED
    BY <2>1 DEF Cleared, Cleaned
<1>5. CASE Reports(b)
  <2>1. PICK heard \in BOOLEAN :
          /\ ghost' = [ghost EXCEPT ![b].heard = heard]
          /\ heard => create'[b] \in {"record", "cleanup"}
    BY <1>2, <1>5 DEF Reports, ReportGood, ReportBad, Report, Goto
  <2>2. ghost'[b].heard => create'[b] # "over"
    <3>1. ghost' = [ghost EXCEPT ![b].heard = heard]
      BY <2>1
    <3>2. ghost'[b].heard <=> heard
      BY <3>1 DEF TypeOK, Ghost
    <3>3. QED
      BY <2>1, <3>2
  <2>3. QED
    BY <2>2 DEF Cleared, Cleaned
<1>6. CASE Cleanup(b)
  <2>1. removal'[b]["create"] = "delete"
    BY <1>6 DEF Cleanup, TypeOK
  <2>2. QED
    BY <2>1 DEF Cleared, Cleaned
<1>7. CASE Reads(b)
  BY <1>1, <1>7, ReadFrame DEF Cleared, Cleaned, Snapshots, SameHeard, SameKept
<1>8. CASE Deletes(b)
  <2>1. /\ UNCHANGED <<create, adapter, panel>> /\ SameHeard(b)
        /\ ghost[b].kept => ghost'[b].kept
        /\ stored'[b] \subseteq stored[b]
    BY <1>8, DeleteFrame, DeleteShrinks
  <2>2. CASE removal'[b]["create"] = removal[b]["create"]
    BY <1>1, <2>1, <2>2 DEF Cleared, Cleaned, Snapshots, SameHeard
  <2>3. CASE DeleteBegins(b, "create")
    <3>1. /\ removal'[b]["create"] = IF HasRest(b) THEN "rest" ELSE "none"
          /\ stored'[b] = IF Snapshots(b) /\ ~HasRest(b) THEN stored[b] ELSE Destroyed(b)
      BY <2>3, BeginEffect
    <3>2. ~Snapshots(b) => Destroyed(b) = {}
      BY BackupAssumption DEF TypeOK, Snapshots, Destroyed, WingsUnlinked, DdupUnlinked, S3Unlinked
    <3>3. /\ adapter[b] = "btrfs" => (HasRest(b) <=> "snapshot" \in stored[b])
          /\ adapter[b] = "zfs" => (HasRest(b) <=> "directory" \in stored[b])
      BY DEF HasRest
    <3>4. QED
      BY <2>1, <3>1, <3>2, <3>3 DEF Cleared, Cleaned, Snapshots
  <2>4. CASE DeleteRest(b, "create")
    <3>1. Snapshots(b)
      BY <1>1, <2>4, RestEffect DEF Deleting
    <3>2. removal'[b]["create"] = "none" =>
            /\ adapter[b] = "btrfs" => "snapshot" \notin stored'[b]
            /\ adapter[b] = "zfs" => "directory" \notin stored'[b]
      BY <2>4, RestEffect
    <3>3. QED
      BY <2>1, <3>1, <3>2 DEF Cleared, Cleaned, Snapshots
  <2>5. CASE DeleteFails(b, "create")
    BY <2>5, FailEffect DEF Cleared, Cleaned
  <2>6. CASE DeleteRequest(b) \/ DeleteSteps(b, "route")
    BY <2>2, <2>6, RequestEffect, BeginEffect, RestEffect, FailEffect DEF DeleteSteps
  <2>7. QED
    BY <1>8, <2>3, <2>4, <2>5, <2>6 DEF Deletes, DeleteSteps
<1>9. QED
  BY <1>3, <1>4, <1>5, <1>6, <1>7, <1>8 DEF Step

\* What a backup that is not being deleted, and its tarball, keep.
LEMMA Grows ==
  ASSUME TypeOK, NEW b \in Backup, Faithful(b), Step(b)
  PROVE  /\ UNCHANGED adapter
         /\ ghost[b].torn => ghost'[b].torn
         /\ ghost[b].spoiled => ghost'[b].spoiled
         /\ ghost[b].erased => ghost'[b].erased
         /\ laid[b] >= 3 => laid'[b] >= 3
         /\ ~ghost'[b].erased /\ adapter[b] # "s3" => stored[b] \subseteq stored'[b]
<1> USE DEF SameTorn, SameSpoiled, SameErased
<1>1. CASE Walks(b) \/ Uploads(b) \/ Reports(b) \/ Reads(b)
  BY <1>1, WalkFrame, UploadFrame, ReportFrame, ReadFrame
<1>2. CASE Cleanup(b)
  BY <1>2 DEF Cleanup, stores
<1>3. CASE DropArchive(b)
  BY <1>3 DEF DropArchive, Aside, Faithful, Stage
<1>4. CASE Lay(b)
  <2>1. laid[b] \in 0..4 /\ laid[b] < Len(Pieces[adapter[b]]) /\ laid'[b] = laid[b] + 1
    <3>1. laid[b] \in 0..4
      BY DEF TypeOK
    <3>2. QED
      BY <1>4, <3>1, LayEffect
  <2>2. ~ghost[b].torn
    <3>1. Tarball(b) => laid[b] # 2
      BY <2>1, PieceFacts DEF Tarball
    <3>2. QED
      BY <3>1 DEF Faithful, Torn
  <2> DEFINE piece == Pieces[adapter[b]][laid[b] + 1]
  <2>3. stored'[b] = IF piece = "content" /\ "archive" \notin stored[b] THEN stored[b]
                     ELSE stored[b] \union {IF ghost'[b].torn THEN "fragment" ELSE piece}
    BY <1>4, LayEffect
  <2> HIDE DEF piece
  <2>4. stored[b] \subseteq stored'[b]
    BY <2>3
  <2>5. QED
    BY <1>4, <2>1, <2>2, <2>4, LayFrame
<1>5. CASE Deletes(b)
  <2>1. ~ghost'[b].erased => UNCHANGED stored
    BY <1>5, RequestEffect, BeginEffect, RestEffect, FailEffect
       DEF Deletes, DeleteSteps, Faithful, Deleting
  <2>2. QED
    BY <1>5, <2>1, DeleteFrame
<1>6. QED
  BY <1>1, <1>2, <1>3, <1>4, <1>5 DEF Step

\* What becomes of a reader.
LEMMA GoesTo ==
  ASSUME TypeOK, NEW b \in Backup, NEW k \in {"restore", "download"}, NEW pc, NEW got,
         Goes(b, k, pc, got)
  PROVE  /\ reader'[b][k].pc = pc /\ reader'[b][k].got = got
         /\ \A j \in {"restore", "download"} : j # k => reader'[b][j] = reader[b][j]
<1>1. reader'[b] = [reader[b] EXCEPT ![k] = [pc |-> pc, got |-> got]]
  BY DEF Goes, TypeOK
<1>2. DOMAIN reader[b] = {"restore", "download"}
  BY DEF TypeOK
<1>3. QED
  BY <1>1, <1>2

\* A snapshot with its list is complete.
LEMMA SnapshotComplete ==
  ASSUME TypeOK, NEW b \in Backup, Faithful(b), Snapshots(b), ~ghost[b].erased
  PROVE  /\ "ignored" \in stored[b] => laid[b] >= 3
         /\ laid[b] >= 3 => Complete(b)
<1> DEFINE P == Pieces[adapter[b]]
<1>1. /\ P[1] = "directory" /\ P[2] = "snapshot" /\ P[3] = "ignored"
      /\ ToSet(P) \ {"dataset"} = {"directory", "snapshot", "ignored"}
  BY PieceFacts DEF Snapshots
<1>2. stored[b] = {P[i] : i \in 1..laid[b]}
  BY DEF Faithful, Intact, Snapshots, Laid
<1>3. laid[b] \in 0..4
  BY DEF TypeOK
<1> HIDE DEF P
<1>4. ASSUME "ignored" \in stored[b]
      PROVE  laid[b] >= 3
  <2>1. PICK i \in 1..laid[b] : P[i] = "ignored"
    BY <1>2, <1>4
  <2>2. i # 1 /\ i # 2
    BY <1>1, <2>1
  <2>3. QED
    BY <1>3, <2>1, <2>2
<1>5. ASSUME laid[b] >= 3
      PROVE  Complete(b)
  <2>1. 1 \in 1..laid[b] /\ 2 \in 1..laid[b] /\ 3 \in 1..laid[b]
    BY <1>3, <1>5
  <2>2. {"directory", "snapshot", "ignored"} \subseteq stored[b]
    BY <1>1, <1>2, <2>1
  <2>3. QED
    BY <1>1, <2>2 DEF Complete, P
<1>6. QED
  BY <1>4, <1>5

LEMMA RestoredKept ==
  ASSUME TypeOK, NEW b \in Backup, Faithful(b), Step(b)
  PROVE  Restored(b)'
<1> DEFINE r == reader[b]["restore"]
<1>1. Restored(b)
  BY DEF Faithful
<1>2. CASE reader'[b]["restore"] = r
  BY <1>1, <1>2, Grows DEF Restored, Snapshots
<1>3. CASE ~Reads(b)
  BY <1>2, <1>3, WalkFrame, UploadFrame, LayFrame, ReportFrame, DeleteFrame
     DEF Step, DropArchive, Cleanup, Aside
<1>4. CASE Reads(b)
  <2>1. UNCHANGED <<adapter, laid>> /\ SameErased(b) /\ SameSpoiled(b) /\ SameTorn(b)
    BY <1>4, ReadFrame
  <2>2. adapter[b] \in {"tar", "zip", "s3", "ddup", "btrfs", "zfs"}
    BY BackupAssumption DEF TypeOK
  <2>3. CASE DownloadRequest(b) \/ DownloadReads(b)
             \/ Open(b, "download") \/ ReadFails(b, "download") \/ ReadEnds(b, "download")
    BY <1>2, <2>3, GoesTo DEF DownloadRequest, DownloadReads, Open, ReadFails, ReadEnds
  <2>4. CASE RestoreRequest(b) \/ ReadFails(b, "restore") \/ ReadEnds(b, "restore")
    <3>1. reader'[b]["restore"].pc \in {"none", "open", "bad"}
      BY <2>4, GoesTo DEF RestoreRequest, ReadFails, ReadEnds
    <3>2. QED
      BY <3>1 DEF Restored
  <2>5. CASE Open(b, "restore")
    <3> DEFINE got == IF adapter[b] = "s3"
                      THEN IF ghost[b].spoiled \/ ghost[b].torn THEN "part" ELSE "whole"
                      ELSE IF Complete(b) THEN "whole" ELSE "part"
    <3>1. Restores(b) /\ Goes(b, "restore", "read", got)
      BY <2>5 DEF Open
    <3>2. reader'[b]["restore"].pc = "read" /\ reader'[b]["restore"].got = got
      BY <3>1, GoesTo
    <3>3. ASSUME Snapshots(b), ~ghost[b].erased
          PROVE  laid[b] >= 3 /\ got = "whole"
      <4>1. "ignored" \in stored[b]
        BY <3>1, <3>3 DEF Restores, BtrfsRestores, ZfsRestores, Snapshots
      <4>2. QED
        BY <3>3, <4>1, SnapshotComplete DEF Snapshots
    <3>4. ASSUME adapter[b] \in {"zip", "ddup"}
          PROVE  got = "whole"
      BY <3>1, <3>4 DEF Restores, WingsRestores, DdupRestores
    <3>5. adapter[b] = "s3" => got = "whole" \/ ghost[b].spoiled \/ ghost[b].torn
      OBVIOUS
    <3> HIDE DEF got
    <3>6. QED
      BY <2>1, <3>2, <3>3, <3>4, <3>5
         DEF Restored, Snapshots, SameErased, SameSpoiled, SameTorn
  <2>6. CASE RestoreReads(b)
    <3>1. CASE Snapshots(b)
      <4>1. r.pc = "read" /\ Goes(b, "restore", "good", IF Complete(b) THEN r.got ELSE "part")
        BY <2>6, <3>1 DEF RestoreReads, Snapshots
      <4>2. /\ reader'[b]["restore"].pc = "good"
            /\ reader'[b]["restore"].got = IF Complete(b) THEN r.got ELSE "part"
        BY <4>1, GoesTo
      <4>3. ~ghost[b].erased => laid[b] >= 3 /\ r.got = "whole" /\ Complete(b)
        BY <1>1, <3>1, <4>1, SnapshotComplete DEF Restored
      <4>4. QED
        BY <2>1, <3>1, <4>2, <4>3 DEF Restored, Snapshots, SameErased
    <3>2. CASE adapter[b] = "tar"
      <4>1. \/ Goes(b, "restore", "good", "whole")
            \/ "fragment" \in stored[b] /\ Goes(b, "restore", "good", "part")
        BY <2>6, <3>2 DEF RestoreReads, Snapshots
      <4>2. reader'[b]["restore"].got = "whole" \/ ghost[b].torn
        BY <4>1, GoesTo DEF Faithful, Torn
      <4>3. QED
        BY <2>1, <3>2, <4>2 DEF Restored, Snapshots, SameTorn
    <3>3. CASE adapter[b] \in {"zip", "ddup", "s3"}
      <4>1. r.pc = "read" /\ Goes(b, "restore", "good", r.got)
        BY <2>6, <3>3 DEF RestoreReads, Snapshots
      <4>2. reader'[b]["restore"].pc = "good" /\ reader'[b]["restore"].got = r.got
        BY <4>1, GoesTo
      <4>3. QED
        BY <1>1, <2>1, <3>3, <4>1, <4>2 DEF Restored, Snapshots, SameSpoiled, SameTorn
    <3>4. QED
      BY <2>2, <3>1, <3>2, <3>3 DEF Snapshots
  <2>7. QED
    BY <1>4, <2>3, <2>4, <2>5, <2>6 DEF Reads, ReadSteps
<1>5. QED
  BY <1>3, <1>4

LEMMA DownloadedKept ==
  ASSUME TypeOK, NEW b \in Backup, Faithful(b), Step(b)
  PROVE  Downloaded(b)'
<1> DEFINE r == reader[b]["download"]
<1>1. Downloaded(b)
  BY DEF Faithful
<1>2. CASE reader'[b]["download"] = r /\ SameReady(b)
  BY <1>1, <1>2, Grows DEF Downloaded, Complete, SameReady
<1>3. CASE ~Reads(b)
  BY <1>2, <1>3, WalkFrame, UploadFrame, LayFrame, ReportFrame, DeleteFrame
     DEF Step, DropArchive, Cleanup, Aside, SameReady
<1>4. CASE Reads(b)
  <2>1. UNCHANGED <<adapter, stored>> /\ SameErased(b) /\ (DownloadRequest(b) \/ UNCHANGED ghost)
    BY <1>4, ReadFrame
  <2>2. CASE DownloadRequest(b)
    <3>1. PICK ready \in BOOLEAN : (ready <=> Complete(b)) /\ ghost' = [ghost EXCEPT ![b].ready = ready]
      BY <2>2 DEF DownloadRequest, Complete
    <3>2. ghost'[b].ready => Complete(b)
      <4>1. ghost' = [ghost EXCEPT ![b].ready = ready]
        BY <3>1
      <4>2. ghost'[b].ready <=> ready
        BY <4>1 DEF TypeOK, Ghost
      <4>3. QED
        BY <3>1, <4>2
    <3>3. reader'[b]["download"].pc = "open"
      BY <2>2, GoesTo DEF DownloadRequest
    <3>4. adapter[b] # "s3"
      BY <2>2 DEF DownloadRequest, Listed
    <3>5. QED
      BY <2>1, <3>2, <3>3, <3>4 DEF Downloaded, Complete
  <2>3. CASE ~DownloadRequest(b)
    <3>1. UNCHANGED ghost
      BY <2>1, <2>3
    <3>2. CASE RestoreRequest(b) \/ RestoreReads(b)
               \/ Open(b, "restore") \/ ReadFails(b, "restore") \/ ReadEnds(b, "restore")
      <4>1. \E pc, got : Goes(b, "restore", pc, got)
        BY <3>2 DEF RestoreRequest, RestoreReads, Open, ReadFails, ReadEnds
      <4>2. reader'[b]["download"] = r
        BY <4>1, GoesTo
      <4>3. QED
        BY <1>2, <3>1, <4>2 DEF SameReady
    <3>3. CASE Open(b, "download")
      <4>1. adapter[b] # "s3" /\ r.pc = "open"
        BY <1>1, <3>3 DEF Open, Downloaded
      <4>2. Goes(b, "download", "read", IF Complete(b) THEN "whole" ELSE "part")
        BY <3>3, <4>1 DEF Open
      <4>3. /\ reader'[b]["download"].pc = "read"
            /\ reader'[b]["download"].got = IF Complete(b) THEN "whole" ELSE "part"
        BY <4>2, GoesTo
      <4>4. QED
        BY <1>1, <2>1, <3>1, <4>1, <4>3 DEF Downloaded, Complete
    <3>4. CASE DownloadReads(b)
      <4>1. /\ r.pc = "read"
            /\ \/ Goes(b, "download", "good", r.got)
               \/ ~Complete(b) /\ Goes(b, "download", "good", "part")
        BY <3>4 DEF DownloadReads
      <4>2. /\ reader'[b]["download"].pc = "good"
            /\ reader'[b]["download"].got = r.got \/ ~Complete(b)
        BY <4>1, GoesTo
      <4>3. QED
        BY <1>1, <2>1, <3>1, <4>1, <4>2 DEF Downloaded, Complete
    <3>5. CASE ReadFails(b, "download") \/ ReadEnds(b, "download")
      <4>1. reader'[b]["download"].pc \in {"none", "bad"} /\ r.pc # "none"
        BY <3>5, GoesTo DEF ReadFails, ReadEnds
      <4>2. QED
        BY <1>1, <2>1, <3>1, <4>1 DEF Downloaded, Complete
    <3>6. QED
      BY <1>4, <2>3, <3>2, <3>3, <3>4, <3>5 DEF Reads, ReadSteps
  <2>4. QED
    BY <2>2, <2>3
<1>5. QED
  BY <1>3, <1>4

(***************************************************************************)
(* The invariant                                                           *)
(***************************************************************************)

\* A step of one backup keeps the promises about that backup.
LEMMA StepKeeps ==
  ASSUME TypeOK, NEW b \in Backup, Faithful(b), Step(b)
  PROVE  Faithful(b)'
  BY StageKept, SequentialKept, KindsKept, IntactKept, TornKept, NestedKept, DeletingKept,
     ClearedKept, RestoredKept, DownloadedKept DEF Faithful

\* What happens to one backup is nothing to another.
LEMMA StaysKeeps ==
  ASSUME TypeOK, NEW c \in Backup, Faithful(c), Stays(c)
  PROVE  Faithful(c)'
<1> USE DEF Stays
<1>1. Stage(c)' /\ Kinds(c)' /\ Torn(c)' /\ Nested(c)'
  BY DEF Faithful, Stage, Kinds, Torn, Nested, Tarball
<1>2. Sequential(c)'
  BY DEF Faithful, Sequential, Sent, Exact
<1>3. Intact(c)'
  BY DEF Faithful, Intact, Laid
<1>4. Deleting(c)' /\ Cleared(c)'
  BY DEF Faithful, Deleting, Cleared, Cleaned, Snapshots
<1>5. Restored(c)' /\ Downloaded(c)'
  BY DEF Faithful, Restored, Downloaded, Snapshots, Complete
<1>6. QED
  BY <1>1, <1>2, <1>3, <1>4, <1>5 DEF Faithful

\* After a crash there are no tasks left.
LEMMA CrashKeeps ==
  ASSUME TypeOK, Crash, NEW b \in Backup, Faithful(b)
  PROVE  Faithful(b)'
<1>1. /\ UNCHANGED <<adapter, laid, stored, upload, panel>>
      /\ SameErased(b) /\ SameHeard(b) /\ SameSpoiled(b) /\ SameTorn(b) /\ SameReady(b)
      /\ ghost[b].kept \/ (\E t \in {"route", "create"} : removal[b][t] # "none") => ghost'[b].kept
      /\ create'[b] = IF create[b] \in {"none", "over"} THEN create[b] ELSE "killed"
      /\ \A t \in {"route", "create"} : removal'[b][t] = "none"
      /\ \A k \in {"restore", "download"} : reader'[b][k].pc = "none"
  BY CrashFrame DEF NoReader
<1>2. Stage(b)' /\ Sequential(b)'
  BY <1>1 DEF Faithful, Stage, Sequential, Sent, Exact, SameSpoiled
<1>3. Kinds(b)' /\ Intact(b)' /\ Torn(b)' /\ Nested(b)'
  BY <1>1 DEF Faithful, Kinds, Intact, Laid, Torn, Nested, Tarball, SameErased, SameTorn
<1>4. Deleting(b)'
  BY <1>1 DEF Faithful, Deleting
<1>5. Cleared(b)'
  BY <1>1 DEF Faithful, Cleared, Cleaned, Snapshots, SameHeard
<1>6. Restored(b)' /\ Downloaded(b)'
  BY <1>1 DEF Restored, Downloaded
<1>7. QED
  BY <1>2, <1>3, <1>4, <1>5, <1>6 DEF Faithful

\* The invariant holds before any request.
LEMMA InitInv == Init => Inv
<1> SUFFICES ASSUME Init
             PROVE  Inv
  OBVIOUS
<1>1. NoUpload \in Upload /\ Adjacent(NoUpload.parts, Size - NoUpload.remaining)
      /\ NoUpload.left = 0
  <2>1. <<>> \in Seq((0..Size) \X (0..Size))
    OBVIOUS
  <2>2. Adjacent(<<>>, 0)
    BY DEF Adjacent
  <2>3. Size - NoUpload.remaining = 0 /\ NoUpload.parts = <<>> /\ NoUpload.left = 0
    BY BackupAssumption DEF NoUpload
  <2>4. NoUpload \in Upload
    BY <2>1, BackupAssumption DEF NoUpload, Upload
  <2>5. QED
    BY <2>2, <2>3, <2>4
<1>2. TypeOK
  <2>1. ghost \in [Backup -> Ghost]
    BY DEF Init, Ghost
  <2>2. reader \in [Backup -> [{"restore", "download"} -> ReaderRecord]]
    BY DEF Init, NoReader, ReaderRecord
  <2>3. upload \in [Backup -> Upload]
    BY <1>1 DEF Init
  <2>4. QED
    BY <2>1, <2>2, <2>3, BackupAssumption DEF Init, TypeOK, ReaderRecord
<1>3. ASSUME NEW b \in Backup
      PROVE  Faithful(b)
  <2>1. /\ create[b] = "none" /\ laid[b] = 0 /\ stored[b] = {} /\ upload[b] = NoUpload
        /\ panel[b] = "waiting"
        /\ \A t \in {"route", "create"} : removal[b][t] = "none"
        /\ \A k \in {"restore", "download"} : reader[b][k].pc = "none"
        /\ ~ghost[b].torn
    BY DEF Init, NoReader
  <2>2. Stage(b)
    BY <1>2, <2>1, PieceFacts DEF Stage
  <2>3. Sequential(b)
    BY <1>1, <2>1 DEF Sequential, Sent
  <2>4. Intact(b)
    <3>1. 1..0 = {}
      OBVIOUS
    <3>2. Laid(b) = {}
      BY <2>1, <3>1 DEF Laid
    <3>3. QED
      BY <2>1, <3>2 DEF Intact
  <2>5. Kinds(b) /\ Torn(b) /\ Nested(b) /\ Deleting(b) /\ Cleared(b) /\ Restored(b) /\ Downloaded(b)
    BY <2>1 DEF Kinds, Torn, Nested, Deleting, Cleared, Cleaned, Restored, Downloaded
  <2>6. QED
    BY <2>2, <2>3, <2>4, <2>5 DEF Faithful
<1>4. QED
  BY <1>2, <1>3 DEF Inv

\* Every step of every backup, and a crash, keeps it.
LEMMA NextInv == Inv /\ [Next]_vars => Inv'
<1> SUFFICES ASSUME Inv, [Next]_vars
             PROVE  Inv'
  OBVIOUS
<1>1. TypeOK /\ \A b \in Backup : Faithful(b)
  BY DEF Inv
<1>2. CASE \E b \in Backup : Step(b)
  <2>1. PICK b \in Backup : Step(b)
    BY <1>2
  <2>2. TypeOK' /\ \A c \in Backup : c # b => Stays(c)
    BY <1>1, <2>1, StepTypes
  <2>3. Faithful(b)'
    BY <1>1, <2>1, StepKeeps
  <2>4. \A c \in Backup : c # b => Faithful(c)'
    BY <1>1, <2>2, StaysKeeps
  <2>5. QED
    BY <2>2, <2>3, <2>4 DEF Inv
<1>3. CASE Crash
  BY <1>1, <1>3, CrashTypes, CrashKeeps DEF Inv
<1>4. CASE UNCHANGED vars
  <2>1. TypeOK'
    BY <1>1, <1>4 DEF vars, stores, TypeOK
  <2>2. \A c \in Backup : Stays(c)
    BY <1>4 DEF vars, stores, Stays
  <2>3. QED
    BY <1>1, <2>1, <2>2, StaysKeeps DEF Inv
<1>5. QED
  BY <1>2, <1>3, <1>4, Steps

\* Nothing the node does with its backups leads out of the invariant, crashes included.
THEOREM Invariance == Spec => []Inv
  BY InitInv, NextInv, PTL DEF Spec

\* What the panel was told of a backup is so: one that succeeded is all there until it is
\* deleted, in S3 byte by byte over any number of retries, and one that failed leaves
\* nothing behind once its deletion went through.
THEOREM ReportsAreTrue == Spec => []ReportsHold
<1>1. Inv => SuccessIsWhole
  <2> SUFFICES ASSUME Inv, NEW b \in Backup, panel[b] = "successful", ~ghost[b].erased
               PROVE  IF adapter[b] = "s3" THEN stored[b] = {} /\ (ghost[b].spoiled \/ Exact(b))
                      ELSE \/ stored[b] = ToSet(Pieces[adapter[b]])
                           \/ adapter[b] = "tar" /\ stored[b] = {"archive", "fragment"}
    BY DEF SuccessIsWhole
  <2>1. Stage(b) /\ Sequential(b) /\ Intact(b)
    BY DEF Inv, Faithful
  <2>2. CASE adapter[b] = "s3"
    BY <2>1, <2>2 DEF Sequential, Sent
  <2>3. CASE adapter[b] # "s3"
    <3>1. laid[b] = Len(Pieces[adapter[b]])
      BY <2>1 DEF Stage
    <3>2. Laid(b) = ToSet(Pieces[adapter[b]])
      <4> DEFINE P == Pieces[adapter[b]]
      <4>1. DOMAIN P = 1..Len(P)
        <5>1. TypeOK
          BY DEF Inv
        <5>2. adapter[b] \in {"tar", "zip", "s3", "ddup", "btrfs", "zfs"}
          BY <5>1, BackupAssumption DEF TypeOK
        <5>3. P \in {<<"archive", "content">>, <<"directory", "snapshot", "ignored">>,
                     <<"directory", "snapshot", "ignored", "dataset">>}
          BY <5>2 DEF Pieces, TarPieces, ZipPieces, S3Pieces, DdupPieces, BtrfsPieces, ZfsPieces
        <5> HIDE DEF P
        <5>4. CASE P = <<"archive", "content">>
          BY <5>4
        <5>5. CASE P = <<"directory", "snapshot", "ignored">>
          BY <5>5
        <5>6. CASE P = <<"directory", "snapshot", "ignored", "dataset">>
          BY <5>6
        <5>7. QED
          BY <5>3, <5>4, <5>5, <5>6
      <4>2. QED
        BY <3>1, <4>1 DEF Laid, ToSet
    <3>3. QED
      BY <2>1, <2>3, <3>2 DEF Intact
  <2>4. QED
    BY <2>2, <2>3
<1>2. Inv => FailureIsCleared
  <2> SUFFICES ASSUME Inv, NEW b \in Backup,
                      create[b] = "over", panel[b] = "unsuccessful", ghost[b].heard,
                      ~ghost[b].kept,
                      \A t \in {"route", "create"} : removal[b][t] = "none"
               PROVE  stored[b] \subseteq CASE adapter[b] = "btrfs" -> {"directory"}
                                            [] adapter[b] = "zfs"   -> {"snapshot"}
                                            [] OTHER                -> {}
    BY DEF FailureIsCleared
  <2>1. Cleared(b) /\ Kinds(b) /\ Nested(b) /\ Deleting(b) /\ Cleaned(b)
    BY DEF Inv, Faithful, Cleaned
  <2>2. CASE adapter[b] = "btrfs"
    <3>1. "snapshot" \notin stored[b] /\ stored[b] \subseteq {"directory", "snapshot", "ignored"}
      BY <2>1, <2>2 DEF Cleared, Kinds
    <3>2. "ignored" \notin stored[b]
      BY <2>1, <2>2, <3>1 DEF Nested, Deleting
    <3>3. QED
      BY <2>2, <3>1, <3>2
  <2>3. CASE adapter[b] = "zfs"
    <3>1. /\ "directory" \notin stored[b]
          /\ stored[b] \subseteq {"directory", "snapshot", "ignored", "dataset"}
      BY <2>1, <2>3 DEF Cleared, Kinds
    <3>2. "ignored" \notin stored[b] /\ "dataset" \notin stored[b]
      BY <2>1, <2>3, <3>1 DEF Nested
    <3>3. stored[b] \subseteq {"snapshot"}
      BY <3>1, <3>2
    <3>4. QED
      BY <2>3, <3>3
  <2>4. CASE ~Snapshots(b)
    BY <2>1, <2>4 DEF Cleared, Snapshots
  <2>5. QED
    BY <2>2, <2>3, <2>4 DEF Snapshots
<1>3. Inv => TypeOK
  BY DEF Inv
<1>4. QED
  BY <1>1, <1>2, <1>3, Invariance, PTL DEF ReportsHold

\* A restore or a download that ends well has read the whole backup, whatever else happened
\* to it meanwhile but for the named exceptions.
THEOREM ReadersAreServed == Spec => []ReadersGetAll
<1>1. Inv => ReadersGetAll
  <2> SUFFICES ASSUME Inv, NEW b \in Backup
               PROVE  LET Got(k) == reader[b][k].pc = "good" => reader[b][k].got = "whole" IN
                      /\ \/ Got("restore") \/ (Snapshots(b) /\ ghost[b].erased)
                         \/ ghost[b].spoiled \/ ghost[b].torn
                      /\ Got("download") \/ ghost[b].erased \/ ~ghost[b].ready
    BY DEF ReadersGetAll
  <2>1. Restored(b) /\ Downloaded(b)
    BY DEF Inv, Faithful
  <2>2. adapter[b] \in {"tar", "zip", "s3", "ddup", "btrfs", "zfs"}
    BY BackupAssumption DEF Inv, TypeOK
  <2>3. QED
    BY <2>1, <2>2 DEF Restored, Downloaded, Snapshots
<1>2. QED
  BY <1>1, Invariance, PTL

=============================================================================
