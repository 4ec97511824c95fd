------------------------------- MODULE Backups -------------------------------
(***************************************************************************)
(* The backups of one server: InternalBackup::create, delete, restore and  *)
(* download (server/backup/mod.rs), the five adapters (server/backup/*.rs, *)
(* Wings with its two formats), the upload of an archive to S3 in parts,   *)
(* and the routes that start all this in tasks of their own.               *)
(*                                                                         *)
(* What an adapter keeps of a backup is a set of pieces, which it lays     *)
(* down one after the other; every step may fail.  The flags that keep a   *)
(* restore apart from installations and transfers are in Maintenance: here *)
(* a restore only excludes another one.                                    *)
(***************************************************************************)
EXTENDS Integers, Sequences, FiniteSets, SequencesExt

CONSTANTS
  Backup,       \* uuids the panel asks for, each once
  Adapter,      \* adapters in use
  Size,         \* size of an archive that goes to S3
  PartSize,     \* bytes per part, the panel's choice
  MaxUrls,      \* bound: part urls in the panel's answer
  MaxAttempts,  \* attempts per part: 50
  MaxCrashes    \* bound: crashes of the daemon

ASSUME BackupAssumption ==
  /\ Adapter \subseteq {"tar", "zip", "s3", "ddup", "btrfs", "zfs"}
  /\ Size \in Nat \ {0} /\ PartSize \in Nat \ {0}
  /\ MaxUrls \in Nat /\ MaxAttempts \in Nat \ {0} /\ MaxCrashes \in Nat

VARIABLES
  create,    \* create[b]: the task of InternalBackup::create
  adapter,   \* adapter[b]: the adapter it was asked to use
  laid,      \* laid[b]: how many pieces create has laid down
  stored,    \* stored[b]: the pieces that exist
  upload,    \* upload[b]: the upload of its archive
  panel,     \* panel[b]: what the panel was told
  removal,   \* removal[b][t]: delete, in a task of its own or at the end of create
  reader,    \* reader[b][k]: a restore or a download
  crashes,
  ghost      \* history, see Ghost

stores == <<laid, stored, upload>>
vars == <<create, adapter, stores, panel, removal, reader, crashes, ghost>>

TarPieces   == <<"archive", "content">>
ZipPieces   == <<"archive", "content">>
S3Pieces    == <<"archive", "content">>
DdupPieces  == <<"archive", "content">>
BtrfsPieces == <<"directory", "snapshot", "ignored">>
ZfsPieces   == <<"directory", "snapshot", "ignored", "dataset">>

\* The pieces of each adapter, in the order in which they are laid down.
Pieces == [tar |-> TarPieces, zip |-> ZipPieces, s3 |-> S3Pieces, ddup |-> DdupPieces,
           btrfs |-> BtrfsPieces, zfs |-> ZfsPieces]

Piece == {"archive", "content", "fragment", "directory", "snapshot", "ignored", "dataset"}

Snapshots(b) == adapter[b] \in {"btrfs", "zfs"}
Tarball(b) == adapter[b] \in {"tar", "s3"}

\* parts: where each part that was accepted begins in the archive, and its length.
Upload == [left : 0..MaxUrls, attempts : 0..MaxAttempts, remaining : 0..Size,
           position : 0..Size, lingering : BOOLEAN, parts : Seq((0..Size) \X (0..Size))]

NoUpload == [left |-> 0, attempts |-> 0, remaining |-> Size, position |-> 0,
             lingering |-> FALSE, parts |-> <<>>]
NoReader == [pc |-> "none", got |-> "nothing"]

Min2(m, n) == IF m < n THEN m ELSE n
PartLength(b) == Min2(upload[b].remaining, PartSize)

\* erased: its deletion was begun; heard: the answer to the last report arrived;
\* spoiled: a reader left over from a refused attempt moved the offset it shares
\* with the next; torn: its tarball lacks something; kept: a deletion failed or was cut short; ready: its download began with
\* everything in place.
Ghost == [erased : BOOLEAN, heard : BOOLEAN, spoiled : BOOLEAN, torn : BOOLEAN,
          kept : BOOLEAN, ready : BOOLEAN]

TypeOK ==
  /\ create \in [Backup -> {"none", "lay", "hash", "urls", "upload", "put", "drop",
                            "good", "record", "bad", "cleanup", "over", "killed"}]
  /\ adapter \in [Backup -> Adapter]
  /\ laid \in [Backup -> 0..4]
  /\ stored \in [Backup -> SUBSET Piece]
  /\ upload \in [Backup -> Upload]
  /\ panel \in [Backup -> {"waiting", "successful", "unsuccessful"}]
  /\ removal \in [Backup -> [{"route", "create"} -> {"none", "delete", "rest"}]]
  /\ reader \in [Backup -> [{"restore", "download"} ->
                   [pc : {"none", "open", "read", "good", "bad"},
                    got : {"nothing", "part", "whole"}]]]
  /\ crashes \in 0..MaxCrashes
  /\ ghost \in [Backup -> Ghost]

Init ==
  /\ create = [b \in Backup |-> "none"]
  /\ adapter \in [Backup -> Adapter]
  /\ laid = [b \in Backup |-> 0]
  /\ stored = [b \in Backup |-> {}]
  /\ upload = [b \in Backup |-> NoUpload]
  /\ panel = [b \in Backup |-> "waiting"]
  /\ removal = [b \in Backup |-> [t \in {"route", "create"} |-> "none"]]
  /\ reader = [b \in Backup |-> [k \in {"restore", "download"} |-> NoReader]]
  /\ crashes = 0
  /\ ghost = [b \in Backup |-> [erased |-> FALSE, heard |-> FALSE, spoiled |-> FALSE,
                                torn |-> FALSE, kept |-> FALSE, ready |-> FALSE]]

\* Everything a reader of the content needs.
Complete(b) == ToSet(Pieces[adapter[b]]) \ {"dataset"} \subseteq stored[b]

\* An archive is found by the name of its file; snapshots by that of a directory;
\* S3 lists nothing.
WingsListed(b) == "archive" \in stored[b]
DdupListed(b)  == "archive" \in stored[b]
BtrfsListed(b) == "directory" \in stored[b]
ZfsListed(b)   == "directory" \in stored[b]

Listed(b) ==
  CASE adapter[b] \in {"tar", "zip"} -> WingsListed(b)
    [] adapter[b] = "ddup"           -> DdupListed(b)
    [] adapter[b] = "btrfs"          -> BtrfsListed(b)
    [] adapter[b] = "zfs"            -> ZfsListed(b)
    [] OTHER                         -> FALSE

(***************************************************************************)
(* create: the route and the adapters                                      *)
(***************************************************************************)
Goto(b, pc) == create' = [create EXCEPT ![b] = pc]
Aside == UNCHANGED <<adapter, removal, reader, crashes>>

\* A backup that is listed already is a conflict.
Request(b) ==
  /\ create[b] = "none" /\ ~Listed(b)
  /\ Goto(b, "lay")
  /\ Aside /\ UNCHANGED <<stores, panel, ghost>>

\* Patterns that do not compile end create before anybody is told.
Unbuilt(b) ==
  /\ create[b] = "lay" /\ laid[b] = 0
  /\ Goto(b, "over")
  /\ Aside /\ UNCHANGED <<stores, panel, ghost>>

\* The next piece.  The server is not locked, and its files may come and go.  A
\* snapshot is kept in the directory; an archive that was removed meanwhile is
\* written to the end for nobody.  What cannot be appended to a tarball is left out,
\* and nobody is told.
Lay(b) ==
  LET piece == Pieces[adapter[b]][laid[b] + 1] IN
  /\ create[b] = "lay"
  /\ Snapshots(b) /\ laid[b] > 0 => "directory" \in stored[b]
  /\ laid' = [laid EXCEPT ![b] = @ + 1]
  /\ \E torn \in {FALSE, Tarball(b) /\ piece = "content"} :
       /\ ghost' = [ghost EXCEPT ![b].torn = torn]
       /\ stored' = IF piece = "content" /\ "archive" \notin stored[b] THEN stored
                    ELSE [stored EXCEPT ![b] = @ \union {IF torn THEN "fragment" ELSE piece}]
  /\ Goto(b, IF laid[b] + 1 = Len(Pieces[adapter[b]]) THEN "hash" ELSE "lay")
  /\ Aside /\ UNCHANGED <<upload, panel>>

\* The archive is opened again for its checksum; snapshots are measured.
Hash(b) ==
  /\ create[b] = "hash"
  /\ ~Snapshots(b) => "archive" \in stored[b]
  /\ Goto(b, IF adapter[b] = "s3" THEN "urls" ELSE "good")
  /\ Aside /\ UNCHANGED <<stores, panel, ghost>>

\* Any of the steps above may fail, and so may the next request to the panel.
CreateFails(b) ==
  /\ create[b] \in {"lay", "hash", "urls", "drop"}
  /\ Goto(b, "bad")
  /\ Aside /\ UNCHANGED <<stores, panel, ghost>>

(***************************************************************************)
(* create: the upload to S3                                                *)
(***************************************************************************)
Urls(b) ==
  /\ create[b] = "urls"
  /\ \E n \in 0..MaxUrls : upload' = [upload EXCEPT ![b].left = n]
  /\ Goto(b, "upload")
  /\ Aside /\ UNCHANGED <<laid, stored, panel, ghost>>

\* An attempt seeks to where its part begins; the reader it hands to the request
\* shares the offset of the file.
Attempt(b) ==
  /\ create[b] = "upload" /\ upload[b].left > 0
  /\ upload[b].attempts < MaxAttempts
  /\ upload' = [upload EXCEPT ![b].attempts = @ + 1,
                              ![b].position = Size - upload[b].remaining]
  /\ Goto(b, "put")
  /\ Aside /\ UNCHANGED <<laid, stored, panel, ghost>>

GiveUp(b) ==
  /\ create[b] = "upload" /\ upload[b].left > 0
  /\ upload[b].attempts = MaxAttempts
  /\ Goto(b, "bad")
  /\ Aside /\ UNCHANGED <<stores, panel, ghost>>

\* The body is as long as announced, or the request is not completed.
Accepted(b) ==
  /\ create[b] = "put"
  /\ upload[b].position + PartLength(b) <= Size
  /\ upload' = [upload EXCEPT ![b].left = @ - 1, ![b].attempts = 0,
                              ![b].remaining = @ - PartLength(b),
                              ![b].parts = Append(@, <<upload[b].position, PartLength(b)>>)]
  /\ Goto(b, "upload")
  /\ Aside /\ UNCHANGED <<laid, stored, panel, ghost>>

\* Mutant: a refused attempt is not counted.
RefusedFree(b) ==
  /\ create[b] = "put"
  /\ upload' = [upload EXCEPT ![b].attempts = 0]
  /\ Goto(b, "upload")
  /\ Aside /\ UNCHANGED <<laid, stored, panel, ghost>>

\* An answer that is no success: the next attempt follows at once, and the body of
\* this one may still be under way.
Refused(b) ==
  /\ create[b] = "put"
  /\ \E lingering \in {upload[b].lingering, TRUE} :
       upload' = [upload EXCEPT ![b].lingering = lingering]
  /\ Goto(b, "upload")
  /\ Aside /\ UNCHANGED <<laid, stored, panel, ghost>>

\* No answer: the next attempt waits.
Unanswered(b) ==
  /\ create[b] = "put"
  /\ Goto(b, "upload")
  /\ Aside /\ UNCHANGED <<stores, panel, ghost>>

\* The reader of an earlier attempt reads on.
LateRead(b) ==
  /\ create[b] = "put" /\ upload[b].lingering
  /\ upload' = [upload EXCEPT ![b].lingering = FALSE,
                              ![b].position = Min2(@ + 1, Size)]
  /\ ghost' = [ghost EXCEPT ![b].spoiled = TRUE]
  /\ Aside /\ UNCHANGED <<create, laid, stored, panel>>

Uploaded(b) ==
  /\ create[b] = "upload" /\ upload[b].left = 0
  /\ Goto(b, IF upload[b].remaining > 0 THEN "bad" ELSE "drop")
  /\ Aside /\ UNCHANGED <<stores, panel, ghost>>

DropArchive(b) ==
  /\ create[b] = "drop"
  /\ stored' = [stored EXCEPT ![b] = {}]
  /\ Goto(b, "good")
  /\ Aside /\ UNCHANGED <<laid, upload, panel, ghost>>

(***************************************************************************)
(* create: the report                                                      *)
(***************************************************************************)

\* The panel may have taken in a report whose answer is lost; the caller goes on
\* only when it has the answer.
Report(b, status, next) ==
  \E told, heard \in BOOLEAN :
    /\ heard => told
    /\ panel' = IF told THEN [panel EXCEPT ![b] = status] ELSE panel
    /\ ghost' = [ghost EXCEPT ![b].heard = heard]
    /\ Goto(b, IF heard THEN next ELSE "over")
    /\ Aside /\ UNCHANGED stores

ReportGood(b) == create[b] = "good" /\ Report(b, "successful", "record")

ReportBad(b) == create[b] = "bad" /\ Report(b, "unsuccessful", "cleanup")

\* Listeners are told and the uuid joins configuration.backups.
Record(b) ==
  /\ create[b] = "record"
  /\ Goto(b, "over")
  /\ Aside /\ UNCHANGED <<stores, panel, ghost>>

\* Mutant: only what the list of backups shows is deleted.
CleanupListed(b) ==
  /\ create[b] = "cleanup"
  /\ removal' = IF Listed(b) THEN [removal EXCEPT ![b]["create"] = "delete"] ELSE removal
  /\ Goto(b, "over")
  /\ UNCHANGED <<adapter, stores, panel, reader, crashes, ghost>>

\* What there is of a failed backup is deleted, and create ends with that.
Cleanup(b) ==
  /\ create[b] = "cleanup"
  /\ removal' = [removal EXCEPT ![b]["create"] = "delete"]
  /\ Goto(b, "over")
  /\ UNCHANGED <<adapter, stores, panel, reader, crashes, ghost>>

(***************************************************************************)
(* delete                                                                  *)
(***************************************************************************)
DeleteRequest(b) ==
  /\ removal[b]["route"] = "none" /\ Listed(b) /\ ~ghost[b].erased
  /\ removal' = [removal EXCEPT ![b]["route"] = "delete"]
  /\ UNCHANGED <<create, adapter, stores, panel, reader, crashes, ghost>>

\* What is left after the first step: the file of an archive is unlinked, a snapshot
\* is destroyed before its directory.  btrfs leaves a directory alone in which there
\* is no subvolume; zfs destroys nothing when it cannot read the name of the dataset.
WingsUnlinked(b)  == {}
DdupUnlinked(b)   == {}
S3Unlinked(b)     == {}
BtrfsDestroyed(b) == stored[b]
ZfsDestroyed(b)   == stored[b] \ (IF "dataset" \in stored[b] THEN {"snapshot"} ELSE {})

Destroyed(b) ==
  CASE adapter[b] \in {"tar", "zip"} -> WingsUnlinked(b)
    [] adapter[b] = "ddup"           -> DdupUnlinked(b)
    [] adapter[b] = "s3"             -> S3Unlinked(b)
    [] adapter[b] = "btrfs"          -> BtrfsDestroyed(b)
    [] adapter[b] = "zfs"            -> ZfsDestroyed(b)

HasRest(b) ==
  CASE adapter[b] = "btrfs" -> "snapshot" \in stored[b]
    [] adapter[b] = "zfs"   -> "directory" \in stored[b]
    [] OTHER                -> FALSE

DeleteBegins(b, t) ==
  /\ removal[b][t] = "delete"
  /\ removal' = [removal EXCEPT ![b][t] = IF HasRest(b) THEN "rest" ELSE "none"]
  /\ stored' = IF Snapshots(b) /\ ~HasRest(b) THEN stored
               ELSE [stored EXCEPT ![b] = Destroyed(b)]
  /\ ghost' = [ghost EXCEPT ![b].erased = TRUE]
  /\ UNCHANGED <<create, adapter, laid, upload, panel, reader, crashes>>

\* remove_dir_all: the entries of the directory in any order, then the directory.  The
\* snapshot of a dataset is not among them.
DeleteRest(b, t) ==
  LET inside == IF adapter[b] = "zfs" THEN {"ignored", "dataset"} ELSE {"ignored", "snapshot"}
  IN
  /\ removal[b][t] = "rest"
  /\ \/ /\ \E piece \in inside \cap stored[b] : stored' = [stored EXCEPT ![b] = @ \ {piece}]
        /\ UNCHANGED removal
     \/ /\ inside \cap stored[b] = {}
        /\ stored' = [stored EXCEPT ![b] = @ \ {"directory"}]
        /\ removal' = [removal EXCEPT ![b][t] = "none"]
  /\ UNCHANGED <<create, adapter, laid, upload, panel, reader, crashes, ghost>>

\* That a deletion fails is written to the log, or not looked at.
DeleteFails(b, t) ==
  /\ removal[b][t] # "none"
  /\ removal' = [removal EXCEPT ![b][t] = "none"]
  /\ ghost' = [ghost EXCEPT ![b].kept = TRUE, ![b].erased = TRUE]
  /\ UNCHANGED <<create, adapter, stores, panel, reader, crashes>>

(***************************************************************************)
(* restore and download                                                    *)
(***************************************************************************)
Goes(b, k, pc, got) == reader' = [reader EXCEPT ![b][k] = [pc |-> pc, got |-> got]]
Off == UNCHANGED <<create, adapter, stores, panel, removal, crashes>>

\* The route looks the backup up; one in S3 comes by an url instead, and has been
\* uploaded.  The server must not be locked.
RestoreRequest(b) ==
  /\ \A c \in Backup : reader[c]["restore"].pc = "none"
  /\ IF adapter[b] = "s3" THEN panel[b] = "successful" ELSE Listed(b)
  /\ Goes(b, "restore", "open", "nothing")
  /\ Off /\ UNCHANGED ghost

\* A token for each download is in Sessions.
DownloadRequest(b) ==
  /\ reader[b]["download"].pc = "none" /\ Listed(b)
  /\ Goes(b, "download", "open", "nothing")
  /\ ghost' = [ghost EXCEPT ![b].ready = Complete(b)]
  /\ Off

\* An archive is opened as far as it is written, a zip and a deduplicated one when
\* they are complete.  A restore from a snapshot begins with the list of what it
\* ignores, a download with the snapshot itself.
WingsRestores(b) == IF adapter[b] = "zip" THEN Complete(b) ELSE "archive" \in stored[b]
S3Restores(b)    == TRUE
DdupRestores(b)  == Complete(b)
BtrfsRestores(b) == "ignored" \in stored[b]
ZfsRestores(b)   == "ignored" \in stored[b]

Restores(b) ==
  CASE adapter[b] \in {"tar", "zip"} -> WingsRestores(b)
    [] adapter[b] = "s3"             -> S3Restores(b)
    [] adapter[b] = "ddup"           -> DdupRestores(b)
    [] adapter[b] = "btrfs"          -> BtrfsRestores(b)
    [] adapter[b] = "zfs"            -> ZfsRestores(b)

WingsDownloads(b) == "archive" \in stored[b]
DdupDownloads(b)  == Complete(b)
BtrfsDownloads(b) == "snapshot" \in stored[b]
ZfsDownloads(b)   == "snapshot" \in stored[b]

Downloads(b) ==
  CASE adapter[b] \in {"tar", "zip"} -> WingsDownloads(b)
    [] adapter[b] = "ddup"           -> DdupDownloads(b)
    [] adapter[b] = "btrfs"          -> BtrfsDownloads(b)
    [] adapter[b] = "zfs"            -> ZfsDownloads(b)

Open(b, k) ==
  /\ reader[b][k].pc = "open"
  /\ IF k = "restore" THEN Restores(b) ELSE Downloads(b)
  /\ Goes(b, k, "read", IF adapter[b] = "s3"
                        THEN IF ghost[b].spoiled \/ ghost[b].torn THEN "part" ELSE "whole"
                        ELSE IF Complete(b) THEN "whole" ELSE "part")
  /\ Off /\ UNCHANGED ghost

\* Mutant: what breaks off is the end.
RestoreReadsAny(b) ==
  /\ reader[b]["restore"].pc = "read"
  /\ Goes(b, "restore", "good", reader[b]["restore"].got)
  /\ Off /\ UNCHANGED ghost

\* A tarball that breaks off ends the restore, a chunk that is missing too; a walk
\* over a snapshot skips what it cannot read, so that it ends well where there is no
\* snapshot left.
RestoreReads(b) ==
  LET got == reader[b]["restore"].got IN
  /\ reader[b]["restore"].pc = "read"
  /\ CASE Snapshots(b)        -> Goes(b, "restore", "good",
                                     IF Complete(b) THEN got ELSE "part")
       [] adapter[b] = "ddup" -> Complete(b) /\ Goes(b, "restore", "good", got)
       [] adapter[b] = "tar"  -> \/ got = "whole" /\ Goes(b, "restore", "good", "whole")
                                 \/ Complete(b) /\ Goes(b, "restore", "good", "whole")
                                 \/ "fragment" \in stored[b] /\ Goes(b, "restore", "good", "part")
       [] OTHER               -> Goes(b, "restore", "good", got)
  /\ Off /\ UNCHANGED ghost

\* A download of an archive is as long as the file was when it was opened; the others
\* are written on the fly, and end like complete ones when something is missing.
DownloadReads(b) ==
  LET got == reader[b]["download"].got IN
  /\ reader[b]["download"].pc = "read"
  /\ Goes(b, "download", "good",
          IF adapter[b] \in {"tar", "zip"} \/ Complete(b) THEN got ELSE "part")
  /\ Off /\ UNCHANGED ghost

ReadFails(b, k) ==
  /\ reader[b][k].pc \in {"open", "read"}
  /\ Goes(b, k, "bad", reader[b][k].got)
  /\ Off /\ UNCHANGED ghost

\* A restore clears its flag, then the panel is told.
ReadEnds(b, k) ==
  /\ reader[b][k].pc \in {"good", "bad"}
  /\ Goes(b, k, "none", "nothing")
  /\ Off /\ UNCHANGED ghost

\* The tasks die with the daemon, what is on the disk stays.
Crash ==
  /\ crashes < MaxCrashes
  /\ crashes' = crashes + 1
  /\ create' = [b \in Backup |-> IF create[b] \in {"none", "over"} THEN create[b] ELSE "killed"]
  /\ removal' = [b \in Backup |-> [t \in {"route", "create"} |-> "none"]]
  /\ reader' = [b \in Backup |-> [k \in {"restore", "download"} |-> NoReader]]
  /\ ghost' = [b \in Backup |->
       IF \E t \in {"route", "create"} : removal[b][t] # "none"
       THEN [ghost[b] EXCEPT !.kept = TRUE] ELSE ghost[b]]
  /\ UNCHANGED <<adapter, stores, panel>>

CreateSteps(b) ==
  \/ Unbuilt(b) \/ Lay(b) \/ Hash(b) \/ CreateFails(b)
  \/ Urls(b) \/ Attempt(b) \/ GiveUp(b) \/ Accepted(b) \/ Refused(b) \/ Unanswered(b)
  \/ Uploaded(b) \/ DropArchive(b)
  \/ ReportGood(b) \/ ReportBad(b) \/ Record(b) \/ Cleanup(b)

DeleteSteps(b, t) == DeleteBegins(b, t) \/ DeleteRest(b, t) \/ DeleteFails(b, t)

ReadSteps(b) ==
  \/ \E k \in {"restore", "download"} : Open(b, k) \/ ReadFails(b, k) \/ ReadEnds(b, k)
  \/ RestoreReads(b) \/ DownloadReads(b)

Requests(b) == Request(b) \/ DeleteRequest(b) \/ RestoreRequest(b) \/ DownloadRequest(b)

Next ==
  \/ \E b \in Backup : CreateSteps(b) \/ ReadSteps(b) \/ Requests(b) \/ LateRead(b)
  \/ \E b \in Backup, t \in {"route", "create"} : DeleteSteps(b, t)
  \/ Crash

Spec == Init /\ [][Next]_vars

\* Tasks that can go on do: every await in them ends, the requests to the panel and
\* to S3 by their timeout of 15 seconds.
LiveSpec == Spec /\ \A b \in Backup : WF_vars(CreateSteps(b)) /\ WF_vars(ReadSteps(b))

(***************************************************************************)
(* Properties                                                              *)
(***************************************************************************)

\* The parts, in order, are the first n bytes of the archive: each begins where the one
\* before it ends.
Adjacent(parts, n) ==
  IF parts = <<>> THEN n = 0
  ELSE /\ parts[1][1] = 0
       /\ \A i \in 2..Len(parts) : parts[i][1] = parts[i - 1][1] + parts[i - 1][2]
       /\ n = parts[Len(parts)][1] + parts[Len(parts)][2]

Exact(b) == Adjacent(upload[b].parts, Size)

\* A backup of which the panel was told that it succeeded is all there until it is
\* deleted: every piece in place, or every byte of the archive sent to S3 once and in
\* its place, over any number of retries.  The exceptions are attempts whose offset an
\* earlier attempt moved, and tarballs that lack what could not be appended.
SuccessIsWhole ==
  \A b \in Backup :
    panel[b] = "successful" /\ ~ghost[b].erased =>
      IF adapter[b] = "s3" THEN stored[b] = {} /\ (ghost[b].spoiled \/ Exact(b))
                           ELSE \/ stored[b] = ToSet(Pieces[adapter[b]])
                                \/ adapter[b] = "tar" /\ stored[b] = {"archive", "fragment"}

\* A failed create of which the panel knows leaves nothing behind that can be taken
\* for a backup or takes up space, when its deletion went through: but for the
\* directory of a subvolume that was not made, and the snapshot of a dataset whose
\* name was not written.
FailureIsCleared ==
  \A b \in Backup :
    /\ create[b] = "over" /\ panel[b] = "unsuccessful" /\ ghost[b].heard
    /\ ~ghost[b].kept
    /\ \A t \in {"route", "create"} : removal[b][t] = "none"
    => stored[b] \subseteq CASE adapter[b] = "btrfs" -> {"directory"}
                             [] adapter[b] = "zfs"   -> {"snapshot"}
                             [] OTHER                -> {}

\* A restore that is reported as successful has read the whole backup, and so has a
\* download that began with one and ended like a complete one; the exceptions are
\* backups that were being deleted, and archives that were torn or spoiled already.
ReadersGetAll ==
  \A b \in Backup :
    LET Got(k) == reader[b][k].pc = "good" => reader[b][k].got = "whole" IN
    /\ Got("restore") \/ (Snapshots(b) /\ ghost[b].erased) \/ ghost[b].spoiled \/ ghost[b].torn
    /\ Got("download") \/ ghost[b].erased \/ ~ghost[b].ready

\* What the panel was told of a backup is so, and all values have their types.
ReportsHold == TypeOK /\ SuccessIsWhole /\ FailureIsCleared

\* Every create ends, however often the parts of its archive are refused.
CreateEnds ==
  \A b \in Backup : create[b] = "lay" ~> create[b] \in {"over", "killed"}
=============================================================================
