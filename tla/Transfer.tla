------------------------------ MODULE Transfer ------------------------------
(***************************************************************************)
(* A server moves from one node to another: the outgoing transfer at the   *)
(* source (server/transfer.rs), the request that carries the archive, the  *)
(* task at the destination that unpacks it (routes/api/transfers), and     *)
(* what the panel is told by either.  Both nodes are as in Manager, and    *)
(* either may go down on the way.                                          *)
(*                                                                         *)
(* A transfer does not carry everything: the source leaves out what the    *)
(* egg's denylist names and what it cannot read, the destination all that  *)
(* is not a directory or a regular file (links, and files that tar stores  *)
(* as sparse) and absolute paths.  What it carries is a "copy".            *)
(*                                                                         *)
(* The slot of outgoing transfers is in Maintenance; the checksum, which   *)
(* nobody looks at, is not modelled.                                       *)
(***************************************************************************)
EXTENDS Manager

CONSTANTS Dest  \* where the server is to go

ASSUME TransferAssumption == Dest \in Node \ {Home}

VARIABLES
  transfer,  \* the panel: "none", "pending", "failed", "moved"
  sender,    \* the task of OutgoingServerTransfer
  stream,    \* the request taken: "none", "open", "some" or "all" of the archive
  broken,    \* its connection is
  receiver,  \* the handler and the blocking task at the destination
  vacant     \* history: a stream broke off before the archive began

moving == <<transfer, sender, stream, broken, receiver, vacant>>
allVars == <<vars, moving>>

TransferTypeOK ==
  /\ transfer \in {"none", "pending", "failed", "moved"}
  /\ sender \in {"idle", "stop", "connect", "stream", "refused", "failing"}
  /\ stream \in {"none", "open", "some", "all"}
  /\ broken \in BOOLEAN /\ vacant \in BOOLEAN
  /\ receiver \in {"idle", "accept", "lock", "wait", "unpack", "tell", "unflag", "dead"}

TransferInit ==
  /\ Init
  /\ transfer = "none" /\ sender = "idle" /\ receiver = "idle"
  /\ stream = "none" /\ broken = FALSE /\ vacant = FALSE

NodesRest == UNCHANGED <<up, file, save, task, crashes, owed, left, late>>
NodesStay == NodesRest /\ UNCHANGED <<server, docker, files, at, requests>>

(***************************************************************************)
(* The source                                                              *)
(***************************************************************************)

\* The panel asks for a transfer, also after one that failed.
BeginTransfer ==
  /\ Request /\ transfer \in {"none", "failed"} /\ at = Home /\ sender = "idle"
  /\ up[Home] /\ server[Home].listed /\ ~Locked(Home)
  /\ transfer' = "pending" /\ sender' = "stop"
  /\ server' = [server EXCEPT ![Home].transferring = TRUE]
  /\ UNCHANGED <<docker, files, at, stream, broken, receiver, vacant>> /\ NodesRest

\* stop_with_kill_timeout, after which the process may still be there.
SenderStop ==
  /\ sender = "stop" /\ sender' = "connect"
  /\ \/ UNCHANGED docker
     \/ docker[Home].server = "running" /\ docker' = [docker EXCEPT ![Home].server = "stopped"]
  /\ UNCHANGED <<server, files, at, requests, transfer, stream, broken, receiver, vacant>>
  /\ NodesRest

\* The request arrives, and is refused if the destination has the server or does not
\* like the token, or it does not arrive.
Connect ==
  /\ sender = "connect"
  /\ \/ /\ up[Dest] /\ ~server[Dest].listed /\ task[Dest] = NoTasks /\ receiver = "idle"
        /\ sender' = "stream" /\ receiver' = "accept"
        /\ stream' = "open" /\ broken' = FALSE
     \/ sender' = "refused" /\ UNCHANGED <<receiver, stream, broken>>
  /\ UNCHANGED <<transfer, vacant>> /\ NodesStay

\* The archive goes into the stream piece by piece.
SendArchive ==
  /\ sender = "stream" /\ ~broken
  /\ \/ stream = "open" /\ stream' = "some"
     \/ stream = "some" /\ stream' = "all"
  /\ UNCHANGED <<transfer, sender, broken, receiver, vacant>> /\ NodesStay

\* The connection breaks.
Break ==
  /\ stream # "none" /\ ~broken
  /\ broken' = TRUE
  /\ UNCHANGED <<transfer, sender, stream, receiver, vacant>> /\ NodesStay

\* All has been written, or what is left fits into the buffers: whatever the answer
\* is, the transfer has completed.
SenderEnds ==
  /\ \/ sender = "stream" /\ (stream \in {"all", "none"} \/ broken)
     \/ sender = "refused"
  /\ sender' = "idle"
  /\ server' = [server EXCEPT ![Home].transferring = FALSE]
  /\ UNCHANGED <<docker, files, at, requests, transfer, stream, broken, receiver, vacant>>
  /\ NodesRest

\* The archive cannot be finished as nobody reads it.
ArchiveFails ==
  /\ sender = "refused" \/ (sender = "stream" /\ broken /\ stream # "all")
  /\ sender' = "failing"
  /\ UNCHANGED <<transfer, stream, broken, receiver, vacant>> /\ NodesStay

\* The panel is told if it can be reached.
TransferFails ==
  /\ sender = "failing" /\ sender' = "idle"
  /\ server' = [server EXCEPT ![Home].transferring = FALSE]
  /\ transfer' \in {transfer, IF transfer = "pending" THEN "failed" ELSE transfer}
  /\ UNCHANGED <<docker, files, at, requests, stream, broken, receiver, vacant>> /\ NodesRest

\* A cancellation aborts the task, and the request with it; the thread that writes the
\* archive goes on until it finds that nobody reads it, which changes nothing here.
CancelOutgoing ==
  /\ Request /\ up[Home] /\ server[Home].listed /\ server[Home].transferring
  /\ server' = [server EXCEPT ![Home].transferring = FALSE]
  /\ sender' = "idle"
  /\ broken' = (broken \/ sender = "stream")
  /\ UNCHANGED <<docker, files, at, transfer, stream, receiver, vacant>> /\ NodesRest

(***************************************************************************)
(* The destination                                                         *)
(***************************************************************************)
\* The handler gets the configuration, and creates the server.
Receive ==
  /\ receiver = "accept" /\ receiver' = "lock"
  /\ server' = [server EXCEPT ![Dest] = New]
  /\ files' = [files EXCEPT ![Dest] = "part"]
  /\ UNCHANGED <<docker, at, requests, transfer, sender, stream, broken, vacant>> /\ NodesRest

\* The panel does not answer: the handler panics.
ReceiveFails ==
  /\ receiver = "accept" /\ receiver' = "idle"
  /\ stream' = "none" /\ broken' = TRUE
  /\ UNCHANGED <<transfer, sender, vacant>> /\ NodesStay

\* Only then the server is locked.
ReceiveLock ==
  /\ receiver = "lock" /\ receiver' = "wait"
  /\ server' = [server EXCEPT ![Dest].transferring = TRUE]
  /\ UNCHANGED <<docker, files, at, requests, transfer, sender, stream, broken, vacant>>
  /\ NodesRest

\* The field of the archive begins, or there is none: a stream that broke off before
\* it looks like one that has ended.
ReceiveField ==
  /\ receiver = "wait"
  /\ \/ stream \in {"some", "all"} /\ receiver' = "unpack" /\ UNCHANGED vacant
     \/ broken /\ receiver' = "tell" /\ vacant' = TRUE
  /\ UNCHANGED <<transfer, sender, stream, broken>> /\ NodesStay

\* Mutant of UnpackFails: the entries end with the first one that cannot be read.
UnpackStops ==
  /\ receiver = "unpack" /\ receiver' = "tell"
  /\ UNCHANGED <<transfer, sender, stream, broken, vacant>> /\ NodesStay

\* Nothing can be read, or nothing written, for instance as the disk is full: the task
\* panics, and the server stays locked.
UnpackFails ==
  /\ receiver = "unpack" /\ receiver' = "dead"
  /\ stream' = "none" /\ broken' = TRUE
  /\ UNCHANGED <<transfer, sender, vacant>> /\ NodesStay

\* All that the archive has, and the destination keeps, has been written.
Unpack ==
  /\ receiver = "unpack" /\ stream = "all"
  /\ receiver' = "tell"
  /\ files' = [files EXCEPT ![Dest] = "copy"]
  /\ UNCHANGED <<server, docker, at, requests, transfer, sender, stream, broken, vacant>>
  /\ NodesRest

\* The panel moves the server when it is told, if it is.
Tell ==
  /\ receiver = "tell" /\ receiver' = "unflag"
  /\ \/ UNCHANGED <<transfer, at>>
     \/ transfer = "pending" /\ transfer' = "moved" /\ at' = Dest
  /\ UNCHANGED <<server, docker, files, requests, sender, stream, broken, vacant>> /\ NodesRest

Unflag ==
  /\ receiver = "unflag" /\ receiver' = "idle"
  /\ server' = [server EXCEPT ![Dest].transferring = FALSE]
  /\ stream' = "none"
  /\ UNCHANGED <<docker, files, at, requests, transfer, sender, broken, vacant>> /\ NodesRest

\* A cancellation here drops the handle of a blocking task, which goes on.
CancelIncoming ==
  /\ Request /\ up[Dest] /\ server[Dest].listed
  /\ server' = [server EXCEPT ![Dest].transferring = FALSE]
  /\ UNCHANGED <<docker, files, at, moving>> /\ NodesRest

(***************************************************************************)
(* Specification                                                           *)
(***************************************************************************)
SourceNext ==
  \/ BeginTransfer \/ SenderStop \/ Connect \/ SendArchive \/ Break \/ SenderEnds
  \/ ArchiveFails \/ TransferFails \/ CancelOutgoing

DestNext ==
  \/ Receive \/ ReceiveFails \/ ReceiveLock \/ ReceiveField \/ UnpackFails \/ Unpack
  \/ Tell \/ Unflag \/ CancelIncoming

\* A node that goes down takes its end of the transfer with it.
GoesDown(n) ==
  /\ Crash(n) \/ HostCrash(n)
  /\ sender' = IF n = Home THEN "idle" ELSE sender
  /\ receiver' = IF n = Dest THEN "idle" ELSE receiver
  /\ broken' = (broken \/ stream # "none")
  /\ stream' = IF n = Dest THEN "none" ELSE stream
  /\ UNCHANGED <<transfer, vacant>>

\* The panel deletes the server where it no longer is.
DeleteMoved == transfer = "moved" /\ at # Home /\ Delete(Home)

NodesNext(n) ==
  /\ \/ Start(n) \/ StartSteps(n) \/ SeeRunning(n) \/ SeeEnded(n)
     \/ DestroySteps(n) \/ BootSteps(n) \/ Settle(n)
     \/ DeleteMoved
  /\ UNCHANGED moving

TransferNext ==
  \/ SourceNext \/ DestNext
  \/ \E n \in Node : NodesNext(n) \/ GoesDown(n)

TransferSpec == TransferInit /\ [][TransferNext]_allVars

(***************************************************************************)
(* Properties                                                              *)
(***************************************************************************)

\* As long as the panel has the server at its source, all of its files are there, and once
\* it has it at the destination, so is everything that a transfer carries: whatever fails,
\* is cancelled, or goes down while it moves, and whoever reports first; unless a stream
\* broke off before the archive began.
FilesKept ==
  /\ TransferTypeOK
  /\ at = Home => files[Home] = "whole"
  /\ at = Dest /\ ~vacant => files[Dest] = "copy"
=============================================================================
