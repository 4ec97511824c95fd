----------------------------- MODULE Maintenance -----------------------------
(***************************************************************************)
(* The locked states of one server: installation and reinstallation        *)
(* (server/installation.rs), restoring a backup (server/backup/mod.rs),    *)
(* outgoing transfers and their cancellation (server/transfer.rs and its   *)
(* route), and start, which they keep out.  Four flags make up             *)
(* is_locked_state; each operation checks them all and then sets its own.  *)
(*                                                                         *)
(* Power shows what start and stop_with_kill_timeout do; here they are     *)
(* reduced to what becomes of the server's process.  A step is the code    *)
(* between two await points, split between the check of the flags and the  *)
(* store of one.  Deleting a server is left out, and so is a client of the *)
(* transfer route that leaves between the flag and the slot.               *)
(***************************************************************************)
EXTENDS Naturals, FiniteSets

CONSTANTS
  Op,      \* operations under way at a time
  NoOp,
  Kinds    \* bound: the operations that begin, a part of AllKinds

AllKinds == {"start", "install", "reinstall", "restore", "transfer", "cancel", "sync"}

ASSUME MaintenanceAssumption == NoOp \notin Op /\ Kinds \subseteq AllKinds

VARIABLES
  suspended, installing, restoring, transferring,  \* the flags
  outgoing_transfer,  \* the transfer in the server's slot
  process,            \* the server: "none", "starting" or "running"
  installer,          \* Docker: whose installer container exists
  task,               \* the operations
  serial              \* history: every operation found what it had checked for

flags == <<suspended, installing, restoring, transferring>>
vars  == <<flags, outgoing_transfer, process, installer, task, serial>>

\* Where an operation stands; "dead" is a task that panicked.
PC == {"idle", "dead",
       "start", "claim", "remove", "configure", "launch",
       "request", "stop", "sync",
       "check", "flag",
       "script", "create", "run", "unset", "cleanup",
       "restore", "archive", "failing",
       "cancel", "take"}

\* A transfer whose handler has yet to put it into the slot is pending; a
\* cancellation remembers (for serial) what was in the slot when it began.
TaskRecord == [kind : AllKinds, pc : PC, pending : BOOLEAN, seen : Op \cup {NoOp}]
Idle == [kind |-> "sync", pc |-> "idle", pending |-> FALSE, seen |-> NoOp]

TypeOK ==
  /\ suspended \in BOOLEAN
  /\ installing \in BOOLEAN
  /\ restoring \in BOOLEAN
  /\ transferring \in BOOLEAN
  /\ outgoing_transfer \in Op \cup {NoOp}
  /\ process \in {"none", "starting", "running"}
  /\ installer \in Op \cup {NoOp}
  /\ task \in [Op -> TaskRecord]
  /\ serial \in BOOLEAN

Init ==
  /\ suspended = FALSE
  /\ installing = FALSE
  /\ restoring = FALSE
  /\ transferring = FALSE
  /\ outgoing_transfer = NoOp
  /\ process = "none"
  /\ installer = NoOp
  /\ task = [t \in Op |-> Idle]
  /\ serial = TRUE

At(t, pc)     == task[t].pc = pc
Is(t, kind)   == task[t].kind = kind
Installs(t)   == task[t].kind \in {"install", "reinstall"}
Goto(t, pc)   == task' = [task EXCEPT ![t].pc = pc]

\* Mutant of Locked: a restore is forgotten.
LockedUnrestored == suspended \/ installing \/ transferring

\* is_locked_state
Locked == suspended \/ installing \/ restoring \/ transferring

\* The task ends; its handler may still have the slot to fill.
Ended(r) == IF r.pending THEN [r EXCEPT !.pc = "idle"] ELSE Idle
Return(t) == task' = [task EXCEPT ![t] = Ended(@)]

\* Dropping an OutgoingServerTransfer aborts its task, wherever that stands.
Aborted(t) == IF t = NoOp THEN task ELSE [task EXCEPT ![t] = Ended(@)]

FirstPC(k) ==
  CASE k = "start"     -> "start"
    [] k = "reinstall" -> "request"
    [] k = "cancel"    -> "cancel"
    [] k = "sync"      -> "sync"
    [] OTHER           -> "check"

\* A request arrives, or the monitor starts the server.  A name that something
\* still refers to is not used again.
Begin(t, k) ==
  /\ task[t] = Idle
  /\ t \notin {outgoing_transfer, installer} \cup {task[u].seen : u \in Op}
  /\ task' = [task EXCEPT ![t] = [Idle EXCEPT !.kind = k, !.pc = FirstPC(k)]]
  /\ UNCHANGED <<flags, outgoing_transfer, process, installer, serial>>

(***************************************************************************)
(* start, as far as it matters here                                        *)
(***************************************************************************)

\* Refused in a locked state, when not offline, or when the disk is full.
StartCheck(t) ==
  /\ At(t, "start")
  /\ \/ Return(t)
     \/ ~Locked /\ process = "none" /\ Goto(t, "claim")
  /\ UNCHANGED <<flags, outgoing_transfer, process, installer, serial>>

\* execute_action: the flags are not looked at again.  Of the starts that have come this
\* far one goes on: the lock refuses the others; those that outwait it are in Power.
StartClaim(t) ==
  /\ At(t, "claim")
  /\ IF process = "none"
     THEN /\ process' = "starting"
          /\ serial' = (serial /\ ~Locked)
          /\ Goto(t, "remove")
     ELSE Return(t) /\ UNCHANGED <<process, serial>>
  /\ UNCHANGED <<flags, outgoing_transfer, installer>>

\* destroy_container removes every container with the server's id in its name,
\* an installer included.
StartRemove(t) ==
  /\ At(t, "remove")
  /\ installer' \in {installer, NoOp}
  /\ Goto(t, "configure")
  /\ UNCHANGED <<flags, outgoing_transfer, process, serial>>

\* sync_configuration stores what the panel says of the suspension.
StartConfigure(t) ==
  /\ At(t, "configure")
  /\ suspended' \in BOOLEAN
  /\ Goto(t, "launch")
  /\ UNCHANGED <<installing, restoring, transferring, outgoing_transfer, process,
                 installer, serial>>

\* A start that is interrupted by a kill or fails leaves no process.
StartLaunch(t) ==
  /\ At(t, "launch")
  /\ process' \in {"running", "none"}
  /\ Return(t)
  /\ UNCHANGED <<flags, outgoing_transfer, installer, serial>>

Exit ==
  /\ process = "running"
  /\ process' = "none"
  /\ UNCHANGED <<flags, outgoing_transfer, installer, task, serial>>

(***************************************************************************)
(* Requests, stop_with_kill_timeout, sync_configuration                    *)
(***************************************************************************)

\* The handler of reinstall checks the flags before it stops the server.
Request(t) ==
  /\ At(t, "request")
  /\ IF Locked THEN Return(t) ELSE Goto(t, "stop")
  /\ UNCHANGED <<flags, outgoing_transfer, process, installer, serial>>

AfterStop(t) ==
  CASE Is(t, "reinstall") -> "sync"
    [] Is(t, "restore")   -> "restore"
    [] OTHER              -> "archive"

\* The process ends, or survives because signal and kill fail; a start that is
\* under way goes on.
Stop(t) ==
  /\ At(t, "stop")
  /\ process' \in IF process = "running" THEN {"running", "none"} ELSE {process}
  /\ serial' = (serial /\ process' = "none")
  /\ Goto(t, AfterStop(t))
  /\ UNCHANGED <<flags, outgoing_transfer, installer>>

\* The container of a server that is not offline may be gone: unwrap panics.
StopPanics(t) ==
  /\ At(t, "stop")
  /\ process # "none"
  /\ Goto(t, "dead")
  /\ UNCHANGED <<flags, outgoing_transfer, process, installer, serial>>

\* The panel's configuration is fetched and stored; a reinstall goes on to
\* install_server in a task of its own.
Sync(t) ==
  /\ At(t, "sync")
  /\ suspended' \in BOOLEAN
  /\ IF Is(t, "reinstall") THEN Goto(t, "check") ELSE Return(t)
  /\ UNCHANGED <<installing, restoring, transferring, outgoing_transfer, process,
                 installer, serial>>

\* The client of a reinstall closes the connection.
Disconnect(t) ==
  /\ Is(t, "reinstall")
  /\ task[t].pc \in {"stop", "sync"}
  /\ Return(t)
  /\ UNCHANGED <<flags, outgoing_transfer, process, installer, serial>>

\* install_server, restore and the transfer route check the flags ...
Check(t) ==
  /\ At(t, "check")
  /\ IF Locked THEN Return(t) ELSE Goto(t, "flag")
  /\ UNCHANGED <<flags, outgoing_transfer, process, installer, serial>>

(***************************************************************************)
(* Installation                                                            *)
(***************************************************************************)

\* ... and set their own.  An installation stops nothing: a new server is not
\* running, a reinstall has stopped it before.
InstallFlag(t) ==
  /\ At(t, "flag")
  /\ Installs(t)
  /\ installing' = TRUE
  /\ serial' = (serial /\ ~Locked /\ process = "none")
  /\ Goto(t, "script")
  /\ UNCHANGED <<suspended, restoring, transferring, outgoing_transfer, process,
                 installer>>

\* The script is fetched; skipped scripts and errors lead to the end.
Script(t) ==
  /\ At(t, "script")
  /\ \/ Goto(t, "create")
     \/ Goto(t, "unset")
  /\ UNCHANGED <<flags, outgoing_transfer, process, installer, serial>>

\* There can be one container with the installer's name.
CreateInstaller(t) ==
  /\ At(t, "create")
  /\ installer = NoOp
  /\ installer' = t
  /\ Goto(t, "run")
  /\ UNCHANGED <<flags, outgoing_transfer, process, serial>>

CreateFails(t) ==
  /\ At(t, "create")
  /\ Goto(t, "unset")
  /\ UNCHANGED <<flags, outgoing_transfer, process, installer, serial>>

\* The installer cannot be started: unwrap panics.
InstallPanics(t) ==
  /\ At(t, "run")
  /\ Goto(t, "dead")
  /\ UNCHANGED <<flags, outgoing_transfer, process, installer, serial>>

\* Mutant of InstallEnds: the timeout is not looked at.
InstallEndsWell(t) ==
  /\ At(t, "run")
  /\ installer = NoOp
  /\ Goto(t, "unset")
  /\ UNCHANGED <<flags, outgoing_transfer, process, installer, serial>>

\* The script ends, or 15 minutes have passed.
InstallEnds(t) ==
  /\ At(t, "run")
  /\ Goto(t, "unset")
  /\ UNCHANGED <<flags, outgoing_transfer, process, installer, serial>>

\* unset_installing clears the flag first and cleans up afterwards.
Unset(t) ==
  /\ At(t, "unset")
  /\ installing' = FALSE
  /\ Goto(t, "cleanup")
  /\ UNCHANGED <<suspended, restoring, transferring, outgoing_transfer, process,
                 installer, serial>>

\* The container is removed, which may fail, and the panel told.
Cleanup(t) ==
  /\ At(t, "cleanup")
  /\ installer' \in IF installer = t THEN {t, NoOp} ELSE {installer}
  /\ Return(t)
  /\ UNCHANGED <<flags, outgoing_transfer, process, serial>>

(***************************************************************************)
(* Restoring a backup                                                      *)
(***************************************************************************)
RestoreFlag(t) ==
  /\ At(t, "flag")
  /\ Is(t, "restore")
  /\ restoring' = TRUE
  /\ serial' = (serial /\ ~Locked)
  /\ Goto(t, "stop")
  /\ UNCHANGED <<suspended, installing, transferring, outgoing_transfer, process,
                 installer>>

\* Whether it went well or not.
RestoreEnds(t) ==
  /\ At(t, "restore")
  /\ restoring' = FALSE
  /\ Return(t)
  /\ UNCHANGED <<suspended, installing, transferring, outgoing_transfer, process,
                 installer, serial>>

(***************************************************************************)
(* Outgoing transfers                                                      *)
(***************************************************************************)

\* The task is spawned; the handler goes on to the slot.
TransferFlag(t) ==
  /\ At(t, "flag")
  /\ Is(t, "transfer")
  /\ transferring' = TRUE
  /\ serial' = (serial /\ ~Locked)
  /\ task' = [task EXCEPT ![t].pc = "stop", ![t].pending = TRUE]
  /\ UNCHANGED <<suspended, installing, restoring, outgoing_transfer, process,
                 installer>>

Transfers(t) == Is(t, "transfer") /\ task[t].pc \in {"stop", "archive", "failing", "dead"}

\* Nothing but t's own transfer would be aborted by dropping what is in the slot.
SlotIsFor(t) ==
  outgoing_transfer \notin {NoOp, t} => ~Transfers(outgoing_transfer)

\* The handler stores the transfer, running or not; one that was there before
\* is dropped.
StoreTransfer(t) ==
  /\ task[t].pending
  /\ outgoing_transfer' = t
  /\ serial' = (serial /\ SlotIsFor(t))
  /\ task' = [Aborted(outgoing_transfer) EXCEPT
                ![t] = IF At(t, "idle") THEN Idle ELSE [@ EXCEPT !.pending = FALSE]]
  /\ UNCHANGED <<flags, process, installer>>

\* The archive has been sent; the slot is left as it is.
TransferEnds(t) ==
  /\ At(t, "archive")
  /\ transferring' = FALSE
  /\ Return(t)
  /\ UNCHANGED <<suspended, installing, restoring, outgoing_transfer, process,
                 installer, serial>>

\* The archive cannot be written: the panel is told ...
ArchiveFails(t) ==
  /\ At(t, "archive")
  /\ Goto(t, "failing")
  /\ UNCHANGED <<flags, outgoing_transfer, process, installer, serial>>

\* ... then the slot is emptied, whosever transfer is in it.
TransferFails(t) ==
  /\ At(t, "failing")
  /\ transferring' = FALSE
  /\ outgoing_transfer' = NoOp
  /\ serial' = (serial /\ SlotIsFor(t))
  /\ task' = [Aborted(outgoing_transfer) EXCEPT ![t] = Ended(@)]
  /\ UNCHANGED <<suspended, installing, restoring, process, installer>>

\* Mutant of Cancel: the flag is left to the aborted task.
CancelKept(t) ==
  /\ At(t, "cancel")
  /\ IF transferring
     THEN task' = [task EXCEPT ![t].pc = "take", ![t].seen = outgoing_transfer]
     ELSE Return(t)
  /\ UNCHANGED <<flags, outgoing_transfer, process, installer, serial>>

\* The request to cancel clears the flag ...
Cancel(t) ==
  /\ At(t, "cancel")
  /\ IF transferring
     THEN /\ transferring' = FALSE
          /\ task' = [task EXCEPT ![t].pc = "take", ![t].seen = outgoing_transfer]
     ELSE Return(t) /\ UNCHANGED transferring
  /\ UNCHANGED <<suspended, installing, restoring, outgoing_transfer, process,
                 installer, serial>>

\* ... and aborts what is in the slot now.
TakeTransfer(t) ==
  /\ At(t, "take")
  /\ outgoing_transfer' = NoOp
  /\ serial' = (serial /\ outgoing_transfer = task[t].seen
                       /\ \A u \in Op : Transfers(u) => u = outgoing_transfer)
  /\ task' = [Aborted(outgoing_transfer) EXCEPT ![t] = Idle]
  /\ UNCHANGED <<flags, process, installer>>

(***************************************************************************)
(* Specification                                                           *)
(***************************************************************************)
Steps(t) ==
  \/ StartCheck(t) \/ StartClaim(t) \/ StartRemove(t) \/ StartConfigure(t)
  \/ StartLaunch(t)
  \/ Request(t) \/ Stop(t) \/ Sync(t) \/ Check(t)
  \/ InstallFlag(t) \/ Script(t) \/ CreateInstaller(t) \/ CreateFails(t)
  \/ InstallEnds(t) \/ Unset(t) \/ Cleanup(t)
  \/ RestoreFlag(t) \/ RestoreEnds(t)
  \/ TransferFlag(t) \/ TransferFails(t)
  \/ Cancel(t) \/ TakeTransfer(t)

Failures(t) == StopPanics(t) \/ InstallPanics(t) \/ ArchiveFails(t)

Next ==
  \/ \E t \in Op :
       \/ \E k \in Kinds : Begin(t, k)
       \/ Steps(t)
       \/ Failures(t)
       \/ StoreTransfer(t)
       \/ TransferEnds(t)
       \/ Disconnect(t)
  \/ Exit

Spec == Init /\ [][Next]_vars

\* The executor, Docker, the panel and file operations make progress, and the
\* installer has a timeout; a destination may take a transfer for ever.
Fairness == \A t \in Op : WF_vars(Steps(t))

LiveSpec == Spec /\ Fairness

(***************************************************************************)
(* Properties                                                              *)
(***************************************************************************)
Dead == {t \in Op : At(t, "dead")}

\* Operations that work on the server's files.  A transfer that is just being
\* cancelled is no longer counted, nor an installer whose 15 minutes are over: it
\* lives on until Cleanup although the flag is clear.
Working ==
  {t \in Op :
     \/ At(t, "run") /\ installer = t
     \/ At(t, "restore")
     \/ At(t, "archive") /\ \A u \in Op : ~At(u, "take")}

\* As long as operations found what they had checked for and stops stopped the
\* server, an installer, a restore or a transfer has the files to itself: no two
\* of them work at the same time, and the server is neither running nor starting.
Exclusive ==
  serial => /\ \A t, u \in Working : t = u
            /\ Working # {} => process = "none"

\* Under the same condition, a set flag belongs to an operation that will clear
\* it, unless that operation panicked; and all values have their types.
FlagsOwned ==
  /\ TypeOK
  /\ serial =>
       /\ installing => \E t \in Op : Installs(t)
                          /\ task[t].pc \in {"script", "create", "run", "unset", "dead"}
       /\ restoring => \E t \in Op : Is(t, "restore")
                          /\ task[t].pc \in {"stop", "restore", "dead"}
       /\ transferring => \E t \in Op : Transfers(t)

\* Whatever overlaps, a server does not stay locked by an installation or a
\* restore unless one of its operations panicked.
LocksReleased ==
  /\ installing ~> ~installing \/ Dead # {}
  /\ restoring ~> ~restoring \/ Dead # {}
=============================================================================
