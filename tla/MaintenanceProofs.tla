-------------------------- MODULE MaintenanceProofs --------------------------
(***************************************************************************)
(* Proofs about Maintenance, for any number of operations of every kind.   *)
(***************************************************************************)
EXTENDS Maintenance, TLAPS

(***************************************************************************)
(* The inductive invariant                                                 *)
(***************************************************************************)

\* Operations that have set their flag and are to clear it.
Installing(t) == Installs(t) /\ task[t].pc \in {"script", "create", "run", "unset"}
Restoring(t)  == Is(t, "restore") /\ task[t].pc \in {"stop", "restore"}
Sending(t)    == Is(t, "transfer") /\ task[t].pc \in {"stop", "archive", "failing"}
Starting(t)   == task[t].pc \in {"remove", "configure", "launch"}

\* A cancellation has cleared the flag and is to abort what is in the slot.
Taking == \E v \in Op : At(v, "take")

\* What an operation is says where it can stand; only the handler of a transfer is pending,
\* and only a cancellation remembers a transfer.
Fits(r) ==
  /\ r.pc \in {"start", "claim", "remove", "configure", "launch"} => r.kind = "start"
  /\ r.pc = "request" => r.kind = "reinstall"
  /\ r.pc = "stop" => r.kind \in {"reinstall", "restore", "transfer"}
  /\ r.pc = "sync" => r.kind \in {"reinstall", "sync"}
  /\ r.pc \in {"check", "flag"} => r.kind \in {"install", "reinstall", "restore", "transfer"}
  /\ r.pc \in {"script", "create", "run", "unset", "cleanup"} => r.kind \in {"install", "reinstall"}
  /\ r.pc = "restore" => r.kind = "restore"
  /\ r.pc \in {"archive", "failing"} => r.kind = "transfer"
  /\ r.pc \in {"cancel", "take"} => r.kind = "cancel"
  /\ r.pending => r.kind = "transfer" /\ r.pc \in {"stop", "archive", "failing", "dead", "idle"}
  /\ r.seen # NoOp => r.pc = "take"

Kept == \A t \in Op : Fits(task[t])

\* A transfer that was begun, or the name of one that is over.
Sent(t) == \/ task[t] = Idle
           \/ Is(t, "transfer") /\ task[t].pc \in {"stop", "archive", "failing", "dead", "idle"}

\* What the slot holds and what a cancellation remembers is a transfer; its handler has
\* nothing left to store.
Referred ==
  /\ outgoing_transfer # NoOp => Sent(outgoing_transfer) /\ ~task[outgoing_transfer].pending
  /\ \A v \in Op : task[v].seen # NoOp => Sent(task[v].seen)

\* A server that is starting has one operation that starts it.
OneStart ==
  /\ \A t \in Op : Starting(t) => process = "starting"
  /\ \A t, u \in Op : Starting(t) /\ Starting(u) => t = u

\* One flag at a time, and an operation that is to clear a flag finds it set; the flag of a
\* transfer may be clear while a cancellation is to abort it.
Flagged ==
  /\ ~(installing /\ restoring) /\ ~(installing /\ transferring) /\ ~(restoring /\ transferring)
  /\ \A t \in Op : Installing(t) => installing
  /\ \A t \in Op : Restoring(t) => restoring
  /\ \A t \in Op : Sending(t) => transferring \/ Taking

\* One operation of a kind at a time, unless a cancellation is to abort a transfer.
Alone ==
  /\ \A t, u \in Op : Installing(t) /\ Installing(u) => t = u
  /\ \A t, u \in Op : Restoring(t) /\ Restoring(u) => t = u
  /\ \A t, u \in Op : Sending(t) /\ Sending(u) => t = u \/ Taking

\* The server is down while the files are being worked on.
Offline ==
  /\ \A t \in Op : Installing(t) => process = "none"
  /\ \A t \in Op : At(t, "restore") => process = "none"
  /\ \A t \in Op : At(t, "archive") => process = "none" \/ Taking

\* A flag has an operation that is to clear it, or one that panicked; that of a transfer is
\* not the flag of a transfer that is being cancelled.
Owned ==
  /\ installing => \E t \in Op : Installing(t) \/ (Installs(t) /\ At(t, "dead"))
  /\ restoring => \E t \in Op : Restoring(t) \/ (Is(t, "restore") /\ At(t, "dead"))
  /\ transferring => \E t \in Op : Transfers(t) /\ \A v \in Op : task[v].seen # t

Guarded == Flagged /\ Alone /\ Offline /\ Owned

Inv ==
  /\ TypeOK
  /\ Kept
  /\ Referred
  /\ OneStart
  /\ serial => Guarded

(***************************************************************************)
(* How the records of the operations change                                *)
(***************************************************************************)
Others(t) == task' \in [Op -> TaskRecord] /\ \A u \in Op : u # t => task'[u] = task[u]

\* An operation goes on to pc.
Moved(t, pc) ==
  /\ task'[t].pc = pc /\ task'[t].kind = task[t].kind
  /\ task'[t].pending = task[t].pending /\ task'[t].seen = task[t].seen
  /\ Others(t)

\* An operation is over; a handler that has yet to fill the slot remains.
Over(t) ==
  /\ \/ task'[t] = Idle
     \/ /\ task[t].pending /\ task'[t].pc = "idle" /\ task'[t].kind = task[t].kind
        /\ task'[t].pending /\ task'[t].seen = task[t].seen
  /\ Others(t)

\* The record of a task that does nothing.
LEMMA IdleIsRecord ==
  /\ Idle \in TaskRecord /\ Fits(Idle)
  /\ Idle.kind = "sync" /\ Idle.pc = "idle" /\ ~Idle.pending /\ Idle.seen = NoOp
  BY DEF Idle, TaskRecord, AllKinds, PC, Fits

\* What becomes of a record.
LEMMA EndedIsRecord ==
  ASSUME NEW r \in TaskRecord
  PROVE  /\ Ended(r) \in TaskRecord
         /\ \/ Ended(r) = Idle
            \/ /\ r.pending /\ Ended(r).pc = "idle" /\ Ended(r).kind = r.kind
               /\ Ended(r).pending /\ Ended(r).seen = r.seen
  BY IdleIsRecord DEF Ended, TaskRecord, PC

\* What becomes of the operations in one step.
LEMMA Records ==
  ASSUME TypeOK, NEW t \in Op
  PROVE  /\ \A pc \in PC : Goto(t, pc) => Moved(t, pc)
         /\ Return(t) => Over(t)
<1>1. ASSUME NEW pc \in PC, Goto(t, pc)
      PROVE  Moved(t, pc)
  BY <1>1 DEF TypeOK, Goto, TaskRecord, Moved, Others
<1>2. ASSUME Return(t)
      PROVE  Over(t)
  BY <1>2, EndedIsRecord DEF TypeOK, Return, Over, Others
<1>3. QED
  BY <1>1, <1>2

\* Where the steps lead that change one record only, and of it only where it stands.
LEMMA Moves ==
  ASSUME TypeOK, NEW t \in Op
  PROVE  /\ StartCheck(t) => Moved(t, "claim") \/ Over(t)
         /\ StartClaim(t) => Moved(t, "remove") \/ Over(t)
         /\ StartRemove(t) => Moved(t, "configure")
         /\ StartConfigure(t) => Moved(t, "launch")
         /\ StartLaunch(t) => Over(t)
         /\ Request(t) => Moved(t, "stop") \/ Over(t)
         /\ Stop(t) => Moved(t, AfterStop(t))
         /\ StopPanics(t) => Moved(t, "dead")
         /\ Sync(t) => (Is(t, "reinstall") /\ Moved(t, "check")) \/ Over(t)
         /\ Disconnect(t) => Over(t)
         /\ Check(t) => Moved(t, "flag") \/ Over(t)
         /\ InstallFlag(t) => Moved(t, "script")
         /\ Script(t) => Moved(t, "create") \/ Moved(t, "unset")
         /\ CreateInstaller(t) => Moved(t, "run")
         /\ CreateFails(t) => Moved(t, "unset")
         /\ InstallEnds(t) => Moved(t, "unset")
         /\ InstallPanics(t) => Moved(t, "dead")
         /\ Unset(t) => Moved(t, "cleanup")
         /\ Cleanup(t) => Over(t)
         /\ RestoreFlag(t) => Moved(t, "stop")
         /\ RestoreEnds(t) => Over(t)
         /\ TransferEnds(t) => Over(t)
         /\ ArchiveFails(t) => Moved(t, "failing")
<1>1. {"claim", "remove", "configure", "launch", "stop", "dead", "check", "flag", "script",
       "create", "unset", "run", "cleanup", "failing", AfterStop(t)} \subseteq PC
  BY DEF PC, AfterStop
<1>2. QED
  BY <1>1, Records
     DEF StartCheck, StartClaim, StartRemove, StartConfigure, StartLaunch, Request, Stop,
         StopPanics, Sync, Disconnect, Check, InstallFlag, Script, CreateInstaller, CreateFails,
         InstallEnds, InstallPanics, Unset, Cleanup, RestoreFlag, RestoreEnds, TransferEnds,
         ArchiveFails

\* The transfer in the slot is dropped: its task is over, and its handler has stored it.
LEMMA Dropped ==
  ASSUME TypeOK, Referred
  PROVE  /\ Aborted(outgoing_transfer) \in [Op -> TaskRecord]
         /\ outgoing_transfer # NoOp => Aborted(outgoing_transfer)[outgoing_transfer] = Idle
         /\ \A u \in Op : u # outgoing_transfer => Aborted(outgoing_transfer)[u] = task[u]
  BY IdleIsRecord DEF TypeOK, Referred, Aborted, Ended

\* A request arrives.
LEMMA Begins ==
  ASSUME TypeOK, NEW t \in Op, NEW k \in Kinds, Begin(t, k)
  PROVE  /\ task'[t] = [Idle EXCEPT !.kind = k, !.pc = FirstPC(k)] /\ Others(t)
         /\ task'[t].pc = FirstPC(k) /\ task'[t].seen = NoOp
<1>1. [Idle EXCEPT !.kind = k, !.pc = FirstPC(k)] \in TaskRecord
  BY MaintenanceAssumption, IdleIsRecord DEF Idle, TaskRecord, PC, AllKinds, FirstPC
<1>2. /\ [Idle EXCEPT !.kind = k, !.pc = FirstPC(k)].pc = FirstPC(k)
      /\ [Idle EXCEPT !.kind = k, !.pc = FirstPC(k)].seen = NoOp
  BY DEF Idle
<1>3. QED
  BY <1>1, <1>2 DEF Begin, TypeOK, Others

\* A transfer sets its flag.
LEMMA TransferBegins ==
  ASSUME TypeOK, NEW t \in Op, TransferFlag(t)
  PROVE  /\ task'[t].kind = "transfer" /\ task'[t].pc = "stop" /\ task'[t].pending
         /\ task'[t].seen = task[t].seen /\ Others(t)
<1>1. [task EXCEPT ![t].pc = "stop"] \in [Op -> TaskRecord]
  BY DEF TypeOK, TaskRecord, PC
<1>2. [task EXCEPT ![t].pc = "stop", ![t].pending = TRUE] \in [Op -> TaskRecord]
  BY <1>1 DEF TaskRecord
<1>3. QED
  BY <1>2 DEF TransferFlag, Is, TypeOK, TaskRecord, Others

\* A transfer is put into the slot.
LEMMA Stores ==
  ASSUME TypeOK, Referred, NEW t \in Op, StoreTransfer(t)
  PROVE  /\ \A u \in Op \ {t} : task'[u] = IF u = outgoing_transfer THEN Idle ELSE task[u]
         /\ outgoing_transfer # t
         /\ IF At(t, "idle") THEN task'[t] = Idle
            ELSE /\ task'[t].pc = task[t].pc /\ task'[t].kind = task[t].kind
                 /\ ~task'[t].pending /\ task'[t].seen = task[t].seen
         /\ task' \in [Op -> TaskRecord]
<1>1. outgoing_transfer # t /\ outgoing_transfer \in Op \cup {NoOp}
  BY MaintenanceAssumption DEF StoreTransfer, Referred, TypeOK
<1>2. [task[t] EXCEPT !.pending = FALSE] \in TaskRecord
  BY DEF TypeOK, TaskRecord
<1>3. task' = [Aborted(outgoing_transfer) EXCEPT
                 ![t] = IF At(t, "idle") THEN Idle ELSE [task[t] EXCEPT !.pending = FALSE]]
  BY <1>1, Dropped DEF StoreTransfer
<1>4. /\ task' \in [Op -> TaskRecord]
      /\ task'[t] = IF At(t, "idle") THEN Idle ELSE [task[t] EXCEPT !.pending = FALSE]
      /\ \A u \in Op : u # t => task'[u] = Aborted(outgoing_transfer)[u]
  BY <1>2, <1>3, Dropped, IdleIsRecord
<1>5. /\ [task[t] EXCEPT !.pending = FALSE].pc = task[t].pc
      /\ [task[t] EXCEPT !.pending = FALSE].kind = task[t].kind
      /\ ~[task[t] EXCEPT !.pending = FALSE].pending
      /\ [task[t] EXCEPT !.pending = FALSE].seen = task[t].seen
  BY DEF TypeOK, TaskRecord
<1>6. QED
  BY <1>1, <1>4, <1>5, Dropped, MaintenanceAssumption

\* A transfer that failed empties the slot.
LEMMA Fails ==
  ASSUME TypeOK, Referred, NEW t \in Op, TransferFails(t)
  PROVE  /\ \A u \in Op \ {t} : task'[u] = IF u = outgoing_transfer THEN Idle ELSE task[u]
         /\ \/ task'[t] = Idle
            \/ /\ task[t].pending /\ task'[t].pc = "idle" /\ task'[t].kind = task[t].kind
               /\ task'[t].pending /\ task'[t].seen = task[t].seen
         /\ task' \in [Op -> TaskRecord]
<1> DEFINE a == Aborted(outgoing_transfer)
<1>1. task' = [a EXCEPT ![t] = Ended(a[t])]
  BY DEF TransferFails
<1>2. Ended(Idle) = Idle
  BY DEF Ended, Idle
<1>3. outgoing_transfer \in Op \cup {NoOp} /\ task[t] \in TaskRecord
  BY DEF TypeOK
<1>4. a \in [Op -> TaskRecord] /\ a[t] \in {Idle, task[t]}
  BY <1>3, Dropped, MaintenanceAssumption
<1>5. /\ Ended(a[t]) \in TaskRecord
      /\ \/ Ended(a[t]) = Idle
         \/ /\ task[t].pending /\ Ended(a[t]).pc = "idle" /\ Ended(a[t]).kind = task[t].kind
            /\ Ended(a[t]).pending /\ Ended(a[t]).seen = task[t].seen
  BY <1>2, <1>3, <1>4, EndedIsRecord, IdleIsRecord
<1>6. /\ task' \in [Op -> TaskRecord] /\ task'[t] = Ended(a[t])
      /\ \A u \in Op : u # t => task'[u] = a[u]
  BY <1>1, <1>4, <1>5
<1>7. QED
  BY <1>3, <1>5, <1>6, Dropped, MaintenanceAssumption

\* A cancellation clears the flag.
LEMMA Cancels ==
  ASSUME TypeOK, NEW t \in Op, Cancel(t)
  PROVE  \/ /\ transferring /\ task'[t].pc = "take" /\ task'[t].kind = task[t].kind
            /\ task'[t].pending = task[t].pending /\ task'[t].seen = outgoing_transfer
            /\ Others(t)
         \/ ~transferring /\ Over(t)
  BY Records DEF Cancel, TypeOK, TaskRecord, PC, Others

\* A cancellation empties the slot.
LEMMA Takes ==
  ASSUME TypeOK, Referred, NEW t \in Op, TakeTransfer(t)
  PROVE  /\ \A u \in Op \ {t} : task'[u] = IF u = outgoing_transfer THEN Idle ELSE task[u]
         /\ task'[t] = Idle
         /\ task' \in [Op -> TaskRecord]
  BY Dropped, IdleIsRecord, MaintenanceAssumption DEF TakeTransfer, TypeOK

(***************************************************************************)
(* Types, and where operations stand                                       *)
(***************************************************************************)

\* The values of what is not a record.
Values ==
  /\ suspended \in BOOLEAN /\ installing \in BOOLEAN
  /\ restoring \in BOOLEAN /\ transferring \in BOOLEAN
  /\ outgoing_transfer \in Op \cup {NoOp}
  /\ process \in {"none", "starting", "running"}
  /\ installer \in Op \cup {NoOp} /\ serial \in BOOLEAN

\* Every step keeps the values of the variables.
LEMMA ValuesStep == Values /\ [Next]_vars => Values'
<1> SUFFICES ASSUME Values, [Next]_vars
             PROVE  Values'
  OBVIOUS
<1> USE DEF Values, flags
<1>1. ASSUME NEW t \in Op, NEW k \in Kinds, Begin(t, k)
      PROVE  Values'
  BY <1>1 DEF Begin
<1>2. ASSUME NEW t \in Op,
             \/ StartCheck(t) \/ StartClaim(t) \/ StartRemove(t) \/ StartConfigure(t)
             \/ StartLaunch(t)
      PROVE  Values'
  BY <1>2 DEF StartCheck, StartClaim, StartRemove, StartConfigure, StartLaunch, Locked
<1>3. ASSUME NEW t \in Op,
             \/ Request(t) \/ Stop(t) \/ StopPanics(t) \/ Sync(t) \/ Disconnect(t) \/ Check(t)
      PROVE  Values'
  BY <1>3 DEF Request, Stop, StopPanics, Sync, Disconnect, Check
<1>4. ASSUME NEW t \in Op,
             \/ InstallFlag(t) \/ Script(t) \/ CreateInstaller(t) \/ CreateFails(t)
             \/ InstallEnds(t) \/ InstallPanics(t) \/ Unset(t) \/ Cleanup(t)
      PROVE  Values'
  BY <1>4 DEF InstallFlag, Script, CreateInstaller, CreateFails, InstallEnds, InstallPanics,
              Unset, Cleanup, Locked
<1>5. ASSUME NEW t \in Op,
             \/ RestoreFlag(t) \/ RestoreEnds(t) \/ TransferFlag(t) \/ TransferEnds(t)
             \/ ArchiveFails(t) \/ StoreTransfer(t) \/ TransferFails(t) \/ Cancel(t)
             \/ TakeTransfer(t)
      PROVE  Values'
  BY <1>5 DEF RestoreFlag, RestoreEnds, TransferFlag, TransferEnds, ArchiveFails,
              StoreTransfer, TransferFails, Cancel, TakeTransfer, Locked, SlotIsFor
<1>6. CASE Exit \/ UNCHANGED vars
  BY <1>6 DEF Exit, vars
<1>7. QED
  BY <1>1, <1>2, <1>3, <1>4, <1>5, <1>6 DEF Next, Steps, Failures

(***************************************************************************)
(* Types, and where operations stand                                       *)
(***************************************************************************)

\* Every step keeps the types, and each operation where it can be.
LEMMA KeptStep == TypeOK /\ Kept /\ Referred /\ [Next]_vars => TypeOK' /\ Kept'
<1> SUFFICES ASSUME TypeOK, Kept, Referred, [Next]_vars
             PROVE  task' \in [Op -> TaskRecord] /\ Kept'
  BY ValuesStep DEF TypeOK, Values
<1> USE IdleIsRecord, Moves
\* One record changes and is of the right kind where it stands now.
<1>0. ASSUME NEW t \in Op, Others(t), Fits(task'[t])
      PROVE  task' \in [Op -> TaskRecord] /\ Kept'
  BY <1>0 DEF Others, Kept
<1>a. ASSUME NEW t \in Op, Over(t)
      PROVE  task' \in [Op -> TaskRecord] /\ Kept'
  BY <1>0, <1>a DEF Over, Fits, Kept
<1>1. ASSUME NEW t \in Op, NEW k \in Kinds, Begin(t, k)
      PROVE  task' \in [Op -> TaskRecord] /\ Kept'
  <2>1. Fits([Idle EXCEPT !.kind = k, !.pc = FirstPC(k)])
    BY MaintenanceAssumption DEF Idle, Fits, FirstPC, AllKinds
  <2>2. QED
    BY <1>0, <1>1, <2>1, Begins
<1>2. ASSUME NEW t \in Op,
             \/ StartCheck(t) \/ StartClaim(t) \/ StartRemove(t) \/ StartConfigure(t)
             \/ StartLaunch(t)
      PROVE  task' \in [Op -> TaskRecord] /\ Kept'
  <2>1. task[t].kind = "start" /\ ~task[t].pending /\ task[t].seen = NoOp
    BY <1>2 DEF StartCheck, StartClaim, StartRemove, StartConfigure, StartLaunch, At, Kept, Fits
  <2>2. Over(t) \/ \E pc \in {"claim", "remove", "configure", "launch"} : Moved(t, pc)
    BY <1>2
  <2>3. QED
    BY <1>0, <1>a, <2>1, <2>2 DEF Moved, Fits
<1>3. ASSUME NEW t \in Op,
             \/ Request(t) \/ Stop(t) \/ StopPanics(t) \/ Sync(t) \/ Disconnect(t) \/ Check(t)
      PROVE  task' \in [Op -> TaskRecord] /\ Kept'
  <2>1. Fits(task[t])
    BY DEF Kept
  <2>2. CASE Over(t)
    BY <1>a, <2>2
  <2>3. CASE Request(t) /\ Moved(t, "stop")
    BY <1>0, <2>1, <2>3 DEF Request, At, Moved, Fits
  <2>4. CASE Stop(t)
    <3>1. Moved(t, AfterStop(t))
      BY <2>4
    <3>2. QED
      BY <1>0, <2>1, <2>4, <3>1 DEF Stop, AfterStop, At, Is, Moved, Fits
  <2>5. CASE StopPanics(t)
    BY <1>0, <2>1, <2>5 DEF StopPanics, At, Moved, Fits
  <2>6. CASE Is(t, "reinstall") /\ Moved(t, "check")
    BY <1>0, <1>3, <2>1, <2>6 DEF Is, Moved, Fits, Sync, At
  <2>7. CASE Check(t) /\ Moved(t, "flag")
    BY <1>0, <2>1, <2>7 DEF Check, At, Moved, Fits
  <2>8. QED
    BY <1>3, <2>2, <2>3, <2>4, <2>5, <2>6, <2>7
<1>4. ASSUME NEW t \in Op,
             \/ InstallFlag(t) \/ Script(t) \/ CreateInstaller(t) \/ CreateFails(t)
             \/ InstallEnds(t) \/ InstallPanics(t) \/ Unset(t) \/ Cleanup(t)
      PROVE  task' \in [Op -> TaskRecord] /\ Kept'
  <2>1. Installs(t) /\ ~task[t].pending /\ task[t].seen = NoOp
    BY <1>4 DEF InstallFlag, Script, CreateInstaller, CreateFails, InstallEnds, InstallPanics,
                Unset, Cleanup, Installs, At, Kept, Fits
  <2>2. Over(t) \/ \E pc \in {"script", "create", "unset", "run", "dead", "cleanup"} : Moved(t, pc)
    BY <1>4
  <2>3. QED
    BY <1>0, <1>a, <2>1, <2>2 DEF Moved, Fits, Installs
<1>5. ASSUME NEW t \in Op,
             RestoreFlag(t) \/ RestoreEnds(t) \/ TransferEnds(t) \/ ArchiveFails(t)
      PROVE  task' \in [Op -> TaskRecord] /\ Kept'
  <2>1. CASE RestoreFlag(t)
    BY <1>0, <2>1 DEF RestoreFlag, At, Is, Moved, Kept, Fits
  <2>2. CASE ArchiveFails(t)
    BY <1>0, <2>2 DEF ArchiveFails, At, Moved, Kept, Fits
  <2>3. QED
    BY <1>5, <1>a, <2>1, <2>2
<1>6. ASSUME NEW t \in Op, TransferFlag(t)
      PROVE  task' \in [Op -> TaskRecord] /\ Kept'
  BY <1>0, <1>6, TransferBegins DEF TransferFlag, Kept, Fits, At
<1>7. ASSUME NEW t \in Op, StoreTransfer(t)
      PROVE  task' \in [Op -> TaskRecord] /\ Kept'
  <2>1. Fits(task'[t])
    BY <1>7, Stores DEF StoreTransfer, Kept, Fits, At
  <2>2. QED
    BY <1>7, <2>1, Stores DEF Kept
<1>8. ASSUME NEW t \in Op, TransferFails(t)
      PROVE  task' \in [Op -> TaskRecord] /\ Kept'
  <2>1. Fits(task'[t])
    <3>1. Fits(task[t]) /\ task[t].pc = "failing"
      BY <1>8 DEF TransferFails, Kept, At
    <3>2. CASE task'[t] = Idle
      BY <3>2
    <3>3. CASE task'[t] # Idle
      BY <1>8, <3>1, <3>3, Fails DEF Fits
    <3>4. QED
      BY <3>2, <3>3
  <2>2. QED
    BY <1>8, <2>1, Fails DEF Kept
<1>9. ASSUME NEW t \in Op, Cancel(t)
      PROVE  task' \in [Op -> TaskRecord] /\ Kept'
  BY <1>0, <1>a, <1>9, Cancels DEF Cancel, Kept, Fits, At
<1>10. ASSUME NEW t \in Op, TakeTransfer(t)
       PROVE  task' \in [Op -> TaskRecord] /\ Kept'
  BY <1>10, Takes DEF Kept
<1>11. CASE Exit \/ UNCHANGED vars
  BY <1>11 DEF Exit, vars, TypeOK, Kept
<1>12. QED
  BY <1>1, <1>2, <1>3, <1>4, <1>5, <1>6, <1>7, <1>8, <1>9, <1>10, <1>11
     DEF Next, Steps, Failures

\* What a slot or a cancellation refers to stays a transfer, until another comes into the
\* slot or the cancellation is over.
LEMMA ReferredStep == TypeOK /\ Kept /\ Referred /\ [Next]_vars => Referred'
<1> SUFFICES ASSUME TypeOK, Kept, Referred, [Next]_vars
             PROVE  Referred'
  OBVIOUS
<1> USE IdleIsRecord, Moves, MaintenanceAssumption
<1>t. outgoing_transfer \in Op \cup {NoOp} /\ \A v \in Op : task[v].seen \in Op \cup {NoOp}
  BY DEF TypeOK, TaskRecord
\* One record changes, of an operation nothing refers to, or of one that remains a transfer.
<1>0. ASSUME NEW t \in Op, Others(t), outgoing_transfer' = outgoing_transfer,
             task'[t].seen = NoOp, ~Sent(t)
      PROVE  Referred'
  BY <1>t, <1>0 DEF Others, Referred, Sent, Is
<1>b. ASSUME NEW t \in Op, Others(t), outgoing_transfer' = outgoing_transfer,
             task'[t].seen = NoOp, Sent(t)', task'[t].pending => task[t].pending
      PROVE  Referred'
  BY <1>t, <1>b DEF Others, Referred, Sent, Is
<1>a. ASSUME NEW t \in Op, Over(t), outgoing_transfer' = outgoing_transfer
      PROVE  Referred'
  <2>1. CASE task'[t] = Idle
    BY <1>a, <1>b, <2>1 DEF Over, Sent
  <2>2. CASE task'[t] # Idle
    BY <1>a, <1>b, <2>2 DEF Over, Sent, Is, Kept, Fits
  <2>3. QED
    BY <2>1, <2>2
<1>1. ASSUME NEW t \in Op, NEW k \in Kinds, Begin(t, k)
      PROVE  Referred'
  <2>1. t # outgoing_transfer /\ \A v \in Op : task[v].seen # t
    BY <1>1 DEF Begin
  <2>2. task'[t].seen = NoOp /\ Others(t) /\ outgoing_transfer' = outgoing_transfer
    BY <1>1, Begins DEF Begin
  <2>3. QED
    BY <1>t, <2>1, <2>2 DEF Referred, Others, Sent, Is
<1>2. ASSUME NEW t \in Op,
             \/ StartCheck(t) \/ StartClaim(t) \/ StartRemove(t) \/ StartConfigure(t)
             \/ StartLaunch(t)
      PROVE  Referred'
  <2>1. ~Sent(t) /\ task[t].seen = NoOp /\ outgoing_transfer' = outgoing_transfer
    BY <1>2 DEF StartCheck, StartClaim, StartRemove, StartConfigure, StartLaunch, At, Kept,
                Fits, Sent, Is
  <2>2. Over(t) \/ \E pc \in {"claim", "remove", "configure", "launch"} : Moved(t, pc)
    BY <1>2
  <2>3. QED
    BY <1>0, <1>a, <2>1, <2>2 DEF Moved
<1>3. ASSUME NEW t \in Op, Request(t) \/ Sync(t) \/ Disconnect(t) \/ Check(t)
      PROVE  Referred'
  <2>1. ~Sent(t) /\ task[t].seen = NoOp /\ outgoing_transfer' = outgoing_transfer
    BY <1>3 DEF Request, Sync, Disconnect, Check, At, Kept, Fits, Sent, Is
  <2>2. Over(t) \/ \E pc \in {"stop", "check", "flag"} : Moved(t, pc)
    BY <1>3
  <2>3. QED
    BY <1>0, <1>a, <2>1, <2>2 DEF Moved
<1>4. ASSUME NEW t \in Op, Stop(t) \/ StopPanics(t) \/ ArchiveFails(t)
      PROVE  Referred'
  <2>1. /\ task[t].pc \in {"stop", "archive"} /\ task[t].seen = NoOp
        /\ outgoing_transfer' = outgoing_transfer
    BY <1>4 DEF Stop, StopPanics, ArchiveFails, At, Kept, Fits
  <2>2. PICK pc \in {"dead", "failing", AfterStop(t)} : Moved(t, pc)
    BY <1>4
  <2>3. CASE Is(t, "transfer")
    <3>1. pc \in {"dead", "failing", "archive"}
      BY <2>3 DEF AfterStop, Is
    <3>2. Sent(t)'
      BY <2>2, <2>3, <3>1 DEF Sent, Is, Moved
    <3>3. QED
      BY <1>b, <2>1, <2>2, <3>2 DEF Moved
  <2>4. CASE ~Is(t, "transfer")
    BY <1>0, <2>1, <2>2, <2>4 DEF Moved, Sent, Is
  <2>5. QED
    BY <2>3, <2>4
<1>5. ASSUME NEW t \in Op,
             \/ InstallFlag(t) \/ Script(t) \/ CreateInstaller(t) \/ CreateFails(t)
             \/ InstallEnds(t) \/ InstallPanics(t) \/ Unset(t) \/ Cleanup(t)
             \/ RestoreFlag(t)
      PROVE  Referred'
  <2>1. ~Sent(t) /\ task[t].seen = NoOp /\ outgoing_transfer' = outgoing_transfer
    BY <1>5 DEF InstallFlag, Script, CreateInstaller, CreateFails, InstallEnds, InstallPanics,
                Unset, Cleanup, RestoreFlag, At, Kept, Fits, Sent, Is, Installs
  <2>2. \/ Over(t)
        \/ \E pc \in {"script", "create", "unset", "run", "dead", "cleanup", "stop"} : Moved(t, pc)
    BY <1>5
  <2>3. QED
    BY <1>0, <1>a, <2>1, <2>2 DEF Moved
<1>6. ASSUME NEW t \in Op, RestoreEnds(t) \/ TransferEnds(t)
      PROVE  Referred'
  BY <1>a, <1>6 DEF RestoreEnds, TransferEnds
<1>7. ASSUME NEW t \in Op, TransferFlag(t)
      PROVE  Referred'
  <2>1. ~Sent(t) /\ task[t].seen = NoOp /\ outgoing_transfer' = outgoing_transfer
    BY <1>7 DEF TransferFlag, At, Kept, Fits, Sent, Is
  <2>2. QED
    BY <1>0, <1>7, <2>1, TransferBegins
<1>8. ASSUME NEW t \in Op, StoreTransfer(t)
      PROVE  Referred'
  <2>1. /\ outgoing_transfer' = t /\ Is(t, "transfer") /\ task[t].seen = NoOp
        /\ task[t].pc \in {"stop", "archive", "failing", "dead", "idle"}
    BY <1>8 DEF StoreTransfer, Kept, Fits, Is
  <2>2. Sent(t)' /\ ~task'[t].pending /\ task'[t].seen = NoOp
    BY <1>8, <2>1, Stores DEF Sent, Is, At
  <2>3. \A u \in Op \ {t} : /\ Sent(u) => Sent(u)'
                            /\ task'[u].seen \in {NoOp, task[u].seen}
    BY <1>8, Stores DEF Sent, Is
  <2>4. QED
    BY <1>t, <2>1, <2>2, <2>3 DEF Referred
<1>9. ASSUME NEW t \in Op, TransferFails(t)
      PROVE  Referred'
  <2>1. outgoing_transfer' = NoOp /\ task[t].pc = "failing" /\ task[t].seen = NoOp
    BY <1>9 DEF TransferFails, At, Kept, Fits
  <2>2. Sent(t)' /\ task'[t].seen = NoOp
    BY <1>9, <2>1, Fails DEF Sent, Is, Kept, Fits
  <2>3. \A u \in Op \ {t} : /\ Sent(u) => Sent(u)'
                            /\ task'[u].seen \in {NoOp, task[u].seen}
    BY <1>9, Fails DEF Sent, Is
  <2>4. QED
    BY <1>t, <2>1, <2>2, <2>3 DEF Referred
<1>10. ASSUME NEW t \in Op, Cancel(t)
       PROVE  Referred'
  <2>1. ~Sent(t) /\ outgoing_transfer' = outgoing_transfer
    BY <1>10 DEF Cancel, At, Kept, Fits, Sent, Is
  <2>2. CASE Over(t)
    BY <1>a, <2>1, <2>2
  <2>3. CASE Others(t) /\ task'[t].seen = outgoing_transfer
    BY <1>t, <2>1, <2>3 DEF Referred, Others, Sent, Is
  <2>4. QED
    BY <1>10, <2>2, <2>3, Cancels
<1>11. ASSUME NEW t \in Op, TakeTransfer(t)
       PROVE  Referred'
  <2>1. outgoing_transfer' = NoOp
    BY <1>11 DEF TakeTransfer
  <2>2. \A u \in Op : /\ Sent(u) => Sent(u)'
                      /\ task'[u].seen \in {NoOp, task[u].seen}
    BY <1>11, Takes DEF Sent, Is
  <2>3. QED
    BY <1>t, <2>1, <2>2 DEF Referred
<1>12. CASE Exit \/ UNCHANGED vars
  BY <1>12 DEF Exit, vars, Referred, Sent, Is
<1>13. QED
  BY <1>1, <1>2, <1>3, <1>4, <1>5, <1>6, <1>7, <1>8, <1>9, <1>10, <1>11, <1>12
     DEF Next, Steps, Failures

(***************************************************************************)
(* Starts                                                                  *)
(***************************************************************************)

\* Only the operation that claimed the server while it was down starts it, and nothing else
\* ends a start.
LEMMA OneStartStep == TypeOK /\ Kept /\ Referred /\ OneStart /\ [Next]_vars => OneStart'
<1> SUFFICES ASSUME TypeOK, Kept, Referred, OneStart, [Next]_vars
             PROVE  OneStart'
  OBVIOUS
<1> USE IdleIsRecord, Moves
<1>0. ASSUME \A u \in Op : Starting(u)' => Starting(u),
             process = "starting" => process' = "starting"
      PROVE  OneStart'
  BY <1>0 DEF OneStart
<1>a. ASSUME NEW t \in Op, Over(t) \/ (\E pc \in PC \ {"remove", "configure", "launch"} : Moved(t, pc)),
             process = "starting" => process' = "starting"
      PROVE  OneStart'
  BY <1>0, <1>a DEF Over, Moved, Others, Starting
<1>1. ASSUME NEW t \in Op, NEW k \in Kinds, Begin(t, k)
      PROVE  OneStart'
  <2>1. ~Starting(t)' /\ Others(t) /\ process' = process
    <3>1. FirstPC(k) \notin {"remove", "configure", "launch"}
      BY MaintenanceAssumption DEF FirstPC, AllKinds
    <3>2. QED
      BY <1>1, <3>1, Begins DEF Begin, Starting
  <2>2. QED
    BY <1>0, <2>1 DEF Others, Starting
<1>2. ASSUME NEW t \in Op, StartCheck(t)
      PROVE  OneStart'
  BY <1>2, <1>a DEF StartCheck, PC
<1>3. ASSUME NEW t \in Op, StartClaim(t)
      PROVE  OneStart'
  <2>1. CASE process = "none"
    <3>1. process' = "starting" /\ \A u \in Op : ~Starting(u)
      BY <1>3, <2>1 DEF StartClaim, OneStart
    <3>2. \A u \in Op : u # t => ~Starting(u)'
      BY <1>3, <3>1 DEF Over, Moved, Others, Starting
    <3>3. QED
      BY <3>1, <3>2 DEF OneStart
  <2>2. CASE process # "none"
    <3>1. Over(t) /\ process' = process
      BY <1>3, <2>2, Records DEF StartClaim
    <3>2. QED
      BY <1>a, <3>1
  <2>3. QED
    BY <2>1, <2>2
<1>4. ASSUME NEW t \in Op, StartRemove(t) \/ StartConfigure(t)
      PROVE  OneStart'
  BY <1>0, <1>4 DEF StartRemove, StartConfigure, Moved, Others, Starting, At
<1>5. ASSUME NEW t \in Op, StartLaunch(t)
      PROVE  OneStart'
  <2>1. Starting(t) /\ Over(t)
    BY <1>5 DEF StartLaunch, Starting, At
  <2>2. \A u \in Op : ~Starting(u)'
    BY <2>1 DEF OneStart, Over, Others, Starting
  <2>3. QED
    BY <2>2 DEF OneStart
<1>6. ASSUME NEW t \in Op,
             \/ Request(t) \/ StopPanics(t) \/ Sync(t) \/ Disconnect(t) \/ Check(t)
             \/ InstallFlag(t) \/ Script(t) \/ CreateInstaller(t) \/ CreateFails(t)
             \/ InstallEnds(t) \/ InstallPanics(t) \/ Unset(t) \/ Cleanup(t)
             \/ RestoreFlag(t) \/ RestoreEnds(t) \/ TransferEnds(t) \/ ArchiveFails(t)
      PROVE  OneStart'
  <2>1. process' = process
    BY <1>6 DEF Request, StopPanics, Sync, Disconnect, Check, InstallFlag, Script,
                CreateInstaller, CreateFails, InstallEnds, InstallPanics, Unset, Cleanup,
                RestoreFlag, RestoreEnds, TransferEnds, ArchiveFails
  <2>2. Over(t) \/ \E pc \in PC \ {"remove", "configure", "launch"} : Moved(t, pc)
    BY <1>6 DEF PC
  <2>3. QED
    BY <1>a, <2>1, <2>2
<1>7. ASSUME NEW t \in Op, Stop(t)
      PROVE  OneStart'
  <2>1. process = "starting" => process' = "starting"
    BY <1>7 DEF Stop
  <2>2. AfterStop(t) \in PC \ {"remove", "configure", "launch"}
    BY DEF AfterStop, PC
  <2>3. QED
    BY <1>7, <1>a, <2>1, <2>2
<1>8. ASSUME NEW t \in Op, TransferFlag(t)
      PROVE  OneStart'
  BY <1>0, <1>8, TransferBegins DEF TransferFlag, Others, Starting
<1>9. ASSUME NEW t \in Op, StoreTransfer(t)
      PROVE  OneStart'
  BY <1>0, <1>9, Stores DEF StoreTransfer, Starting
<1>10. ASSUME NEW t \in Op, TransferFails(t)
       PROVE  OneStart'
  BY <1>0, <1>10, Fails DEF TransferFails, Starting
<1>11. ASSUME NEW t \in Op, Cancel(t)
       PROVE  OneStart'
  BY <1>0, <1>11, Cancels DEF Cancel, Starting, Over, Others
<1>12. ASSUME NEW t \in Op, TakeTransfer(t)
       PROVE  OneStart'
  BY <1>0, <1>12, Takes DEF TakeTransfer, Starting
<1>13. CASE Exit \/ UNCHANGED vars
  BY <1>0, <1>13 DEF Exit, vars, Starting
<1>14. QED
  BY <1>1, <1>2, <1>3, <1>4, <1>5, <1>6, <1>7, <1>8, <1>9, <1>10, <1>11, <1>12, <1>13
     DEF Next, Steps, Failures

(***************************************************************************)
(* The flags, and who works on the files                                   *)
(***************************************************************************)

\* Once an operation did not find what it had checked for, that is not forgotten.
LEMMA SerialStep == [Next]_vars /\ serial' /\ TypeOK => serial
<1> SUFFICES ASSUME [Next]_vars, serial', TypeOK, ~serial
             PROVE  FALSE
  BY DEF TypeOK
<1>1. QED
  BY DEF Next, Steps, Failures, Begin, StartCheck, StartClaim, StartRemove, StartConfigure,
         StartLaunch, Request, Stop, Sync, Check, InstallFlag, Script, CreateInstaller,
         CreateFails, InstallEnds, Unset, Cleanup, RestoreFlag, RestoreEnds, TransferFlag,
         TransferFails, Cancel, TakeTransfer, StopPanics, InstallPanics, ArchiveFails,
         StoreTransfer, TransferEnds, Disconnect, Exit, vars

\* A step of one operation that leaves the flags as they are disturbs nothing, if the
\* operation begins no work that needs a flag or a server that is down, and does not forget
\* a flag it is to clear.
LEMMA Steady ==
  ASSUME Guarded, NEW t \in Op, Others(t), UNCHANGED <<installing, restoring, transferring>>,
         process = "none" => process' = "none",
         ~At(t, "dead"), At(t, "take")' <=> At(t, "take"), task'[t].seen = task[t].seen,
         Installing(t)' => Installing(t),
         Restoring(t)' => Restoring(t),
         Sending(t)' => Sending(t),
         At(t, "restore")' => process' = "none",
         At(t, "archive")' => process' = "none",
         Installing(t) => Installing(t)' \/ (Installs(t)' /\ At(t, "dead")'),
         Restoring(t) => Restoring(t)' \/ (Is(t, "restore")' /\ At(t, "dead")'),
         Sending(t) => Transfers(t)'
  PROVE  Guarded'
<1>1. \A u \in Op : u # t => task'[u] = task[u]
  BY DEF Others
<1>2. Taking' <=> Taking
  BY <1>1 DEF Taking, At
<1>3. \A u \in Op : /\ Installing(u)' => Installing(u)
                    /\ Restoring(u)' => Restoring(u)
                    /\ Sending(u)' => Sending(u)
  BY <1>1 DEF Installing, Installs, Restoring, Sending, Is
<1>4. Flagged'
  BY <1>2, <1>3 DEF Guarded, Flagged
<1>5. Alone'
  BY <1>2, <1>3 DEF Guarded, Alone
<1>6. Offline'
  BY <1>1, <1>2, <1>3 DEF Guarded, Offline, At
<1>7. Owned'
  <2>1. installing => \E u \in Op : (Installing(u) \/ (Installs(u) /\ At(u, "dead")))'
    BY <1>1 DEF Guarded, Owned, Installing, Installs, At
  <2>2. restoring => \E u \in Op : (Restoring(u) \/ (Is(u, "restore") /\ At(u, "dead")))'
    BY <1>1 DEF Guarded, Owned, Restoring, Is, At
  <2>3. ASSUME transferring
        PROVE  \E u \in Op : Transfers(u)' /\ \A v \in Op : task'[v].seen # u
    <3>1. PICK u \in Op : Transfers(u) /\ \A v \in Op : task[v].seen # u
      BY <2>3 DEF Guarded, Owned
    <3>2. \A v \in Op : task'[v].seen # u
      BY <1>1, <3>1
    <3>3. Transfers(u)'
      BY <1>1, <3>1 DEF Transfers, Sending, Is, At
    <3>4. QED
      BY <3>2, <3>3
  <2>4. QED
    BY <2>1, <2>2, <2>3 DEF Owned
<1>8. QED
  BY <1>4, <1>5, <1>6, <1>7 DEF Guarded

\* The slot's transfer neither installs nor restores nor cancels.
LEMMA SlotHolds ==
  ASSUME TypeOK, Kept, Referred, NEW u \in Op, u = outgoing_transfer
  PROVE  /\ ~Installing(u) /\ ~Restoring(u) /\ ~At(u, "take") /\ ~At(u, "restore")
         /\ ~(Installs(u) /\ At(u, "dead")) /\ ~(Is(u, "restore") /\ At(u, "dead"))
         /\ Sending(u) => Transfers(u) /\ task[u].seen = NoOp
<1>1. Sent(u)
  BY MaintenanceAssumption DEF Referred
<1>2. \/ task[u].kind = "sync" /\ task[u].pc = "idle"
      \/ task[u].kind = "transfer"
  BY <1>1, IdleIsRecord DEF Sent, Is
<1>3. task[u].pc = "take" => task[u].kind = "cancel"
  BY DEF Kept, Fits
<1>4. task[u].pc = "restore" => task[u].kind = "restore"
  BY DEF Kept, Fits
<1>5. task[u].seen # NoOp => task[u].pc = "take"
  BY DEF Kept, Fits
<1>6. QED
  BY <1>2, <1>3, <1>4, <1>5
     DEF Installing, Installs, Restoring, Is, At, Sending, Transfers

\* When no flag is set, nothing but a transfer that a cancellation is to abort is working, and
\* a step of another operation changes nothing about that.
LEMMA Free ==
  ASSUME Kept, Guarded, ~Locked, NEW t \in Op, Others(t),
         ~At(t, "take"), task'[t].pc # "take"
  PROVE  /\ Taking' <=> Taking
         /\ \A u \in Op \ {t} :
              /\ ~Installing(u)' /\ ~Restoring(u)' /\ ~At(u, "restore")'
              /\ Sending(u)' => Taking
              /\ At(u, "archive")' => Taking
<1>1. Taking' <=> Taking
  BY DEF Taking, At, Others
<1>2. ASSUME NEW u \in Op
      PROVE  /\ ~Installing(u) /\ ~Restoring(u) /\ ~At(u, "restore")
             /\ Sending(u) => Taking
             /\ At(u, "archive") => Taking
  <2>1. ~Installing(u) /\ ~Restoring(u) /\ (Sending(u) => Taking)
    BY DEF Guarded, Flagged, Locked
  <2>2. /\ At(u, "restore") => Restoring(u)
        /\ At(u, "archive") => Sending(u)
    BY DEF Kept, Fits, At, Is, Restoring, Sending
  <2>3. QED
    BY <2>1, <2>2
<1>3. \A u \in Op \ {t} : task'[u] = task[u]
  BY DEF Others
<1>4. QED
  BY <1>1, <1>2, <1>3 DEF Installing, Installs, Restoring, Sending, Is, At

\* A transfer ends and clears the flag; what else ends with it was not working.
LEMMA TransferOver ==
  ASSUME Kept, Guarded, NEW t \in Op, Sending(t), task'[t].pc = "idle",
         transferring' = FALSE, UNCHANGED <<installing, restoring, process>>,
         \A u \in Op \ {t} :
           \/ task'[u] = task[u]
           \/ /\ task'[u] = Idle
              /\ ~Installing(u) /\ ~Restoring(u) /\ ~At(u, "take")
              /\ ~(Installs(u) /\ At(u, "dead")) /\ ~(Is(u, "restore") /\ At(u, "dead"))
  PROVE  Guarded'
<1>1. /\ ~Installing(t) /\ ~Restoring(t) /\ ~Installs(t) /\ ~Is(t, "restore") /\ ~At(t, "take")
      /\ ~Installing(t)' /\ ~Restoring(t)' /\ ~Sending(t)' /\ ~At(t, "restore")'
      /\ ~At(t, "archive")'
  BY DEF Sending, Installing, Installs, Restoring, Is, At
<1>2. ASSUME NEW u \in Op \ {t}
      PROVE  /\ Installing(u)' <=> Installing(u)
             /\ Restoring(u)' <=> Restoring(u)
             /\ Sending(u)' => Sending(u)
             /\ At(u, "restore")' => At(u, "restore")
             /\ At(u, "archive")' => At(u, "archive")
             /\ At(u, "take")' <=> At(u, "take")
             /\ Installs(u) /\ At(u, "dead") => (Installs(u) /\ At(u, "dead"))'
             /\ Is(u, "restore") /\ At(u, "dead") => (Is(u, "restore") /\ At(u, "dead"))'
  BY IdleIsRecord DEF Installing, Installs, Restoring, Sending, Is, At
<1>3. Taking => Taking'
  BY <1>1, <1>2 DEF Taking
<1>4. \A u \in Op : Sending(u)' => Taking'
  BY <1>1, <1>2, <1>3 DEF Guarded, Alone
<1>5. Flagged'
  BY <1>1, <1>2, <1>4 DEF Guarded, Flagged
<1>6. Alone'
  BY <1>1, <1>2, <1>4 DEF Guarded, Alone
<1>7. Offline'
  BY <1>1, <1>2, <1>3 DEF Guarded, Offline
<1>8. Owned'
  BY <1>1, <1>2 DEF Guarded, Owned
<1>9. QED
  BY <1>5, <1>6, <1>7, <1>8 DEF Guarded

\* As long as operations find what they had checked for, every step leaves the flags with
\* their operations, and the operations that work alone.
LEMMA GuardedStep ==
  TypeOK /\ Kept /\ Referred /\ OneStart /\ Guarded /\ [Next]_vars /\ serial' => Guarded'
<1> SUFFICES ASSUME TypeOK, Kept, Referred, OneStart, Guarded, [Next]_vars, serial'
             PROVE  Guarded'
  OBVIOUS
<1> USE IdleIsRecord, Moves
\* A step of an operation that neither works nor cancels, before or after it.
<1>a. ASSUME NEW t \in Op, UNCHANGED <<installing, restoring, transferring>>,
             process = "none" => process' = "none",
             ~Installing(t), ~Restoring(t), ~Sending(t), ~At(t, "dead"), ~At(t, "take"),
             \/ Over(t)
             \/ \E pc \in {"claim", "remove", "configure", "launch", "check", "flag",
                           "cleanup"} : Moved(t, pc)
      PROVE  Guarded'
  <2>1. /\ Others(t) /\ task'[t].seen = task[t].seen
        /\ task'[t].pc \in {"idle", "claim", "remove", "configure", "launch", "check", "flag",
                            "cleanup"}
    BY <1>a DEF Over, Moved, Kept, Fits, At
  <2>2. /\ ~At(t, "take")' /\ ~Installing(t)' /\ ~Restoring(t)' /\ ~Sending(t)'
        /\ ~At(t, "restore")' /\ ~At(t, "archive")'
    BY <2>1 DEF Installing, Restoring, Sending, At
  <2>3. QED
    BY <1>a, <2>1, <2>2, Steady
<1>1. ASSUME NEW t \in Op, NEW k \in Kinds, Begin(t, k)
      PROVE  Guarded'
  <2>1. /\ Others(t) /\ task'[t].seen = task[t].seen
        /\ task'[t].pc \in {"start", "request", "cancel", "sync", "check"}
    <3>1. FirstPC(k) \in {"start", "request", "cancel", "sync", "check"}
      BY DEF FirstPC
    <3>2. QED
      BY <1>1, <3>1, Begins DEF Begin
  <2>2. /\ ~At(t, "take")' /\ ~Installing(t)' /\ ~Restoring(t)' /\ ~Sending(t)'
        /\ ~At(t, "restore")' /\ ~At(t, "archive")'
    BY <2>1 DEF Installing, Restoring, Sending, At
  <2>3. /\ ~At(t, "take") /\ ~Installing(t) /\ ~Restoring(t) /\ ~Sending(t) /\ ~At(t, "dead")
    BY <1>1 DEF Begin, Installing, Restoring, Sending, At
  <2>4. UNCHANGED <<installing, restoring, transferring, process>>
    BY <1>1 DEF Begin, flags
  <2>5. QED
    BY <2>1, <2>2, <2>3, <2>4, Steady
<1>2. ASSUME NEW t \in Op,
             \/ StartCheck(t) \/ StartRemove(t) \/ StartConfigure(t) \/ StartLaunch(t)
             \/ StartClaim(t) /\ process # "none"
      PROVE  Guarded'
  <2>1. /\ UNCHANGED <<installing, restoring, transferring>>
        /\ task[t].pc \in {"start", "claim", "remove", "configure", "launch"}
    BY <1>2 DEF StartCheck, StartRemove, StartConfigure, StartLaunch, StartClaim, flags, At
  <2>2. process = "none" => process' = "none"
    BY <1>2 DEF StartCheck, StartRemove, StartConfigure, StartLaunch, StartClaim, OneStart,
                Starting, At
  <2>3. /\ ~At(t, "take") /\ ~Installing(t) /\ ~Restoring(t) /\ ~Sending(t) /\ ~At(t, "dead")
    BY <2>1 DEF Installing, Restoring, Sending, At
  <2>4. Over(t) \/ \E pc \in {"claim", "remove", "configure", "launch"} : Moved(t, pc)
    BY <1>2
  <2>5. QED
    BY <1>a, <2>1, <2>2, <2>3, <2>4
\* Nothing is being worked on when a start finds the server down and no flag set.
<1>3. ASSUME NEW t \in Op, StartClaim(t), process = "none"
      PROVE  Guarded'
  <2>1. /\ ~Locked /\ UNCHANGED <<installing, restoring, transferring>>
        /\ At(t, "claim") /\ Moved(t, "remove")
    BY <1>3, Records DEF StartClaim, flags, PC
  <2>2. /\ ~Installing(t)' /\ ~Restoring(t)' /\ ~Sending(t)'
        /\ ~At(t, "restore")' /\ ~At(t, "archive")'
    BY <2>1 DEF Installing, Restoring, Sending, At, Moved
  <2>3. /\ Taking' <=> Taking
        /\ \A u \in Op : /\ ~Installing(u)' /\ ~Restoring(u)' /\ ~At(u, "restore")'
                         /\ Sending(u)' => Taking
                         /\ At(u, "archive")' => Taking
    BY <2>1, <2>2, Free DEF At, Moved
  <2>4. ~installing' /\ ~restoring' /\ ~transferring'
    BY <2>1 DEF Locked
  <2>5. QED
    BY <2>3, <2>4 DEF Guarded, Flagged, Alone, Offline, Owned
<1>4. ASSUME NEW t \in Op, Sync(t) \/ Disconnect(t) \/ Check(t) \/ Cleanup(t)
      PROVE  Guarded'
  <2>1. UNCHANGED <<installing, restoring, transferring, process>>
    BY <1>4 DEF Sync, Disconnect, Check, Cleanup, flags
  <2>2. /\ ~At(t, "take") /\ ~Installing(t) /\ ~Restoring(t) /\ ~Sending(t) /\ ~At(t, "dead")
    BY <1>4 DEF Sync, Disconnect, Check, Cleanup, Installing, Restoring, Sending, At, Is
  <2>3. Over(t) \/ \E pc \in {"check", "flag"} : Moved(t, pc)
    BY <1>4
  <2>4. QED
    BY <1>a, <2>1, <2>2, <2>3
<1>5. ASSUME NEW t \in Op, Request(t)
      PROVE  Guarded'
  <2>1. /\ UNCHANGED <<installing, restoring, transferring, process>>
        /\ At(t, "request") /\ Is(t, "reinstall")
    BY <1>5 DEF Request, flags, Kept, Fits, At, Is
  <2>2. /\ ~At(t, "take") /\ ~Installing(t) /\ ~Restoring(t) /\ ~Sending(t) /\ ~At(t, "dead")
    BY <2>1 DEF Installing, Restoring, Sending, At
  <2>3. CASE Over(t)
    BY <1>a, <2>1, <2>2, <2>3
  <2>4. CASE Moved(t, "stop")
    <3>1. /\ ~At(t, "take")' /\ ~Installing(t)' /\ ~Restoring(t)' /\ ~Sending(t)'
          /\ ~At(t, "restore")' /\ ~At(t, "archive")' /\ task'[t].seen = task[t].seen
          /\ Others(t)
      BY <2>1, <2>4 DEF Installing, Restoring, Sending, At, Is, Moved
    <3>2. QED
      BY <2>1, <2>2, <3>1, Steady
  <2>5. QED
    BY <1>5, <2>3, <2>4
\* A stop that comes back has stopped the server, and the operation goes on to its work.
<1>6. ASSUME NEW t \in Op, Stop(t)
      PROVE  Guarded'
  <2>1. /\ UNCHANGED <<installing, restoring, transferring>>
        /\ At(t, "stop") /\ process' = "none" /\ Moved(t, AfterStop(t))
    BY <1>6 DEF Stop, flags
  <2>2. /\ Is(t, "reinstall") => task'[t].pc = "sync"
        /\ Is(t, "restore") => task'[t].pc = "restore"
        /\ ~Is(t, "reinstall") /\ ~Is(t, "restore") => task'[t].pc = "archive"
        /\ task'[t].kind = task[t].kind /\ task'[t].seen = task[t].seen /\ Others(t)
        /\ task[t].kind \in {"reinstall", "restore", "transfer"}
    BY <2>1 DEF Moved, AfterStop, Is, Kept, Fits, At
  <2>3. /\ ~At(t, "take") /\ ~At(t, "take")' /\ ~At(t, "dead")
        /\ ~Installing(t) /\ ~Installing(t)'
        /\ Restoring(t) <=> Restoring(t)'
        /\ Sending(t) <=> Sending(t)'
        /\ Sending(t) => Transfers(t)'
    BY <2>1, <2>2 DEF Installing, Restoring, Sending, Transfers, At, Is
  <2>4. QED
    BY <2>1, <2>2, <2>3, Steady
<1>7. ASSUME NEW t \in Op, StopPanics(t) \/ InstallPanics(t) \/ ArchiveFails(t)
      PROVE  Guarded'
  <2>1. /\ UNCHANGED <<installing, restoring, transferring, process>>
        /\ \/ task[t].pc = "stop" /\ Moved(t, "dead")
           \/ task[t].pc = "run" /\ Moved(t, "dead")
           \/ task[t].pc = "archive" /\ Moved(t, "failing")
    BY <1>7 DEF StopPanics, InstallPanics, ArchiveFails, flags, At
  <2>2. /\ Others(t) /\ task'[t].seen = task[t].seen /\ task'[t].kind = task[t].kind
        /\ \/ task[t].pc \in {"stop", "run"} /\ task'[t].pc = "dead"
           \/ task[t].pc = "archive" /\ task'[t].pc = "failing"
    BY <2>1 DEF Moved
  <2>3. /\ ~At(t, "take") /\ ~At(t, "take")' /\ ~At(t, "dead")
        /\ ~Installing(t)' /\ ~Restoring(t)' /\ ~At(t, "restore")' /\ ~At(t, "archive")'
        /\ Installing(t) => Installs(t)' /\ At(t, "dead")'
        /\ Restoring(t) => Is(t, "restore")' /\ At(t, "dead")'
        /\ Sending(t)' => Sending(t)
        /\ Sending(t) => Transfers(t)'
    BY <2>2 DEF Installing, Installs, Restoring, Sending, Transfers, At, Is
  <2>4. QED
    BY <2>1, <2>2, <2>3, Steady
<1>8. ASSUME NEW t \in Op,
             Script(t) \/ CreateInstaller(t) \/ CreateFails(t) \/ InstallEnds(t)
      PROVE  Guarded'
  <2>1. /\ UNCHANGED <<installing, restoring, transferring, process>>
        /\ task[t].pc \in {"script", "create", "run"}
        /\ \E pc \in {"create", "unset", "run"} : Moved(t, pc)
    BY <1>8 DEF Script, CreateInstaller, CreateFails, InstallEnds, flags, At
  <2>2. /\ Others(t) /\ task'[t].seen = task[t].seen /\ task'[t].kind = task[t].kind
        /\ task'[t].pc \in {"create", "unset", "run"}
    BY <2>1 DEF Moved
  <2>3. /\ ~At(t, "take") /\ ~At(t, "take")' /\ ~At(t, "dead")
        /\ ~Restoring(t) /\ ~Restoring(t)' /\ ~Sending(t) /\ ~Sending(t)'
        /\ ~At(t, "restore")' /\ ~At(t, "archive")'
        /\ Installing(t) <=> Installing(t)'
    BY <2>1, <2>2 DEF Installing, Installs, Restoring, Sending, At, Is
  <2>4. QED
    BY <2>1, <2>2, <2>3, Steady
\* An operation sets its flag when no other is set.
<1>9. ASSUME NEW t \in Op, InstallFlag(t)
      PROVE  Guarded'
  <2>1. /\ ~Locked /\ process = "none" /\ process' = "none" /\ installing'
        /\ UNCHANGED <<restoring, transferring>>
        /\ At(t, "flag") /\ Installs(t) /\ Moved(t, "script")
    BY <1>9 DEF InstallFlag
  <2>2. /\ Installing(t)' /\ ~Restoring(t)' /\ ~Sending(t)'
        /\ ~At(t, "restore")' /\ ~At(t, "archive")'
    BY <2>1 DEF Installing, Installs, Restoring, Sending, At, Is, Moved
  <2>3. /\ Taking' <=> Taking
        /\ \A u \in Op \ {t} : /\ ~Installing(u)' /\ ~Restoring(u)' /\ ~At(u, "restore")'
                               /\ Sending(u)' => Taking
                               /\ At(u, "archive")' => Taking
    BY <2>1, Free DEF At, Moved
  <2>4. ~restoring' /\ ~transferring'
    BY <2>1 DEF Locked
  <2>5. Flagged' /\ Alone' /\ Offline' /\ Owned'
    BY <2>1, <2>2, <2>3, <2>4 DEF Flagged, Alone, Offline, Owned
  <2>6. QED
    BY <2>5 DEF Guarded
<1>10. ASSUME NEW t \in Op, RestoreFlag(t)
       PROVE  Guarded'
  <2>1. /\ ~Locked /\ restoring' /\ UNCHANGED <<installing, transferring>>
        /\ At(t, "flag") /\ Is(t, "restore") /\ Moved(t, "stop")
    BY <1>10 DEF RestoreFlag
  <2>2. /\ Restoring(t)' /\ ~Installing(t)' /\ ~Sending(t)'
        /\ ~At(t, "restore")' /\ ~At(t, "archive")'
    BY <2>1 DEF Installing, Installs, Restoring, Sending, At, Is, Moved
  <2>3. /\ Taking' <=> Taking
        /\ \A u \in Op \ {t} : /\ ~Installing(u)' /\ ~Restoring(u)' /\ ~At(u, "restore")'
                               /\ Sending(u)' => Taking
                               /\ At(u, "archive")' => Taking
    BY <2>1, Free DEF At, Moved
  <2>4. ~installing' /\ ~transferring'
    BY <2>1 DEF Locked
  <2>5. Flagged' /\ Alone' /\ Offline' /\ Owned'
    BY <2>1, <2>2, <2>3, <2>4 DEF Flagged, Alone, Offline, Owned
  <2>6. QED
    BY <2>5 DEF Guarded
<1>11. ASSUME NEW t \in Op, TransferFlag(t)
       PROVE  Guarded'
  <2>1. /\ ~Locked /\ transferring' /\ UNCHANGED <<installing, restoring>>
        /\ At(t, "flag") /\ Is(t, "transfer")
        /\ task'[t].kind = "transfer" /\ task'[t].pc = "stop"
        /\ task'[t].seen = task[t].seen /\ Others(t)
    BY <1>11, TransferBegins DEF TransferFlag
  <2>2. /\ Sending(t)' /\ ~Installing(t)' /\ ~Restoring(t)'
        /\ ~At(t, "restore")' /\ ~At(t, "archive")'
    BY <2>1 DEF Installing, Installs, Restoring, Sending, At, Is
  <2>3. /\ Taking' <=> Taking
        /\ \A u \in Op \ {t} : /\ ~Installing(u)' /\ ~Restoring(u)' /\ ~At(u, "restore")'
                               /\ Sending(u)' => Taking
                               /\ At(u, "archive")' => Taking
    BY <2>1, Free DEF At
  <2>4. ~installing' /\ ~restoring'
    BY <2>1 DEF Locked
  <2>5. Transfers(t)' /\ \A v \in Op : task'[v].seen # t
    <3>1. ~Sent(t) /\ t # NoOp
      BY <2>1, MaintenanceAssumption DEF Sent, At, Is
    <3>2. \A v \in Op : task[v].seen # t
      BY <3>1 DEF Referred
    <3>3. QED
      BY <2>1, <3>2 DEF Transfers, Is, Others
  <2>6. Flagged' /\ Alone' /\ Offline' /\ Owned'
    BY <2>1, <2>2, <2>3, <2>4, <2>5 DEF Flagged, Alone, Offline, Owned
  <2>7. QED
    BY <2>6 DEF Guarded
\* The operation that works clears its flag: no other has it.
<1>12. ASSUME NEW t \in Op, Unset(t)
       PROVE  Guarded'
  <2>1. /\ Installing(t) /\ task'[t].pc = "cleanup" /\ Others(t) /\ ~installing'
        /\ UNCHANGED <<restoring, transferring, process>> /\ ~At(t, "take")
    BY <1>12 DEF Unset, Installing, Installs, Kept, Fits, At, Moved
  <2>2. installing /\ ~restoring' /\ ~transferring'
    BY <2>1 DEF Guarded, Flagged
  <2>3. /\ ~Installing(t)' /\ ~Restoring(t)' /\ ~Sending(t)' /\ ~At(t, "restore")'
        /\ ~At(t, "archive")'
    BY <2>1 DEF Installing, Restoring, Sending, At
  <2>4. ASSUME NEW u \in Op \ {t}
        PROVE  /\ ~Installing(u)' /\ ~Restoring(u)' /\ ~At(u, "restore")'
               /\ Sending(u)' => Taking
               /\ At(u, "archive")' => Taking
    <3>1. ~Installing(u) /\ ~Restoring(u) /\ (Sending(u) => Taking)
      BY <2>1, <2>2 DEF Guarded, Flagged, Alone
    <3>2. /\ At(u, "restore") => Restoring(u)
          /\ At(u, "archive") => Sending(u)
      BY DEF Kept, Fits, At, Is, Restoring, Sending
    <3>3. QED
      BY <2>1, <3>1, <3>2 DEF Others, Installing, Installs, Restoring, Sending, Is, At
  <2>5. Taking' <=> Taking
    BY <2>1 DEF Taking, At, Others
  <2>6. Flagged' /\ Alone' /\ Offline' /\ Owned'
    BY <2>1, <2>2, <2>3, <2>4, <2>5 DEF Flagged, Alone, Offline, Owned
  <2>7. QED
    BY <2>6 DEF Guarded
<1>13. ASSUME NEW t \in Op, RestoreEnds(t)
       PROVE  Guarded'
  <2>1. /\ Restoring(t) /\ task'[t].pc = "idle" /\ Others(t) /\ ~restoring'
        /\ UNCHANGED <<installing, transferring, process>> /\ ~At(t, "take")
    BY <1>13 DEF RestoreEnds, Restoring, Is, Kept, Fits, At, Over
  <2>2. restoring /\ ~installing' /\ ~transferring'
    BY <2>1 DEF Guarded, Flagged
  <2>3. /\ ~Installing(t)' /\ ~Restoring(t)' /\ ~Sending(t)' /\ ~At(t, "restore")'
        /\ ~At(t, "archive")'
    BY <2>1 DEF Installing, Restoring, Sending, At
  <2>4. ASSUME NEW u \in Op \ {t}
        PROVE  /\ ~Installing(u)' /\ ~Restoring(u)' /\ ~At(u, "restore")'
               /\ Sending(u)' => Taking
               /\ At(u, "archive")' => Taking
    <3>1. ~Installing(u) /\ ~Restoring(u) /\ (Sending(u) => Taking)
      BY <2>1, <2>2 DEF Guarded, Flagged, Alone
    <3>2. /\ At(u, "restore") => Restoring(u)
          /\ At(u, "archive") => Sending(u)
      BY DEF Kept, Fits, At, Is, Restoring, Sending
    <3>3. QED
      BY <2>1, <3>1, <3>2 DEF Others, Installing, Installs, Restoring, Sending, Is, At
  <2>5. Taking' <=> Taking
    BY <2>1 DEF Taking, At, Others
  <2>6. Flagged' /\ Alone' /\ Offline' /\ Owned'
    BY <2>1, <2>2, <2>3, <2>4, <2>5 DEF Flagged, Alone, Offline, Owned
  <2>7. QED
    BY <2>6 DEF Guarded
<1>14. ASSUME NEW t \in Op, TransferEnds(t)
       PROVE  Guarded'
  <2>1. /\ Sending(t) /\ task'[t].pc = "idle" /\ Others(t) /\ transferring' = FALSE
        /\ UNCHANGED <<installing, restoring, process>>
    BY <1>14 DEF TransferEnds, Sending, Is, Kept, Fits, At, Over
  <2>2. \A u \in Op \ {t} : task'[u] = task[u]
    BY <2>1 DEF Others
  <2>3. QED
    BY <2>1, <2>2, TransferOver
\* The slot that is emptied held no other transfer that is under way.
<1>15. ASSUME NEW t \in Op, TransferFails(t)
       PROVE  Guarded'
  <2>1. /\ Sending(t) /\ task'[t].pc = "idle" /\ transferring' = FALSE
        /\ UNCHANGED <<installing, restoring, process>>
        /\ \A u \in Op \ {t} : task'[u] = IF u = outgoing_transfer THEN Idle ELSE task[u]
    BY <1>15, Fails DEF TransferFails, Sending, Is, Kept, Fits, At
  <2>2. ASSUME NEW u \in Op \ {t}, u = outgoing_transfer
        PROVE  /\ ~Installing(u) /\ ~Restoring(u) /\ ~At(u, "take")
               /\ ~(Installs(u) /\ At(u, "dead")) /\ ~(Is(u, "restore") /\ At(u, "dead"))
    BY <2>2, SlotHolds
  <2>3. QED
    BY <2>1, <2>2, TransferOver
<1>16. ASSUME NEW t \in Op, StoreTransfer(t)
       PROVE  Guarded'
  <2> DEFINE o == outgoing_transfer
  <2>1. /\ UNCHANGED <<installing, restoring, transferring, process>>
        /\ o \notin {NoOp, t} => ~Transfers(o)
    BY <1>16 DEF StoreTransfer, SlotIsFor, flags
  <2>2. ASSUME NEW u \in Op
        PROVE  /\ \/ task'[u].pc = task[u].pc /\ task'[u].kind = task[u].kind
                  \/ task'[u].pc = "idle" /\ u = o /\ u # t
                  \/ task'[u].pc = "idle" /\ task[u].pc = "idle"
               /\ task'[u].seen \in {task[u].seen, NoOp}
    BY <1>16, Stores DEF At
  <2>3. ASSUME NEW u \in Op, u = o, u # t
        PROVE  /\ ~Transfers(u) /\ ~Sending(u) /\ ~Installing(u) /\ ~Restoring(u)
               /\ ~At(u, "take")
               /\ ~(Installs(u) /\ At(u, "dead")) /\ ~(Is(u, "restore") /\ At(u, "dead"))
    BY <2>1, <2>3, SlotHolds, MaintenanceAssumption
  <2>4. ASSUME NEW u \in Op
        PROVE  /\ Installing(u)' <=> Installing(u)
               /\ Restoring(u)' <=> Restoring(u)
               /\ Sending(u)' <=> Sending(u)
               /\ Transfers(u) => Transfers(u)'
               /\ At(u, "restore")' => At(u, "restore")
               /\ At(u, "archive")' => At(u, "archive")
               /\ At(u, "take")' <=> At(u, "take")
               /\ Installs(u) /\ At(u, "dead") => (Installs(u) /\ At(u, "dead"))'
               /\ Is(u, "restore") /\ At(u, "dead") => (Is(u, "restore") /\ At(u, "dead"))'
    <3>1. CASE task'[u].pc = task[u].pc /\ task'[u].kind = task[u].kind
      BY <3>1 DEF Installing, Installs, Restoring, Sending, Transfers, Is, At
    <3>2. CASE task'[u].pc = "idle" /\ u = o /\ u # t
      BY <2>3, <3>2 DEF Installing, Restoring, Sending, At
    <3>3. CASE task'[u].pc = "idle" /\ task[u].pc = "idle"
      BY <3>3 DEF Installing, Restoring, Sending, Transfers, At
    <3>4. QED
      BY <2>2, <3>1, <3>2, <3>3
  <2>5. Taking' <=> Taking
    BY <2>4 DEF Taking
  <2>6. Flagged' /\ Alone' /\ Offline'
    BY <2>1, <2>4, <2>5 DEF Guarded, Flagged, Alone, Offline
  <2>7. ASSUME transferring
        PROVE  \E u \in Op : Transfers(u)' /\ \A v \in Op : task'[v].seen # u
    <3>1. PICK u \in Op : Transfers(u) /\ \A v \in Op : task[v].seen # u
      BY <2>7 DEF Guarded, Owned
    <3>2. u # NoOp
      BY MaintenanceAssumption
    <3>3. QED
      BY <2>2, <2>4, <3>1, <3>2
  <2>8. Owned'
    BY <2>1, <2>4, <2>7 DEF Guarded, Owned
  <2>9. QED
    BY <2>6, <2>8 DEF Guarded
\* A cancellation clears the flag: whatever is still being sent is to be aborted.
<1>17. ASSUME NEW t \in Op, Cancel(t)
       PROVE  Guarded'
  <2>1. UNCHANGED <<installing, restoring, process>> /\ At(t, "cancel")
    BY <1>17 DEF Cancel
  <2>2. CASE ~transferring
    <3>1. Over(t) /\ ~transferring'
      BY <1>17, <2>2, Cancels DEF Cancel
    <3>2. ~At(t, "take") /\ ~Installing(t) /\ ~Restoring(t) /\ ~Sending(t) /\ ~At(t, "dead")
      BY <2>1 DEF Installing, Restoring, Sending, At
    <3>3. UNCHANGED <<installing, restoring, transferring>>
      BY <1>17, <2>1, <2>2 DEF Cancel
    <3>4. QED
      BY <1>a, <2>1, <3>1, <3>2, <3>3
  <2>3. CASE transferring
    <3>1. /\ ~transferring' /\ task'[t].pc = "take" /\ Others(t)
          /\ ~installing' /\ ~restoring'
      <4>1. task'[t].pc = "take" /\ Others(t)
        BY <1>17, <2>3, Cancels
      <4>2. ~transferring' /\ ~installing /\ ~restoring
        BY <1>17, <2>3 DEF Cancel, Guarded, Flagged
      <4>3. QED
        BY <2>1, <4>1, <4>2
    <3>2. Taking'
      BY <3>1 DEF Taking, At
    <3>3. ASSUME NEW u \in Op
          PROVE  ~Installing(u)' /\ ~Restoring(u)' /\ ~At(u, "restore")'
      <4>1. ~Installing(u) /\ ~Restoring(u)
        BY <2>1, <3>1 DEF Guarded, Flagged
      <4>2. At(u, "restore") => Restoring(u)
        BY DEF Kept, Fits, At, Is, Restoring
      <4>3. CASE u = t
        BY <3>1, <4>3 DEF Installing, Restoring, At
      <4>4. CASE u # t
        BY <3>1, <4>1, <4>2, <4>4 DEF Others, Installing, Installs, Restoring, Is, At
      <4>5. QED
        BY <4>3, <4>4
    <3>4. Flagged' /\ Alone' /\ Offline' /\ Owned'
      BY <3>1, <3>2, <3>3 DEF Flagged, Alone, Offline, Owned
    <3>5. QED
      BY <3>4 DEF Guarded
  <2>4. QED
    BY <2>2, <2>3
\* It aborts the transfer it saw, and there was no other.
<1>18. ASSUME NEW t \in Op, TakeTransfer(t)
       PROVE  Guarded'
  <2> DEFINE o == outgoing_transfer
  <2>1. /\ UNCHANGED <<installing, restoring, transferring, process>> /\ At(t, "take")
        /\ o = task[t].seen /\ \A u \in Op : Transfers(u) => u = o
    BY <1>18 DEF TakeTransfer, flags
  <2>2. ~transferring
    BY <2>1 DEF Guarded, Owned
  <2>3. /\ task'[t] = Idle
        /\ \A u \in Op \ {t} : task'[u] = IF u = o THEN Idle ELSE task[u]
    BY <1>18, Takes
  <2>4. ASSUME NEW u \in Op
        PROVE  /\ Installing(u)' <=> Installing(u)
               /\ Restoring(u)' <=> Restoring(u)
               /\ ~Sending(u)' /\ ~At(u, "archive")'
               /\ At(u, "restore")' => At(u, "restore")
               /\ Installs(u) /\ At(u, "dead") => (Installs(u) /\ At(u, "dead"))'
               /\ Is(u, "restore") /\ At(u, "dead") => (Is(u, "restore") /\ At(u, "dead"))'
    <3>1. CASE u = t
      BY <2>1, <2>3, <3>1 DEF Installing, Restoring, Sending, At
    <3>2. CASE u # t /\ u = o
      <4>1. /\ ~Installing(u) /\ ~Restoring(u)
            /\ ~(Installs(u) /\ At(u, "dead")) /\ ~(Is(u, "restore") /\ At(u, "dead"))
        BY <3>2, SlotHolds
      <4>2. task'[u].pc = "idle"
        BY <2>3, <3>2
      <4>3. QED
        BY <4>1, <4>2 DEF Installing, Restoring, Sending, At
    <3>3. CASE u # t /\ u # o
      <4>1. ~Sending(u) /\ ~At(u, "archive")
        BY <2>1, <3>3 DEF Transfers, Sending, At, Kept, Fits, Is
      <4>2. task'[u] = task[u]
        BY <2>3, <3>3
      <4>3. QED
        BY <4>1, <4>2 DEF Installing, Installs, Restoring, Sending, Is, At
    <3>4. QED
      BY <3>1, <3>2, <3>3
  <2>5. Flagged' /\ Alone' /\ Offline' /\ Owned'
    BY <2>1, <2>2, <2>4 DEF Guarded, Flagged, Alone, Offline, Owned
  <2>6. QED
    BY <2>5 DEF Guarded
<1>19. CASE Exit \/ UNCHANGED vars
  <2>1. /\ UNCHANGED <<installing, restoring, transferring, task>>
        /\ process = "none" => process' = "none"
        /\ process' # process => process' = "none"
    BY <1>19 DEF Exit, vars, flags
  <2>2. Taking' <=> Taking
    BY <2>1 DEF Taking, At
  <2>3. Flagged' /\ Alone' /\ Offline' /\ Owned'
    BY <2>1, <2>2 DEF Guarded, Flagged, Alone, Offline, Owned, Installing, Installs, Restoring,
                      Sending, Transfers, Is, At
  <2>4. QED
    BY <2>3 DEF Guarded
<1>20. QED
  BY <1>1, <1>2, <1>3, <1>4, <1>5, <1>6, <1>7, <1>8, <1>9, <1>10, <1>11, <1>12, <1>13, <1>14,
     <1>15, <1>16, <1>17, <1>18, <1>19 DEF Next, Steps, Failures

(***************************************************************************)
(* The invariant and what follows from it                                  *)
(***************************************************************************)
LEMMA Invariant == Spec => []Inv
<1>1. Init => Inv
  <2> SUFFICES ASSUME Init
               PROVE  Inv
    OBVIOUS
  <2>1. TypeOK /\ Kept /\ \A t \in Op : task[t] = Idle
    BY IdleIsRecord DEF Init, TypeOK, Kept
  <2>2. \A t \in Op : /\ task[t].pc = "idle" /\ task[t].seen = NoOp
                      /\ ~Installing(t) /\ ~Restoring(t) /\ ~Sending(t) /\ ~Starting(t)
                      /\ ~At(t, "restore") /\ ~At(t, "archive")
    BY <2>1, IdleIsRecord DEF Installing, Restoring, Sending, Starting, At
  <2>3. Referred /\ OneStart
    BY <2>2 DEF Init, Referred, OneStart
  <2>4. Flagged /\ Alone /\ Offline /\ Owned
    BY <2>2 DEF Init, Flagged, Alone, Offline, Owned
  <2>5. QED
    BY <2>1, <2>3, <2>4 DEF Inv, Guarded
<1>2. Inv /\ [Next]_vars => Inv'
  <2> SUFFICES ASSUME Inv, [Next]_vars
               PROVE  Inv'
    OBVIOUS
  <2>1. TypeOK' /\ Kept'
    BY KeptStep DEF Inv
  <2>2. Referred' /\ OneStart'
    BY ReferredStep, OneStartStep DEF Inv
  <2>3. serial' => Guarded'
    BY SerialStep, GuardedStep DEF Inv
  <2>4. QED
    BY <2>1, <2>2, <2>3 DEF Inv
<1>3. QED
  BY <1>1, <1>2, PTL DEF Spec

\* is_locked_state is not stuck: as long as every operation found what it had checked for, a
\* flag that is set belongs to an operation that is to clear it, or to one that panicked.
THEOREM FlagsAreOwned == Spec => []FlagsOwned
<1>1. Inv => FlagsOwned
  BY DEF Inv, Guarded, Owned, FlagsOwned, Installing, Restoring, Transfers, At, Installs, Is
<1>2. QED
  BY <1>1, Invariant, PTL

\* As long as operations find what they had checked for and stops stop the server, whoever
\* installs, restores or sends the files has them to itself, and the server is down.
THEOREM FilesAreExclusive == Spec => []Exclusive
<1>1. ASSUME Inv, serial
      PROVE  (\A t, u \in Working : t = u) /\ (Working # {} => process = "none")
  <2>1. Kept /\ Flagged /\ Alone /\ Offline
    BY <1>1 DEF Inv, Guarded
  <2>2. ASSUME NEW t \in Working
        PROVE  /\ t \in Op
               /\ Installing(t) \/ Restoring(t) \/ (Sending(t) /\ ~Taking)
               /\ process = "none"
    <3>1. t \in Op
      BY DEF Working
    <3>2. CASE At(t, "run")
      BY <2>1, <3>1, <3>2 DEF Kept, Fits, At, Installing, Installs, Offline
    <3>3. CASE At(t, "restore")
      BY <2>1, <3>1, <3>3 DEF Kept, Fits, At, Is, Restoring, Offline
    <3>4. CASE At(t, "archive") /\ ~Taking
      BY <2>1, <3>1, <3>4 DEF Kept, Fits, At, Is, Sending, Offline
    <3>5. QED
      BY <3>1, <3>2, <3>3, <3>4 DEF Working, Taking
  <2>3. ASSUME NEW t \in Working, NEW u \in Working
        PROVE  t = u
    BY <2>1, <2>2 DEF Flagged, Alone
  <2>4. QED
    BY <2>2, <2>3
<1>2. Inv => Exclusive
  BY <1>1 DEF Exclusive
<1>3. QED
  BY <1>2, Invariant, PTL
=============================================================================
