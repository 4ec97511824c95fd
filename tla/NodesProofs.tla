---------------------------- MODULE NodesProofs ----------------------------
(***************************************************************************)
(* Proofs about Manager and Transfer, for any number of nodes.             *)
(***************************************************************************)
EXTENDS Transfer, TLAPS

(***************************************************************************)
(* Types                                                                   *)
(***************************************************************************)
Servers    == [Node -> ServerRecord]
Tasks      == [Node -> TaskRecord]
Containers == [Node -> [server : {"none", "created", "running", "stopped", "crashed"},
                        installer : {"none", "created", "running", "exited"}]]
FilesOf    == [Node -> {"none", "part", "copy", "whole"}]
FileOf     == [Node -> [states : {"none"} \cup State, installing : BOOLEAN]]
SaveRecord == [of : {"none", "states", "installing"},
               state : {"none"} \cup State, installing : BOOLEAN]
SaveOf     == [Node -> SaveRecord]
OwedBy     == [Node -> SUBSET {"run", "install"}]

LEMMA Constants ==
  /\ New \in ServerRecord
  /\ \A b \in BOOLEAN : [New EXCEPT !.listed = b] \in ServerRecord
  /\ NoTasks \in TaskRecord
  /\ [NoTasks EXCEPT !.install = "attach"] \in TaskRecord
  /\ \A s \in {"none"} \cup State : [NoTasks EXCEPT !.boot = "attach", !.saved = s] \in TaskRecord
  BY DEF New, NoTasks, ServerRecord, TaskRecord, State

\* One field of a server changes.
LEMMA ServerFields ==
  ASSUME NEW f \in Servers, NEW n \in Node
  PROVE  /\ \A b \in BOOLEAN : /\ [f EXCEPT ![n].listed = b] \in Servers
                               /\ [f EXCEPT ![n].suspended = b] \in Servers
                               /\ [f EXCEPT ![n].installing = b] \in Servers
                               /\ [f EXCEPT ![n].transferring = b] \in Servers
                               /\ [f EXCEPT ![n].script = b] \in Servers
                               /\ [f EXCEPT ![n].crash_handled = b] \in Servers
         /\ \A s \in State : [f EXCEPT ![n].state = s] \in Servers
         /\ \A c \in {"none", "watched", "ended"} : [f EXCEPT ![n].container = c] \in Servers
  BY DEF Servers, ServerRecord

\* One field of the record of the tasks changes.
Installs == {"idle", "stop", "sync", "check", "script", "create", "start", "run", "unset",
             "clean", "attach", "dead"}

LEMMA TaskFields ==
  ASSUME NEW f \in Tasks, NEW n \in Node
  PROVE  /\ \A b \in BOOLEAN : /\ [f EXCEPT ![n].sync = b] \in Tasks
                               /\ [f EXCEPT ![n].starts = b] \in Tasks
                               /\ [f EXCEPT ![n].installer = b] \in Tasks
                               /\ [f EXCEPT ![n].settle = b] \in Tasks
         /\ \A s \in {"idle", "begin", "claim", "sync", "create"} : [f EXCEPT ![n].start = s] \in Tasks
         /\ \A d \in {"idle", "kill", "remove", "files", "done"} : [f EXCEPT ![n].destroy = d] \in Tasks
         /\ \A i \in Installs : [f EXCEPT ![n].install = i] \in Tasks
         /\ \A b \in {"idle", "attach", "wait"} : [f EXCEPT ![n].boot = b] \in Tasks
         /\ \A s \in {"none"} \cup State : [f EXCEPT ![n].saved = s] \in Tasks
<1>1. ASSUME NEW b \in BOOLEAN
      PROVE  /\ [f EXCEPT ![n].sync = b] \in Tasks
             /\ [f EXCEPT ![n].starts = b] \in Tasks
             /\ [f EXCEPT ![n].installer = b] \in Tasks
             /\ [f EXCEPT ![n].settle = b] \in Tasks
  BY DEF Tasks, TaskRecord
<1>2. \A s \in {"idle", "begin", "claim", "sync", "create"} : [f EXCEPT ![n].start = s] \in Tasks
  BY DEF Tasks, TaskRecord
<1>3. \A d \in {"idle", "kill", "remove", "files", "done"} : [f EXCEPT ![n].destroy = d] \in Tasks
  BY DEF Tasks, TaskRecord
<1>4. \A i \in Installs : [f EXCEPT ![n].install = i] \in Tasks
  BY DEF Tasks, TaskRecord, Installs
<1>5. \A b \in {"idle", "attach", "wait"} : [f EXCEPT ![n].boot = b] \in Tasks
  BY DEF Tasks, TaskRecord
<1>6. \A s \in {"none"} \cup State : [f EXCEPT ![n].saved = s] \in Tasks
  BY DEF Tasks, TaskRecord
<1>7. QED
  BY <1>1, <1>2, <1>3, <1>4, <1>5, <1>6

LEMMA ServerStep ==
  ASSUME TypeOK, NEW n \in Node, NodeNext(n)
  PROVE  server' \in Servers
<1>1. server \in Servers
  BY DEF TypeOK, Servers
<1> USE DEF State
<1>2. CASE \/ Start(n) \/ StartCheck(n) \/ Sync(n) \/ Exit(n) \/ Reinstall(n)
           \/ ReinstallStop(n) \/ CreateInstaller(n) \/ StartInstaller(n) \/ InstallerExits(n)
           \/ InstallEnds(n) \/ Clean(n) \/ DestroyFiles(n) \/ Save(n) \/ Saved(n) \/ Resume(n)
  BY <1>1, <1>2 DEF Start, StartCheck, Sync, Exit, Reinstall, ReinstallStop, CreateInstaller,
     StartInstaller, InstallerExits, InstallEnds, Clean, DestroyFiles, Save, Saved, Resume,
     Unsaved
<1>3. CASE \/ StartSync(n) \/ SyncStore(n) \/ SeeRunning(n) \/ ReinstallSync(n)
           \/ InstallCheck(n) \/ FetchScript(n) \/ Settle(n)
           \/ \E removed \in BOOLEAN : DestroyRemove(n, removed)
  <2>1. \A b \in BOOLEAN : /\ [server EXCEPT ![n].suspended = b] \in Servers
                           /\ [server EXCEPT ![n].installing = b] \in Servers
                           /\ [server EXCEPT ![n].script = b] \in Servers
                           /\ [server EXCEPT ![n].crash_handled = b] \in Servers
    BY <1>1, ServerFields
  <2>2. /\ [server EXCEPT ![n].state = "running"] \in Servers
        /\ [server EXCEPT ![n].container = "none"] \in Servers
    BY <1>1, ServerFields
  <2>3. CASE StartSync(n) \/ SyncStore(n) \/ ReinstallSync(n)
    BY <2>1, <2>3 DEF StartSync, SyncStore, ReinstallSync
  <2>4. CASE InstallCheck(n) \/ FetchScript(n) \/ SeeRunning(n)
    BY <1>1, <2>1, <2>2, <2>4 DEF InstallCheck, FetchScript, SeeRunning
  <2>5. CASE Settle(n) \/ \E removed \in BOOLEAN : DestroyRemove(n, removed)
    BY <1>1, <2>1, <2>2, <2>5 DEF Settle, DestroyRemove
  <2>6. QED
    BY <1>3, <2>3, <2>4, <2>5
<1>4. CASE \E removed \in BOOLEAN : StartClaim(n, removed)
  <2>1. [server EXCEPT ![n].state = "starting"] \in Servers
    BY <1>1, ServerFields
  <2>2. QED
    BY <1>4, <2>1, ServerFields DEF StartClaim
<1>5. CASE StartCreate(n) \/ Attach(n)
  <2>1. [server EXCEPT ![n].container = "watched"] \in Servers
    BY <1>1, ServerFields
  <2>2. QED
    BY <1>1, <1>5, <2>1, ServerFields
       DEF StartCreate, Attach, AttachNothing, AttachWatches, AttachPanics
<1>6. CASE StartFails(n) \/ SeeEnded(n)
  <2>1. [server EXCEPT ![n].state = "offline"] \in Servers
    BY <1>1, ServerFields
  <2>2. \A c \in {"watched", "ended"} :
          [server EXCEPT ![n].state = "offline", ![n].container = c] \in Servers
    BY <2>1, ServerFields
  <2>3. \A b \in BOOLEAN :
          [server EXCEPT ![n].state = "offline", ![n].crash_handled = b] \in Servers
    BY <2>1, ServerFields
  <2>4. \A c \in {"watched", "ended"}, b \in BOOLEAN :
          [server EXCEPT ![n].state = "offline", ![n].container = c,
                         ![n].crash_handled = b] \in Servers
    BY <2>2, ServerFields
  <2>5. QED
    BY <1>6, <2>3, <2>4 DEF StartFails, SeeEnded
<1>7. CASE Unset(n) \/ AttachInstaller(n)
  <2>1. \A b \in BOOLEAN : [server EXCEPT ![n].installing = b] \in Servers
    BY <1>1, ServerFields
  <2>2. \A b \in BOOLEAN : [server EXCEPT ![n].installing = b, ![n].script = b] \in Servers
    BY <2>1, ServerFields
  <2>3. QED
    BY <1>7, <2>2 DEF Unset, AttachInstaller
<1>8. CASE Delete(n) \/ DestroyKill(n)
  <2>1. [server EXCEPT ![n].listed = FALSE] \in Servers
    BY <1>1, ServerFields
  <2>2. [server EXCEPT ![n].listed = FALSE, ![n].suspended = TRUE] \in Servers
    BY <2>1, ServerFields
  <2>3. [server EXCEPT ![n].suspended = TRUE] \in Servers
    BY <1>1, ServerFields
  <2>4. /\ server[n].state \in State
        /\ [server EXCEPT ![n].suspended = TRUE][n].state = server[n].state
    BY <1>1 DEF Servers, ServerRecord
  <2>5. \A v \in State :
          [ [server EXCEPT ![n].suspended = TRUE] EXCEPT ![n].state = v] \in Servers
    BY <2>3, ServerFields
  <2>6. CASE DestroyKill(n)
    BY <2>3, <2>4, <2>5, <2>6 DEF DestroyKill
  <2>7. QED
    BY <1>8, <2>2, <2>6 DEF Delete
<1>9. CASE Create(n) \/ Crash(n) \/ HostCrash(n) \/ Boot(n)
  BY <1>1, <1>9, Constants DEF Create, Crash, HostCrash, Down, Boot, Servers
<1>10. QED
  BY <1>2, <1>3, <1>4, <1>5, <1>6, <1>7, <1>8, <1>9
     DEF NodeNext, Requests, StartSteps, InstallSteps, DestroySteps, BootSteps

LEMMA TaskStep ==
  ASSUME TypeOK, NEW n \in Node, NodeNext(n)
  PROVE  task' \in Tasks
<1>1. task \in Tasks
  BY DEF TypeOK, Tasks
<1>a. /\ \A s \in {"idle", "begin", "claim", "sync", "create"} : [task EXCEPT ![n].start = s] \in Tasks
      /\ \A d \in {"idle", "kill", "remove", "files", "done"} : [task EXCEPT ![n].destroy = d] \in Tasks
      /\ \A i \in Installs : [task EXCEPT ![n].install = i] \in Tasks
      /\ \A b \in {"idle", "attach", "wait"} : [task EXCEPT ![n].boot = b] \in Tasks
  BY <1>1, TaskFields
<1>b. \A b \in BOOLEAN : /\ [task EXCEPT ![n].sync = b] \in Tasks
                         /\ [task EXCEPT ![n].settle = b] \in Tasks
  BY <1>1, TaskFields
<1>c. \A i \in Installs, b \in BOOLEAN :
        /\ [task EXCEPT ![n].install = i, ![n].starts = b] \in Tasks
        /\ [task EXCEPT ![n].install = i, ![n].installer = b] \in Tasks
  BY <1>a, TaskFields
<1>2. CASE \/ Exit(n) \/ SeeRunning(n) \/ InstallerExits(n) \/ Save(n) \/ Saved(n)
           \/ SeeEnded(n)
  BY <1>1, <1>a, <1>2 DEF Exit, SeeRunning, InstallerExits, Save, Saved, Unsaved, SeeEnded
<1>3. CASE \/ Start(n) \/ StartCheck(n) \/ StartSync(n) \/ StartCreate(n) \/ StartFails(n)
           \/ \E removed \in BOOLEAN : StartClaim(n, removed)
  BY <1>a, <1>3 DEF Start, StartCheck, StartSync, StartCreate, StartFails, StartClaim
<1>4. CASE Sync(n) \/ SyncStore(n) \/ Settle(n)
  BY <1>b, <1>4 DEF Sync, SyncStore, Settle
<1>5. CASE \/ Reinstall(n) \/ ReinstallStop(n) \/ ReinstallSync(n) \/ InstallCheck(n)
           \/ FetchScript(n) \/ InstallEnds(n) \/ Unset(n)
  BY <1>a, <1>c, <1>5 DEF Reinstall, ReinstallStop, ReinstallSync, InstallCheck, FetchScript,
     InstallEnds, Unset, InstallGoes, InstallOver, Installs
<1>6. CASE CreateInstaller(n) \/ StartInstaller(n) \/ AttachInstaller(n) \/ Create(n)
  BY <1>a, <1>c, <1>6 DEF CreateInstaller, StartInstaller, AttachInstaller, Create,
     InstallGoes, InstallOver, Installs
<1>7. CASE Clean(n)
  <2> DEFINE ended == [task[n] EXCEPT !.install = "idle", !.starts = FALSE, !.installer = FALSE]
  <2>a. \A r \in TaskRecord : /\ [r EXCEPT !.install = "idle"] \in TaskRecord
                              /\ [r EXCEPT !.starts = FALSE] \in TaskRecord
                              /\ [r EXCEPT !.installer = FALSE] \in TaskRecord
                              /\ [r EXCEPT !.start = "begin"] \in TaskRecord
    BY DEF TaskRecord
  <2>b. task[n] \in TaskRecord
    BY <1>1 DEF Tasks
  <2>c. [task[n] EXCEPT !.install = "idle", !.starts = FALSE] \in TaskRecord
    BY <2>a, <2>b
  <2>1. ended \in TaskRecord /\ [ended EXCEPT !.start = "begin"] \in TaskRecord
    BY <2>a, <2>c
  <2>2. QED
    BY <1>1, <1>7, <2>1 DEF Clean, Tasks
<1>8. CASE \/ Delete(n) \/ DestroyKill(n) \/ DestroyFiles(n)
           \/ \E removed \in BOOLEAN : DestroyRemove(n, removed)
  BY <1>a, <1>8 DEF Delete, DestroyKill, DestroyFiles, DestroyRemove, DestroyGoes
<1>9. CASE Attach(n)
  <2>1. [task EXCEPT ![n].boot = "wait", ![n].settle = TRUE] \in Tasks
    BY <1>a, TaskFields
  <2>2. [task EXCEPT ![n].boot = "idle"] \in Tasks
    BY <1>a
  <2>3. [task EXCEPT ![n].boot = "idle", ![n].saved = "none"] \in Tasks
    BY <2>2, TaskFields
  <2>4. QED
    BY <1>a, <1>9, <2>1, <2>3 DEF Attach, AttachNothing, AttachWatches, AttachPanics
<1>10. CASE Resume(n)
  <2>1. [task EXCEPT ![n].boot = "idle"] \in Tasks
    BY <1>a
  <2>2. [task EXCEPT ![n].boot = "idle", ![n].saved = "none"] \in Tasks
    BY <2>1, TaskFields
  <2>3. /\ task[n].start \in {"idle", "begin", "claim", "sync", "create"}
        /\ [task EXCEPT ![n].boot = "idle", ![n].saved = "none"][n].start = task[n].start
    BY <1>1 DEF Tasks, TaskRecord
  <2>4. \A s \in {"idle", "begin", "claim", "sync", "create"} :
          [[task EXCEPT ![n].boot = "idle", ![n].saved = "none"] EXCEPT ![n].start = s] \in Tasks
    BY <2>2, TaskFields
  <2>5. QED
    BY <1>10, <2>3, <2>4 DEF Resume
<1>11. CASE Crash(n) \/ HostCrash(n) \/ Boot(n)
  <2>1. file[n].states \in {"none"} \cup State
    BY DEF TypeOK
  <2>2. QED
    BY <1>1, <1>11, <2>1, Constants DEF Crash, HostCrash, Down, Boot, Tasks
<1>12. QED
  BY <1>2, <1>3, <1>4, <1>5, <1>6, <1>7, <1>8, <1>9, <1>10, <1>11
     DEF NodeNext, Requests, StartSteps, InstallSteps, DestroySteps, BootSteps

LEMMA OutsideStep ==
  ASSUME TypeOK, NEW n \in Node, NodeNext(n)
  PROVE  /\ up' \in [Node -> BOOLEAN] /\ docker' \in Containers /\ files' \in FilesOf
         /\ file' \in FileOf /\ save' \in SaveOf
<1> USE DEF Elsewhere, world
<1>1. /\ up \in [Node -> BOOLEAN] /\ docker \in Containers /\ files \in FilesOf
      /\ file \in FileOf /\ save \in SaveOf /\ server[n] \in ServerRecord
  BY DEF TypeOK, Containers, FilesOf, FileOf, SaveOf, SaveRecord
<1>2. /\ \A c \in {"none", "created", "running", "stopped", "crashed"} :
           [docker EXCEPT ![n].server = c] \in Containers
      /\ \A c \in {"none", "created", "running", "exited"} :
           [docker EXCEPT ![n].installer = c] \in Containers
      /\ [docker EXCEPT ![n] = [server |-> "none", installer |-> "none"]] \in Containers
  BY <1>1 DEF Containers
<1>3. CASE \/ Start(n) \/ StartCheck(n) \/ StartSync(n) \/ StartCreate(n) \/ StartFails(n)
           \/ Sync(n) \/ SyncStore(n) \/ Exit(n) \/ SeeRunning(n) \/ SeeEnded(n)
  BY <1>1, <1>2, <1>3 DEF Start, StartCheck, StartSync, StartCreate, StartFails, Sync,
     SyncStore, Exit, SeeRunning, SeeEnded
<1>4. CASE \E removed \in BOOLEAN : StartClaim(n, removed)
  BY <1>1, <1>2, <1>4 DEF StartClaim, FilesOf
<1>5. CASE Create(n) \/ Boot(n)
  <2>1. [files EXCEPT ![n] = "whole"] \in FilesOf /\ [up EXCEPT ![n] = TRUE] \in [Node -> BOOLEAN]
    BY <1>1 DEF FilesOf
  <2>2. [file EXCEPT ![n] = Erased] \in FileOf
    BY <1>1 DEF FileOf, Erased
  <2>3. QED
    BY <1>1, <1>5, <2>1, <2>2 DEF Create, Boot
<1>6. CASE \/ Reinstall(n) \/ ReinstallStop(n) \/ ReinstallSync(n) \/ InstallCheck(n)
           \/ FetchScript(n) \/ CreateInstaller(n) \/ StartInstaller(n) \/ InstallerExits(n)
           \/ InstallEnds(n) \/ Unset(n) \/ Clean(n) \/ AttachInstaller(n)
  BY <1>1, <1>2, <1>6 DEF Reinstall, ReinstallStop, ReinstallSync, InstallCheck, FetchScript,
     CreateInstaller, StartInstaller, InstallerExits, InstallEnds, Unset, Clean,
     AttachInstaller, Aside
<1>7. CASE \/ Delete(n) \/ DestroyKill(n) \/ DestroyFiles(n)
           \/ \E removed \in BOOLEAN : DestroyRemove(n, removed)
  BY <1>1, <1>2, <1>7 DEF Delete, DestroyKill, DestroyFiles, DestroyRemove, FilesOf
<1>8. CASE Attach(n) \/ Settle(n) \/ Resume(n)
  BY <1>1, <1>8 DEF Attach, AttachNothing, AttachWatches, AttachPanics, Settle, Resume
<1>9. CASE Save(n)
  <2>1. server[n].state \in State
    BY <1>1 DEF ServerRecord
  <2>2. /\ [of |-> "states", installing |-> FALSE,
            state |-> IF server[n].listed THEN server[n].state ELSE "none"]
             \in SaveRecord
        /\ [of |-> "installing", state |-> "none",
            installing |-> server[n].listed /\ server[n].script]
             \in SaveRecord
    BY <1>1, <2>1 DEF ServerRecord, SaveRecord
  <2>3. /\ [file EXCEPT ![n].states = "none"] \in FileOf
        /\ [file EXCEPT ![n].installing = FALSE] \in FileOf
    BY <1>1 DEF FileOf
  <2>4. QED
    <3>1. \A r \in SaveRecord : [save EXCEPT ![n] = r] \in SaveOf
      BY <1>1 DEF SaveOf
    <3>2. save' \in SaveOf /\ file' \in FileOf
      BY <1>9, <2>2, <2>3, <3>1 DEF Save
    <3>3. QED
      BY <1>1, <1>9, <3>2 DEF Save, Unsaved
<1>10. CASE Saved(n)
  BY <1>1, <1>10 DEF Saved, Unsaved, SaveOf, SaveRecord, FileOf, NoSave
<1>11. CASE Crash(n) \/ HostCrash(n)
  <2>1. /\ docker[n].server \in {"none", "created", "running", "stopped", "crashed"}
        /\ docker[n].installer \in {"none", "created", "running", "exited"}
    BY <1>1 DEF Containers
  <2>2. \A c \in {"none", "created", "running", "stopped", "crashed"},
           i \in {"none", "created", "running", "exited"} :
          [docker EXCEPT ![n].server = c, ![n].installer = i] \in Containers
    BY <1>1 DEF Containers
  <2>3. HostCrash(n) => docker' \in Containers
    <3>1. [docker EXCEPT ![n].server = IF @ = "running" THEN "stopped" ELSE @][n].installer
            = docker[n].installer
      BY <1>1 DEF Containers
    <3>2. QED
      BY <2>1, <2>2, <3>1 DEF HostCrash
  <2>4. QED
    <3>1. [save EXCEPT ![n] = NoSave] \in SaveOf /\ [up EXCEPT ![n] = FALSE] \in [Node -> BOOLEAN]
      BY <1>1 DEF SaveOf, SaveRecord, NoSave
    <3>2. QED
      BY <1>1, <1>11, <2>3, <3>1 DEF Crash, HostCrash, Down
<1>12. QED
  BY <1>3, <1>4, <1>5, <1>6, <1>7, <1>8, <1>9, <1>10, <1>11
     DEF NodeNext, Requests, StartSteps, InstallSteps, DestroySteps, BootSteps

LEMMA NotesStep ==
  ASSUME TypeOK, NEW n \in Node, NodeNext(n)
  PROVE  at' \in Node \cup {Nowhere} /\ owed' \in OwedBy /\ left' \subseteq Node /\ late' \subseteq Node
<1>1. at \in Node \cup {Nowhere} /\ owed \in OwedBy /\ left \subseteq Node /\ late \subseteq Node
  BY DEF TypeOK, OwedBy
<1> USE DEF Elsewhere
<1>2. \A what \in {"run", "install"} : Paid(n, what) => owed' \in OwedBy
  BY <1>1 DEF Paid, OwedBy
<1>3. CASE \/ Start(n) \/ StartCheck(n) \/ StartSync(n) \/ StartCreate(n) \/ StartFails(n)
           \/ Sync(n) \/ SyncStore(n) \/ SeeRunning(n) \/ SeeEnded(n)
           \/ \E removed \in BOOLEAN : StartClaim(n, removed)
  BY <1>1, <1>2, <1>3 DEF Start, StartCheck, StartSync, StartCreate, StartFails, Sync,
     SyncStore, SeeRunning, SeeEnded, StartClaim
<1>4. CASE Exit(n) \/ Create(n) \/ Boot(n)
  BY <1>1, <1>4 DEF Exit, Create, Boot, OwedBy
<1>5. CASE \/ Reinstall(n) \/ ReinstallStop(n) \/ ReinstallSync(n) \/ InstallCheck(n)
           \/ FetchScript(n) \/ CreateInstaller(n) \/ StartInstaller(n) \/ InstallerExits(n)
           \/ InstallEnds(n) \/ Unset(n) \/ Clean(n) \/ AttachInstaller(n)
  BY <1>1, <1>2, <1>5 DEF Reinstall, ReinstallStop, ReinstallSync, InstallCheck, FetchScript,
     CreateInstaller, StartInstaller, InstallerExits, InstallEnds, Unset, Clean,
     AttachInstaller, Aside
<1>6. CASE \/ Delete(n) \/ DestroyKill(n) \/ DestroyFiles(n)
           \/ \E removed \in BOOLEAN : DestroyRemove(n, removed)
  BY <1>1, <1>6 DEF Delete, DestroyKill, DestroyFiles, DestroyRemove, OwedBy
<1>7. CASE Attach(n) \/ Settle(n) \/ Resume(n) \/ Save(n) \/ Saved(n)
  BY <1>1, <1>2, <1>7 DEF Attach, AttachNothing, AttachWatches, AttachPanics, Settle, Resume,
     Save, Saved, Unsaved
<1>8. CASE Crash(n) \/ HostCrash(n)
  BY <1>1, <1>8 DEF Crash, HostCrash, Down, OwedBy
<1>9. QED
  BY <1>3, <1>4, <1>5, <1>6, <1>7, <1>8
     DEF NodeNext, Requests, StartSteps, InstallSteps, DestroySteps, BootSteps

\* What a node does keeps the types.
LEMMA TypeStep ==
  ASSUME TypeOK, NEW n \in Node, NodeNext(n)
  PROVE  TypeOK'
  BY ServerStep, TaskStep, OutsideStep, NotesStep
     DEF TypeOK, Servers, Tasks, Containers, FilesOf, FileOf, SaveOf, SaveRecord, OwedBy

(***************************************************************************)
(* Deleted servers                                                         *)
(***************************************************************************)

\* What a node does is done at that node.
LEMMA Local ==
  ASSUME TypeOK, NEW n \in Node, NodeNext(n), NEW m \in Node, m # n
  PROVE  /\ task'[m] = task[m] /\ server'[m] = server[m] /\ docker'[m] = docker[m]
         /\ files'[m] = files[m] /\ up'[m] = up[m] /\ (m \in left' <=> m \in left)
<1> USE DEF Elsewhere, world, TypeOK
<1>1. CASE \/ Start(n) \/ StartCheck(n) \/ StartSync(n) \/ StartCreate(n) \/ StartFails(n)
           \/ \E removed \in BOOLEAN : StartClaim(n, removed)
  BY <1>1 DEF Start, StartCheck, StartSync, StartCreate, StartFails, StartClaim
<1>2. CASE Sync(n) \/ SyncStore(n) \/ Exit(n) \/ SeeRunning(n) \/ SeeEnded(n)
  BY <1>2 DEF Sync, SyncStore, Exit, SeeRunning, SeeEnded
<1>3. CASE \/ Reinstall(n) \/ ReinstallStop(n) \/ ReinstallSync(n) \/ InstallCheck(n)
           \/ FetchScript(n) \/ CreateInstaller(n)
  BY <1>3 DEF Reinstall, ReinstallStop, ReinstallSync, InstallCheck, FetchScript,
     CreateInstaller, Aside, InstallGoes, InstallOver
<1>4. CASE \/ StartInstaller(n) \/ InstallerExits(n) \/ InstallEnds(n) \/ Unset(n)
           \/ Clean(n) \/ AttachInstaller(n) \/ Create(n)
  BY <1>4 DEF StartInstaller, InstallerExits, InstallEnds, Unset, Clean, AttachInstaller,
     Create, Aside, InstallGoes, InstallOver
<1>5. CASE \/ Delete(n) \/ DestroyKill(n) \/ DestroyFiles(n)
           \/ \E removed \in BOOLEAN : DestroyRemove(n, removed)
  BY <1>5 DEF Delete, DestroyKill, DestroyFiles, DestroyRemove, DestroyGoes
<1>6. CASE Attach(n) \/ Settle(n) \/ Resume(n) \/ Save(n) \/ Saved(n)
  BY <1>6 DEF Attach, AttachNothing, AttachWatches, AttachPanics, Settle, Resume, Save,
     Saved, Unsaved
<1>7. CASE Crash(n) \/ HostCrash(n) \/ Boot(n)
  BY <1>7 DEF Crash, HostCrash, Down, Boot
<1>8. QED
  BY <1>1, <1>2, <1>3, <1>4, <1>5, <1>6, <1>7
     DEF NodeNext, Requests, StartSteps, InstallSteps, DestroySteps, BootSteps

\* A server that is deleted stays suspended, so that no start gets past its check, and
\* nothing is under way that would create a container or lift the suspension.
Gone(n) ==
  task[n].destroy # "idle" =>
    /\ ~server[n].listed
    /\ n \notin left =>
         /\ server[n].suspended
         /\ task[n].start \in {"idle", "begin"} /\ ~task[n].sync
         /\ task[n].install \notin {"stop", "sync"}
         /\ task[n].destroy \in {"files", "done"} => docker[n].server = "none"

LEMMA GoneStep ==
  ASSUME TypeOK, NEW n \in Node, NodeNext(n), Gone(n)
  PROVE  Gone(n)'
<1>1. /\ server \in Servers /\ task \in Tasks /\ docker \in Containers
  BY DEF TypeOK, Servers, Tasks, Containers
<1> USE <1>1 DEF Elsewhere, Servers, Tasks, Containers, ServerRecord, TaskRecord, Gone
<1>2. CASE Start(n) \/ StartCheck(n) \/ StartSync(n)
  BY <1>2 DEF Start, StartCheck, StartSync, Locked
<1>3. CASE \E removed \in BOOLEAN : StartClaim(n, removed)
  BY <1>3 DEF StartClaim
<1>4. CASE StartCreate(n) \/ StartFails(n)
  BY <1>4 DEF StartCreate, StartFails
<1>5. CASE Sync(n) \/ SyncStore(n)
  BY <1>5 DEF Sync, SyncStore
<1>6. CASE Exit(n) \/ SeeRunning(n)
  <2>1. CASE Exit(n)
    BY <2>1 DEF Exit
  <2>2. CASE SeeRunning(n)
    BY <2>2 DEF SeeRunning
  <2>3. QED
    BY <1>6, <2>1, <2>2
<1>7. CASE SeeEnded(n)
  BY <1>7 DEF SeeEnded
<1>8. CASE Reinstall(n) \/ ReinstallStop(n) \/ ReinstallSync(n)
  <2>1. CASE Reinstall(n)
    BY <2>1 DEF Reinstall
  <2>2. CASE ReinstallStop(n)
    BY <2>2 DEF ReinstallStop, Aside, InstallGoes
  <2>3. CASE ReinstallSync(n)
    BY <2>3 DEF ReinstallSync, Aside, InstallGoes
  <2>4. QED
    BY <1>8, <2>1, <2>2, <2>3
<1>9. CASE InstallCheck(n) \/ FetchScript(n)
  <2>1. CASE InstallCheck(n)
    <3>1. /\ task'[n].destroy = task[n].destroy /\ task'[n].sync = task[n].sync
          /\ task'[n].install \in {"idle", "script"} /\ task'[n].start = task[n].start
      BY <2>1 DEF InstallCheck, InstallGoes, InstallOver
    <3>2. /\ server'[n].listed = server[n].listed /\ server'[n].suspended = server[n].suspended
          /\ UNCHANGED <<docker, left>>
      BY <2>1 DEF InstallCheck, Aside
    <3>3. QED
      BY <3>1, <3>2
  <2>2. CASE FetchScript(n)
    <3>1. /\ task'[n].destroy = task[n].destroy /\ task'[n].sync = task[n].sync
          /\ task'[n].install \in {"create", "unset"} /\ task'[n].start = task[n].start
      BY <2>2 DEF FetchScript, InstallGoes, InstallOver
    <3>2. /\ server'[n].listed = server[n].listed /\ server'[n].suspended = server[n].suspended
          /\ UNCHANGED <<docker, left>>
      BY <2>2 DEF FetchScript, Aside
    <3>3. QED
      BY <3>1, <3>2
  <2>3. QED
    BY <1>9, <2>1, <2>2
<1>10. CASE CreateInstaller(n) \/ StartInstaller(n) \/ InstallerExits(n) \/ InstallEnds(n)
  BY <1>10 DEF CreateInstaller, StartInstaller, InstallerExits, InstallEnds, Aside,
     InstallGoes, InstallOver
<1>11. CASE Unset(n) \/ AttachInstaller(n)
  BY <1>11 DEF Unset, AttachInstaller, Aside, InstallGoes
<1>12. CASE Clean(n)
  <2>1. /\ task'[n].destroy = task[n].destroy /\ task'[n].sync = task[n].sync
        /\ task'[n].install = "idle" /\ task'[n].start \in {"begin", task[n].start}
    <3> DEFINE r == [task[n] EXCEPT !.install = "idle", !.starts = FALSE, !.installer = FALSE]
    <3>1. /\ r.destroy = task[n].destroy /\ r.sync = task[n].sync
          /\ r.install = "idle" /\ r.start = task[n].start
      OBVIOUS
    <3>2. LET q == [r EXCEPT !.start = "begin"]
          IN  /\ q.destroy = task[n].destroy /\ q.sync = task[n].sync
              /\ q.install = "idle" /\ q.start = "begin"
      OBVIOUS
    <3>3. task'[n] \in {r, [r EXCEPT !.start = "begin"]}
      BY <1>12 DEF Clean
    <3>4. QED
      BY <3>1, <3>2, <3>3
  <2>2. /\ UNCHANGED <<server, left>>
        /\ docker[n].server = "none" => docker'[n].server = "none"
    BY <1>12 DEF Clean, Aside
  <2>3. QED
    BY <2>1, <2>2
<1>13. CASE Create(n)
  BY <1>13 DEF Create
<1>14. CASE Delete(n)
  BY <1>14 DEF Delete, UnderWay, world
<1>15. CASE DestroyKill(n)
  BY <1>15 DEF DestroyKill, DestroyGoes
<1>16. CASE \E removed \in BOOLEAN : DestroyRemove(n, removed)
  BY <1>16 DEF DestroyRemove, DestroyGoes
<1>17. CASE DestroyFiles(n)
  BY <1>17 DEF DestroyFiles, DestroyGoes
<1>18. CASE Attach(n) \/ Settle(n)
  <2>1. CASE Attach(n)
    <3>1. /\ task'[n].destroy = task[n].destroy /\ task'[n].sync = task[n].sync
          /\ task'[n].install = task[n].install /\ task'[n].start = task[n].start
          /\ server'[n].listed = server[n].listed /\ server'[n].suspended = server[n].suspended
          /\ UNCHANGED <<docker, left>>
      BY <2>1 DEF Attach, AttachNothing, AttachWatches, AttachPanics
    <3>2. QED
      BY <3>1
  <2>2. CASE Settle(n)
    <3>1. /\ task'[n].destroy = task[n].destroy /\ task'[n].sync = task[n].sync
          /\ task'[n].install = task[n].install /\ task'[n].start = task[n].start
          /\ server'[n].listed = server[n].listed /\ server'[n].suspended = server[n].suspended
          /\ UNCHANGED <<docker, left>>
      BY <2>2 DEF Settle
    <3>2. QED
      BY <3>1
  <2>3. QED
    BY <1>18, <2>1, <2>2
<1>19. CASE Resume(n)
  BY <1>19 DEF Resume
<1>20. CASE Save(n) \/ Saved(n)
  BY <1>20 DEF Save, Saved, Unsaved
<1>21. CASE Crash(n) \/ HostCrash(n)
  BY <1>21 DEF Crash, HostCrash, Down, NoTasks
<1>22. CASE Boot(n)
  BY <1>22 DEF Boot, NoTasks
<1>23. QED
  BY <1>2, <1>3, <1>4, <1>5, <1>6, <1>7, <1>8, <1>9, <1>10, <1>11, <1>12, <1>13, <1>14,
     <1>15, <1>16, <1>17, <1>18, <1>19, <1>20, <1>21, <1>22
     DEF NodeNext, Requests, StartSteps, InstallSteps, DestroySteps, BootSteps

\* Types, and what is known of deleted servers.
Inv == TypeOK /\ \A n \in Node : Gone(n)

\* Every step of the node keeps it.
LEMMA InvStep ==
  ASSUME Inv, NEW n \in Node, NodeNext(n)
  PROVE  Inv'
<1>1. TypeOK' /\ Gone(n)'
  BY TypeStep, GoneStep DEF Inv
<1>2. ASSUME NEW m \in Node, m # n
      PROVE  Gone(m)'
  BY <1>2, Local DEF Inv, Gone
<1>3. QED
  BY <1>1, <1>2 DEF Inv

\* So does a step that changes nothing.
LEMMA InvStutter == Inv /\ UNCHANGED vars => Inv'
  BY DEF Inv, TypeOK, Gone, vars, world

\* The invariant holds when the node starts.
LEMMA InvInit == Init => Inv
<1> SUFFICES ASSUME Init
             PROVE  Inv
  OBVIOUS
<1> USE DEF Init
<1>1. \A n \in Node : server[n] \in ServerRecord
  BY Constants DEF Init
<1>2. server \in [Node -> ServerRecord] /\ task \in [Node -> TaskRecord]
  BY <1>1, Constants
<1>3. /\ up \in [Node -> BOOLEAN]
      /\ docker \in [Node -> [server : {"none", "created", "running", "stopped", "crashed"},
                              installer : {"none", "created", "running", "exited"}]]
      /\ files \in [Node -> {"none", "part", "copy", "whole"}]
  OBVIOUS
<1>4. file \in [Node -> [states : {"none"} \cup State, installing : BOOLEAN]]
  BY DEF Erased
<1>5. save \in [Node -> [of : {"none", "states", "installing"},
                         state : {"none"} \cup State, installing : BOOLEAN]]
  BY DEF NoSave
<1>6. /\ at \in Node \cup {Nowhere}
      /\ owed \in [Node -> SUBSET {"run", "install"}]
      /\ left \subseteq Node /\ late \subseteq Node
  BY ManagerAssumption
<1>7. \A n \in Node : Gone(n)
  BY DEF Gone, NoTasks
<1>8. QED
  BY <1>2, <1>3, <1>4, <1>5, <1>6, <1>7 DEF Inv, TypeOK

\* Once a server has been destroyed, it has no container, whoever still holds it and asks for
\* a start, and whatever the monitor, an installation or another boot does; unless a start or
\* a sync was under way when it was deleted, or Docker refused the removal.
THEOREM DeletedHasNoContainer == Spec => []DeletedStaysDown
<1>1. Inv /\ [Next]_vars => Inv'
  BY InvStutter, InvStep DEF Next
<1>2. Inv => DeletedStaysDown
  BY DEF Inv, Gone, DeletedStaysDown
<1>3. QED
  BY <1>1, <1>2, InvInit, PTL DEF Spec

(***************************************************************************)
(* Transfers                                                               *)
(***************************************************************************)

\* Where the files are.  The destination never destroys the server, the source only once the
\* panel has it elsewhere; a request is accepted only where the server is not, and whoever
\* reports that it has been moved has all that a transfer carries, or has seen a stream that
\* broke off before the archive began.
Moving ==
  /\ at \in {Home, Dest, Nowhere}
  /\ task[Dest].destroy = "idle"
  /\ task[Home].destroy # "idle" => at # Home
  /\ at = Home => files[Home] = "whole"
  /\ at = Dest /\ ~vacant => files[Dest] = "copy"
  /\ receiver # "idle" => up[Dest]
  /\ receiver = "accept" => at # Dest
  /\ receiver \notin {"idle", "accept"} => server[Dest].listed
  /\ at = Dest /\ up[Dest] => server[Dest].listed
  /\ receiver = "tell" /\ ~vacant => files[Dest] = "copy"

\* The steps of the transfer keep the types of its own state.
LEMMA TransferTypes == TransferTypeOK /\ [TransferNext]_allVars => TransferTypeOK'
<1> SUFFICES ASSUME TransferTypeOK, [TransferNext]_allVars
             PROVE  TransferTypeOK'
  OBVIOUS
<1> USE DEF TransferTypeOK
<1>1. CASE BeginTransfer \/ SenderStop \/ Connect \/ SendArchive \/ Break
  BY <1>1 DEF BeginTransfer, SenderStop, Connect, SendArchive, Break
<1>2. CASE SenderEnds \/ ArchiveFails \/ TransferFails \/ CancelOutgoing
  BY <1>2 DEF SenderEnds, ArchiveFails, TransferFails, CancelOutgoing
<1>3. CASE Receive \/ ReceiveFails \/ ReceiveLock \/ ReceiveField \/ UnpackFails
  BY <1>3 DEF Receive, ReceiveFails, ReceiveLock, ReceiveField, UnpackFails
<1>4. CASE Unpack \/ Tell \/ Unflag \/ CancelIncoming
  BY <1>4 DEF Unpack, Tell, Unflag, CancelIncoming, moving
<1>5. ASSUME NEW n \in Node, NodesNext(n) \/ GoesDown(n)
      PROVE  TransferTypeOK'
  BY <1>5 DEF NodesNext, GoesDown, moving
<1>6. CASE UNCHANGED allVars
  BY <1>6 DEF allVars, moving
<1>7. QED
  BY <1>1, <1>2, <1>3, <1>4, <1>5, <1>6 DEF TransferNext, SourceNext, DestNext

\* What the source and the destination do to a server that is or may be moved: they lock and
\* unlock it, the source stops its process, the destination lists it; nothing is deleted.
Handles ==
  /\ server' \in Servers /\ docker' \in Containers /\ files' \in FilesOf
  /\ at' \in {at, Dest}
  /\ UNCHANGED <<up, file, save, task, owed, left, late>>
  /\ \A m \in Node :
       \/ server'[m] = New /\ m = Dest
       \/ server'[m].listed = server[m].listed /\ server'[m].suspended = server[m].suspended
  /\ \A m \in Node : docker[m].server = "none" => docker'[m].server = "none"

LEMMA TransferHandles == ASSUME TypeOK, SourceNext \/ DestNext
                         PROVE  Handles
<1> USE TransferAssumption, ManagerAssumption DEF NodesStay, NodesRest
<1>1. server \in Servers /\ docker \in Containers /\ files \in FilesOf
  BY DEF TypeOK, Servers, Containers, FilesOf
<1>2. \A m \in Node, b \in BOOLEAN : [server EXCEPT ![m].transferring = b] \in Servers
  BY <1>1, ServerFields
<1>3. \A m \in Node, b \in BOOLEAN :
        /\ [server EXCEPT ![m].transferring = b][m].listed = server[m].listed
        /\ [server EXCEPT ![m].transferring = b][m].suspended = server[m].suspended
        /\ \A k \in Node \ {m} : [server EXCEPT ![m].transferring = b][k] = server[k]
  BY <1>1 DEF Servers, ServerRecord
<1>4. CASE \/ Connect \/ SendArchive \/ Break \/ ArchiveFails \/ ReceiveFails \/ ReceiveField
           \/ UnpackFails \/ Tell
  BY <1>1, <1>4 DEF Connect, SendArchive, Break, ArchiveFails, ReceiveFails, ReceiveField,
     UnpackFails, Tell, Handles
<1>5. CASE \/ BeginTransfer \/ SenderEnds \/ TransferFails \/ CancelOutgoing
           \/ ReceiveLock \/ Unflag \/ CancelIncoming
  <2>1. PICK m \in {Home, Dest}, b \in BOOLEAN : server' = [server EXCEPT ![m].transferring = b]
    BY <1>5 DEF BeginTransfer, SenderEnds, TransferFails, CancelOutgoing, ReceiveLock,
       Unflag, CancelIncoming
  <2>2. UNCHANGED <<docker, files, at, up, file, save, task, owed, left, late>>
    BY <1>5 DEF BeginTransfer, SenderEnds, TransferFails, CancelOutgoing, ReceiveLock,
       Unflag, CancelIncoming
  <2>3. QED
    <3>1. m \in Node
      OBVIOUS
    <3>2. /\ server' \in Servers
          /\ \A k \in Node : /\ server'[k].listed = server[k].listed
                             /\ server'[k].suspended = server[k].suspended
      <4>1. server' \in Servers
        BY <1>2, <2>1, <3>1
      <4>2. server'[m].listed = server[m].listed /\ server'[m].suspended = server[m].suspended
        BY <1>3, <2>1, <3>1
      <4>3. \A k \in Node \ {m} : server'[k] = server[k]
        BY <1>3, <2>1, <3>1
      <4>4. QED
        BY <4>1, <4>2, <4>3
    <3>3. QED
      BY <1>1, <2>2, <3>2 DEF Handles
<1>6. CASE SenderStop
  <2>1. /\ [docker EXCEPT ![Home].server = "stopped"] \in Containers
        /\ docker[Home].server = "running" =>
             \A m \in Node : docker[m].server = "none" =>
               [docker EXCEPT ![Home].server = "stopped"][m].server = "none"
    BY <1>1 DEF Containers
  <2>2. QED
    BY <1>1, <1>6, <2>1 DEF SenderStop, Handles
<1>7. CASE Receive
  BY <1>1, <1>7, Constants DEF Receive, Handles, Servers, FilesOf
<1>8. CASE Unpack
  BY <1>1, <1>8 DEF Unpack, Handles, FilesOf
<1>9. QED
  BY <1>4, <1>5, <1>6, <1>7, <1>8 DEF SourceNext, DestNext

\* The steps of the transfer keep what is known of deleted servers.
LEMMA HandlesKeep ==
  ASSUME Inv, task[Dest].destroy = "idle", Handles
  PROVE  Inv'
<1>1. TypeOK'
  BY TransferAssumption DEF Inv, TypeOK, Handles, Servers, Containers, FilesOf
<1>2. ASSUME NEW m \in Node
      PROVE  Gone(m)'
  BY DEF Inv, Gone, Handles
<1>3. QED
  BY <1>1, <1>2 DEF Inv

\* What the nodes do by themselves.
LEMMA NodeInv ==
  ASSUME Inv, NEW n \in Node, NodesNext(n) \/ GoesDown(n)
  PROVE  Inv'
  BY InvStep, ManagerAssumption
     DEF NodesNext, GoesDown, DeleteMoved, NodeNext, Requests

\* What the nodes do leaves the server where it is and its files alone, except for the files
\* of a server that is being destroyed.
Leaves ==
  /\ at' = at
  /\ \A m \in Node :
       /\ files'[m] = files[m] \/ files[m] = "none" \/ task[m].destroy = "files"
       /\ task'[m].destroy # "idle" => task[m].destroy # "idle" \/ (m = Home /\ at # Home)
       /\ up[m] => up'[m] /\ (m = Home \/ server'[m].listed = server[m].listed)
       /\ ~up[m] /\ up'[m] => (server'[m].listed <=> at = m)

LEMMA NodeLeaves == ASSUME TypeOK, NEW n \in Node, NodesNext(n)
                    PROVE  Leaves
<1>1. /\ server \in Servers /\ task \in Tasks /\ files \in FilesOf /\ up \in [Node -> BOOLEAN]
  BY DEF TypeOK, Servers, Tasks, FilesOf
<1> USE <1>1, ManagerAssumption DEF Elsewhere, Servers, Tasks, FilesOf, ServerRecord, TaskRecord
<1>2. CASE DeleteMoved
  BY <1>2 DEF DeleteMoved, Delete, world, Leaves
<1>3. CASE Boot(n)
  BY <1>3 DEF Boot, New, NoTasks, Leaves
<1>a. ASSUME NodeNext(n), at' = at, up' = up,
             files'[n] = files[n] \/ files[n] = "none" \/ task[n].destroy = "files",
             task'[n].destroy # "idle" => task[n].destroy # "idle",
             server'[n].listed = server[n].listed
      PROVE  Leaves
  BY <1>a, Local DEF Leaves
<1>4. CASE Start(n) \/ StartCheck(n) \/ StartSync(n) \/ StartCreate(n) \/ StartFails(n)
  <2>1. NodeNext(n) /\ at' = at /\ up' = up /\ files' = files
    BY <1>4 DEF NodeNext, Requests, StartSteps, Start, StartCheck, StartSync, StartCreate,
       StartFails
  <2>2. task'[n].destroy = task[n].destroy
    BY <1>4 DEF Start, StartCheck, StartSync, StartCreate, StartFails
  <2>3. server'[n].listed = server[n].listed
    <3>1. CASE Start(n) \/ StartCheck(n) \/ StartSync(n)
      BY <3>1 DEF Start, StartCheck, StartSync
    <3>2. CASE StartCreate(n)
      BY <3>2 DEF StartCreate
    <3>3. CASE StartFails(n)
      BY <3>3 DEF StartFails
    <3>4. QED
      BY <1>4, <3>1, <3>2, <3>3
  <2>4. QED
    BY <1>a, <2>1, <2>2, <2>3
<1>5. CASE \E removed \in BOOLEAN : StartClaim(n, removed)
  <2>1. NodeNext(n) /\ at' = at /\ up' = up
    BY <1>5 DEF NodeNext, StartSteps, StartClaim
  <2>2. /\ task'[n].destroy = task[n].destroy /\ server'[n].listed = server[n].listed
        /\ files'[n] = files[n] \/ files[n] = "none"
    BY <1>5 DEF StartClaim
  <2>3. QED
    BY <1>a, <2>1, <2>2
<1>6. CASE SeeRunning(n) \/ SeeEnded(n)
  <2>1. NodeNext(n) /\ at' = at /\ up' = up /\ files' = files
    BY <1>6 DEF NodeNext, SeeRunning, SeeEnded
  <2>2. server'[n].listed = server[n].listed
    BY <1>6 DEF SeeRunning, SeeEnded
  <2>3. task'[n].destroy = task[n].destroy
    BY <1>6 DEF SeeRunning, SeeEnded
  <2>4. QED
    BY <1>a, <2>1, <2>2, <2>3
<1>7. CASE DestroyKill(n) \/ DestroyFiles(n) \/ \E removed \in BOOLEAN : DestroyRemove(n, removed)
  <2>1. /\ NodeNext(n) /\ at' = at /\ up' = up /\ task[n].destroy # "idle"
        /\ files' = files \/ task[n].destroy = "files"
    BY <1>7 DEF NodeNext, DestroySteps, DestroyKill, DestroyFiles, DestroyRemove
  <2>2. server'[n].listed = server[n].listed
    BY <1>7 DEF DestroyKill, DestroyFiles, DestroyRemove
  <2>3. QED
    BY <1>a, <2>1, <2>2
<1>8. CASE Attach(n) \/ Resume(n) \/ Settle(n)
  <2>1. NodeNext(n) /\ at' = at /\ up' = up /\ files' = files
    BY <1>8 DEF NodeNext, BootSteps, Attach, AttachNothing, AttachWatches, AttachPanics, Resume, Settle
  <2>2. server'[n].listed = server[n].listed
    BY <1>8 DEF Attach, AttachNothing, AttachWatches, AttachPanics, Resume, Settle
  <2>3. task'[n].destroy = task[n].destroy
    BY <1>8 DEF Attach, AttachNothing, AttachWatches, AttachPanics, Resume, Settle
  <2>4. QED
    BY <1>a, <2>1, <2>2, <2>3
<1>9. QED
  BY <1>2, <1>3, <1>4, <1>5, <1>6, <1>7, <1>8 DEF NodesNext, StartSteps, DestroySteps, BootSteps

\* Every step of a transfer keeps the two ends in line.
LEMMA MovingStep ==
  TypeOK /\ TransferTypeOK /\ Moving /\ [TransferNext]_allVars => Moving'
<1> SUFFICES ASSUME TypeOK, TransferTypeOK, Moving, [TransferNext]_allVars
             PROVE  Moving'
  OBVIOUS
<1> USE TransferAssumption, ManagerAssumption DEF Moving
<1>1. CASE SourceNext \/ DestNext
  <2>1. Handles
    BY <1>1, TransferHandles
  <2>a. /\ UNCHANGED <<up, task>>
        /\ server'[Dest].listed \/ server'[Dest].listed = server[Dest].listed
    BY <2>1 DEF Handles, New
  <2>2. CASE BeginTransfer \/ SenderStop \/ SendArchive \/ Break
    BY <2>a, <2>2 DEF BeginTransfer, SenderStop, SendArchive, Break, NodesStay
  <2>3. CASE SenderEnds \/ ArchiveFails \/ TransferFails \/ CancelOutgoing
    BY <2>a, <2>3 DEF SenderEnds, ArchiveFails, TransferFails, CancelOutgoing, NodesStay
\* The request is accepted where the server is not listed, so the panel has it elsewhere.
  <2>4. CASE Connect
    BY <2>a, <2>4 DEF Connect, NodesStay
  <2>5. CASE Receive
    <3>1. files'[Home] = files[Home] /\ server'[Dest].listed
      BY <2>5 DEF Receive, TypeOK, New
    <3>2. QED
      BY <2>a, <2>5, <3>1 DEF Receive
  <2>6. CASE ReceiveFails \/ ReceiveLock \/ ReceiveField \/ UnpackFails
    BY <2>a, <2>6 DEF ReceiveFails, ReceiveLock, ReceiveField, UnpackFails, NodesStay
  <2>7. CASE Unpack
    BY <2>a, <2>7 DEF Unpack, TypeOK
\* Whoever reports the transfer has the files.
  <2>8. CASE Tell
    BY <2>a, <2>8 DEF Tell
  <2>9. CASE Unflag \/ CancelIncoming
    BY <2>a, <2>9 DEF Unflag, CancelIncoming, moving
  <2>10. QED
    BY <1>1, <2>2, <2>3, <2>4, <2>5, <2>6, <2>7, <2>8, <2>9 DEF SourceNext, DestNext
<1>2. ASSUME NEW n \in Node, NodesNext(n)
      PROVE  Moving'
  <2>1. UNCHANGED <<receiver, vacant>>
    BY <1>2 DEF NodesNext, moving
  <2>2. Leaves
    BY <1>2, NodeLeaves
  <2>3. files[Home] = "whole" => files'[Home] = "whole" \/ at # Home
    BY <2>2 DEF Leaves
  <2>4. files[Dest] = "copy" => files'[Dest] = "copy"
    BY <2>2 DEF Leaves
  <2>5. at' = at /\ task'[Dest].destroy = "idle" /\ (task'[Home].destroy # "idle" => at # Home)
    BY <2>2 DEF Leaves
  <2>6. (up[Dest] => up'[Dest]) /\ (receiver' # "idle" => up'[Dest])
    BY <2>1, <2>2 DEF Leaves
  <2>7. /\ receiver' \notin {"idle", "accept"} => server'[Dest].listed
        /\ at' = Dest /\ up'[Dest] => server'[Dest].listed
    <3>1. Dest \in Node /\ Dest # Home
      OBVIOUS
    <3>2. /\ up[Dest] => server'[Dest].listed = server[Dest].listed
          /\ ~up[Dest] /\ up'[Dest] => (server'[Dest].listed <=> at = Dest)
      BY <2>2, <3>1 DEF Leaves
    <3>3. receiver # "idle" => up[Dest]
      OBVIOUS
    <3>4. QED
      BY <2>1, <2>5, <2>6, <3>2, <3>3
  <2>8. QED
    BY <2>1, <2>3, <2>4, <2>5, <2>6, <2>7
<1>3. ASSUME NEW n \in Node, GoesDown(n)
      PROVE  Moving'
  <2>1. /\ at' = at /\ files' = files /\ vacant' = vacant
        /\ ~up'[n] /\ task'[n].destroy = "idle"
        /\ receiver' = IF n = Dest THEN "idle" ELSE receiver
    BY <1>3 DEF GoesDown, Crash, HostCrash, Down, TypeOK, NoTasks
  <2>2. NodeNext(n)
    BY <1>3 DEF GoesDown, NodeNext
  <2>3. \A m \in Node \ {n} : task'[m] = task[m] /\ server'[m] = server[m] /\ up'[m] = up[m]
    BY <2>2, Local
  <2>4. QED
    BY <2>1, <2>3
<1>4. CASE UNCHANGED allVars
  BY <1>4 DEF allVars, vars, world, moving
<1>5. QED
  BY <1>1, <1>2, <1>3, <1>4 DEF TransferNext

\* So they always are.
LEMMA TransferInvariant == TransferSpec => [](Inv /\ TransferTypeOK /\ Moving)
<1>1. TransferInit => Inv /\ TransferTypeOK /\ Moving
  <2> SUFFICES ASSUME TransferInit
               PROVE  Inv /\ TransferTypeOK /\ Moving
    OBVIOUS
  <2>1. Inv
    BY InvInit DEF TransferInit
  <2>2. Moving
    BY TransferAssumption, ManagerAssumption DEF TransferInit, Init, Moving, NoTasks, New
  <2>3. QED
    BY <2>1, <2>2 DEF TransferInit, TransferTypeOK
<1>2. Inv /\ TransferTypeOK /\ Moving /\ [TransferNext]_allVars
        => (Inv /\ TransferTypeOK /\ Moving)'
  <2> SUFFICES ASSUME Inv, TransferTypeOK, Moving, [TransferNext]_allVars
               PROVE  (Inv /\ TransferTypeOK /\ Moving)'
    OBVIOUS
  <2>1. ASSUME SourceNext \/ DestNext
        PROVE  Inv'
    <3>1. Handles
      BY <2>1, TransferHandles DEF Inv
    <3>2. task[Dest].destroy = "idle"
      BY DEF Moving
    <3>3. QED
      BY <3>1, <3>2, HandlesKeep
  <2>2. ASSUME NEW n \in Node, NodesNext(n) \/ GoesDown(n)
        PROVE  Inv'
    BY <2>2, NodeInv
  <2>3. ASSUME UNCHANGED allVars
        PROVE  Inv'
    <3>1. UNCHANGED vars
      BY <2>3 DEF allVars
    <3>2. QED
      BY <3>1, InvStutter
  <2>4. Inv'
    BY <2>1, <2>2, <2>3 DEF TransferNext
  <2>5. QED
    BY <2>4, TransferTypes, MovingStep DEF Inv
<1>3. QED
  BY <1>1, <1>2, PTL DEF TransferSpec

\* As long as the panel has the server at its source, all of its files are there, and once it
\* has it at the destination, so is everything that a transfer carries: whatever fails, is
\* cancelled or goes down while it moves, unless a stream broke off before the archive began.
THEOREM FilesArrive == TransferSpec => []FilesKept
<1>1. TransferTypeOK /\ Moving => FilesKept
  BY ManagerAssumption DEF Moving, FilesKept
<1>2. QED
  BY <1>1, TransferInvariant, PTL

\* The server that was moved and deleted at its source comes up there no more.
THEOREM MovedHasNoContainer == TransferSpec => []DeletedStaysDown
<1>1. Inv => DeletedStaysDown
  BY DEF Inv, Gone, DeletedStaysDown
<1>2. QED
  BY <1>1, TransferInvariant, PTL
=============================================================================
