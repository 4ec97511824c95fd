------------------------------ MODULE Manager ------------------------------
(***************************************************************************)
(* One server at the nodes that may have it: how a daemon lists, creates   *)
(* and deletes it (server/manager.rs and its routes), what it writes down  *)
(* of it every ten seconds, and how it takes it up again after the daemon  *)
(* or the host went down (also attach_container in server/mod.rs and       *)
(* attach_install_container in server/installation.rs).                    *)
(*                                                                         *)
(* Power shows what start does with calls that overlap, Maintenance what   *)
(* the locked states do; here a node carries out one start at a time.      *)
(* Docker, the panel and the files on disk outlive the daemon.             *)
(***************************************************************************)
EXTENDS Naturals, FiniteSets

CONSTANTS
  Node,
  Home,         \* the node the server is created at
  Nowhere,      \* a server the panel does not have
  BootPages,    \* boot_servers_per_page
  MaxRequests,  \* bound: requests and exits
  MaxCrashes    \* bound: daemons and hosts that go down

ASSUME ManagerAssumption ==
  /\ Home \in Node /\ Nowhere \notin Node
  /\ BootPages \in Nat /\ MaxRequests \in Nat /\ MaxCrashes \in Nat

VARIABLES
  up,        \* up[n]: the daemon runs
  server,    \* server[n]: its Server
  docker,    \* docker[n]: the containers of the server and of its installer
  files,     \* files[n]: the server's files: "none", "part", "whole", or the "copy" of a transfer
  file,      \* file[n]: what states.json and installing.json say of the server
  save,      \* save[n]: what is being written to one of them
  task,      \* task[n]: where the tasks of the server stand
  at,        \* the node the panel has the server at
  requests, crashes,
  owed,      \* history: what a daemon that went down has to take up again
  left,      \* history: nodes that may keep the container of a deleted server
  late       \* history: nodes where the first sample came late

world == <<up, docker, files, file, save>>
vars == <<world, server, task, at, requests, crashes, owed, left, late>>

State == {"offline", "starting", "running"}

ServerRecord == [listed : BOOLEAN, state : State, container : {"none", "watched", "ended"},
                 suspended : BOOLEAN, installing : BOOLEAN, transferring : BOOLEAN,
                 script : BOOLEAN, crash_handled : BOOLEAN]

\* Server::new: even one that the panel has suspended is not suspended.
New == [listed |-> TRUE, state |-> "offline", container |-> "none", suspended |-> FALSE,
        installing |-> FALSE, transferring |-> FALSE, script |-> FALSE, crash_handled |-> FALSE]

TaskRecord == [start : {"idle", "begin", "claim", "sync", "create"},
               sync : BOOLEAN,
               destroy : {"idle", "kill", "remove", "files", "done"},
               install : {"idle", "stop", "sync", "check", "script", "create", "start",
                          "run", "unset", "clean", "attach", "dead"},
               starts : BOOLEAN,     \* create_server's: it starts what is installed
               installer : BOOLEAN,  \* its container_id is known
               boot : {"idle", "attach", "wait"}, saved : {"none"} \cup State,
               settle : BOOLEAN]
NoTasks == [start |-> "idle", sync |-> FALSE, destroy |-> "idle", install |-> "idle",
            starts |-> FALSE, installer |-> FALSE,
            boot |-> "idle", saved |-> "none", settle |-> FALSE]

NoSave == [of |-> "none", state |-> "none", installing |-> FALSE]
Erased == [states |-> "none", installing |-> FALSE]

TypeOK ==
  /\ up \in [Node -> BOOLEAN] /\ server \in [Node -> ServerRecord]
  /\ docker \in [Node -> [server : {"none", "created", "running", "stopped", "crashed"},
                          installer : {"none", "created", "running", "exited"}]]
  /\ files \in [Node -> {"none", "part", "copy", "whole"}]
  /\ file \in [Node -> [states : {"none"} \cup State, installing : BOOLEAN]]
  /\ save \in [Node -> [of : {"none", "states", "installing"},
                        state : {"none"} \cup State, installing : BOOLEAN]]
  /\ task \in [Node -> TaskRecord]
  /\ at \in Node \cup {Nowhere}
  /\ owed \in [Node -> SUBSET {"run", "install"}]
  /\ left \subseteq Node /\ late \subseteq Node

\* The server is at Home, or it has yet to be created there.
Init ==
  /\ up = [n \in Node |-> TRUE]
  /\ at \in {Home, Nowhere}
  /\ server = [n \in Node |-> [New EXCEPT !.listed = (n = at)]]
  /\ docker = [n \in Node |-> [server |-> "none", installer |-> "none"]]
  /\ files = [n \in Node |-> IF n = at THEN "whole" ELSE "none"]
  /\ file = [n \in Node |-> Erased] /\ save = [n \in Node |-> NoSave]
  /\ task = [n \in Node |-> NoTasks]
  /\ requests = 0 /\ crashes = 0
  /\ owed = [n \in Node |-> {}] /\ left = {} /\ late = {}

\* is_locked_state; restoring a backup is left to Maintenance.
Locked(n) == server[n].suspended \/ server[n].installing \/ server[n].transferring

Request == requests < MaxRequests /\ requests' = requests + 1

\* Somebody holds the server: the list, or who found it there before it was deleted.
Held(n) == up[n] /\ (server[n].listed \/ task[n].destroy # "idle")

Paid(n, what) == owed' = [owed EXCEPT ![n] = @ \ {what}]

(***************************************************************************)
(* start, sync_configuration, the monitor                                  *)
(***************************************************************************)
Elsewhere == UNCHANGED <<up, file, save, at, crashes>>

Start(n) ==
  /\ Request /\ Held(n) /\ task[n].start = "idle"
  /\ task' = [task EXCEPT ![n].start = "begin"]
  /\ UNCHANGED <<server, docker, files, owed, left, late>> /\ Elsewhere

StartCheck(n) ==
  /\ task[n].start = "begin"
  /\ IF ~Locked(n) /\ server[n].state = "offline"
     THEN task' = [task EXCEPT ![n].start = "claim"] /\ UNCHANGED owed
     ELSE task' = [task EXCEPT ![n].start = "idle"] /\ Paid(n, "run")
  /\ UNCHANGED <<server, docker, files, requests, left, late>> /\ Elsewhere

\* filesystem.setup makes the directory, destroy_container removes what has the
\* server's name; what it cannot remove is forgotten as well.
StartClaim(n, removed) ==
  /\ task[n].start = "claim"
  /\ server' = [server EXCEPT ![n].state = "starting", ![n].container = "none"]
  /\ docker' = IF removed THEN [docker EXCEPT ![n] = [server |-> "none", installer |-> "none"]]
               ELSE docker
  /\ files' = IF files[n] = "none" THEN [files EXCEPT ![n] = "part"] ELSE files
  /\ task' = [task EXCEPT ![n].start = "sync"]
  /\ UNCHANGED <<requests, owed, left, late>> /\ Elsewhere

\* The panel says whether the server is suspended, or does not answer.
StartSync(n) ==
  /\ task[n].start = "sync"
  /\ \E s \in BOOLEAN : server' = [server EXCEPT ![n].suspended = s]
  /\ task' = [task EXCEPT ![n].start = "create"]
  /\ UNCHANGED <<docker, files, requests, owed, left, late>> /\ Elsewhere

\* setup_container and the start of what it has created.
StartCreate(n) ==
  /\ task[n].start = "create" /\ docker[n].server = "none"
  /\ docker' = [docker EXCEPT ![n].server = "running"]
  /\ server' = [server EXCEPT ![n].container = "watched", ![n].crash_handled = FALSE]
  /\ late' = late \ {n}
  /\ task' = [task EXCEPT ![n].start = "idle"]
  /\ UNCHANGED <<files, requests, owed, left>> /\ Elsewhere

\* No image, a container of that name, or one that cannot be started.
StartFails(n) ==
  /\ task[n].start = "create"
  /\ \/ UNCHANGED docker /\ server' = [server EXCEPT ![n].state = "offline",
                                                     ![n].crash_handled = FALSE]
     \/ /\ docker[n].server = "none"
        /\ docker' = [docker EXCEPT ![n].server = "created"]
        /\ server' = [server EXCEPT ![n].state = "offline", ![n].container = "watched",
                                    ![n].crash_handled = FALSE]
  /\ late' = late \ {n}
  /\ task' = [task EXCEPT ![n].start = "idle"]
  /\ Paid(n, "run")
  /\ UNCHANGED <<files, requests, left>> /\ Elsewhere

\* The sync route finds the server, and stores what the panel says later.
Sync(n) ==
  /\ Request /\ up[n] /\ server[n].listed /\ ~task[n].sync
  /\ task' = [task EXCEPT ![n].sync = TRUE]
  /\ UNCHANGED <<server, docker, files, owed, left, late>> /\ Elsewhere

SyncStore(n) ==
  /\ task[n].sync
  /\ \E s \in BOOLEAN : server' = [server EXCEPT ![n].suspended = s]
  /\ task' = [task EXCEPT ![n].sync = FALSE]
  /\ UNCHANGED <<docker, files, requests, owed, left, late>> /\ Elsewhere

\* The process ends, stopped by somebody or of its own.
Exit(n) ==
  /\ Request /\ docker[n].server = "running"
  /\ \E how \in {"stopped", "crashed"} : docker' = [docker EXCEPT ![n].server = how]
  /\ owed' = IF server[n].state # "offline" THEN [owed EXCEPT ![n] = @ \ {"run"}] ELSE owed
  /\ UNCHANGED <<server, files, task, left, late>> /\ Elsewhere

\* A sample of a running process, or its startup line.
SeeRunning(n) ==
  /\ server[n].container = "watched" /\ docker[n].server = "running"
  /\ server[n].state # "running"
  /\ server' = [server EXCEPT ![n].state = "running"]
  /\ Paid(n, "run")
  /\ UNCHANGED <<docker, files, task, requests, left, late>> /\ Elsewhere

\* A sample of one that has ended.  A crash is handled once, and not if there was
\* one just before.
SeeEnded(n) ==
  LET restart == docker[n].server = "crashed" /\ ~server[n].crash_handled
                 /\ task[n].start = "idle" IN
  /\ server[n].container = "watched" /\ docker[n].server \in {"stopped", "crashed"}
  /\ server' = [server EXCEPT ![n].state = "offline", ![n].container = "ended",
                              ![n].crash_handled = TRUE]
  /\ \/ UNCHANGED task
     \/ restart /\ task' = [task EXCEPT ![n].start = "begin"]
  /\ UNCHANGED <<docker, files, requests, owed, left, late>> /\ Elsewhere

(***************************************************************************)
(* create_server and install_server                                        *)
(***************************************************************************)
\* The server is listed while its installation begins.
Create(n) ==
  /\ Request /\ up[n] /\ n = Home /\ at = Nowhere /\ files[n] = "none"
  /\ task[n].destroy = "idle"
  /\ at' = n
  /\ server' = [server EXCEPT ![n] = New]
  /\ files' = [files EXCEPT ![n] = "whole"]
  /\ task' = [task EXCEPT ![n].install = "check", ![n].starts = TRUE]
  /\ UNCHANGED <<up, file, save, docker, crashes, owed, left, late>>

\* The reinstall route looks at the lock, stops the server and syncs it.
Reinstall(n) ==
  /\ Request /\ up[n] /\ server[n].listed /\ ~Locked(n) /\ task[n].install = "idle"
  /\ task' = [task EXCEPT ![n].install = "stop"]
  /\ UNCHANGED <<server, docker, files, owed, left, late>> /\ Elsewhere

InstallGoes(n, pc) == task' = [task EXCEPT ![n].install = pc]

\* It has failed: nothing is started afterwards.
InstallOver(n, pc) == task' = [task EXCEPT ![n].install = pc, ![n].starts = FALSE]

Aside == UNCHANGED <<files, requests, left, late>> /\ Elsewhere

\* stop_with_kill_timeout, which waits for a start and may fail.  The handler ends here
\* if its client has gone, or there is no container to stop.
ReinstallStop(n) ==
  /\ task[n].install = "stop"
  /\ \/ InstallGoes(n, "idle") /\ UNCHANGED <<docker, owed>>
     \/ /\ server[n].state = "offline" \/ (server[n].container # "none"
                                           /\ task[n].start \in {"idle", "begin", "claim"})
        /\ InstallGoes(n, "sync") /\ UNCHANGED <<docker, owed>>
     \/ /\ server[n].state # "offline" /\ server[n].container # "none"
        /\ task[n].start \in {"idle", "begin", "claim"} /\ docker[n].server = "running"
        /\ docker' = [docker EXCEPT ![n].server = "stopped"] /\ Paid(n, "run")
        /\ InstallGoes(n, "sync")
  /\ UNCHANGED server /\ Aside

ReinstallSync(n) ==
  /\ task[n].install = "sync"
  /\ \E s \in BOOLEAN : server' = [server EXCEPT ![n].suspended = s]
  /\ InstallGoes(n, "check")
  /\ UNCHANGED <<docker, owed>> /\ Aside

InstallCheck(n) ==
  /\ task[n].install = "check"
  /\ IF Locked(n) THEN UNCHANGED server /\ InstallOver(n, "idle")
     ELSE InstallGoes(n, "script") /\ server' = [server EXCEPT ![n].installing = TRUE]
  /\ UNCHANGED <<docker, owed>> /\ Aside

\* From now on installing.json will have it; scripts may be skipped.
FetchScript(n) ==
  /\ task[n].install = "script"
  /\ \/ InstallGoes(n, "create") /\ server' = [server EXCEPT ![n].script = TRUE]
     \/ InstallGoes(n, "unset") /\ UNCHANGED server
     \/ InstallOver(n, "unset") /\ UNCHANGED server
  /\ UNCHANGED <<docker, owed>> /\ Aside

CreateInstaller(n) ==
  /\ task[n].install = "create"
  /\ \/ /\ docker[n].installer = "none"
        /\ task' = [task EXCEPT ![n].install = "start", ![n].installer = TRUE]
        /\ docker' = [docker EXCEPT ![n].installer = "created"]
     \/ InstallOver(n, "unset") /\ UNCHANGED docker
  /\ UNCHANGED <<server, owed>> /\ Aside

\* One that is running goes on, one that has exited runs again.  If it cannot be
\* started the task panics.
StartInstaller(n) ==
  /\ task[n].install = "start"
  /\ \/ /\ docker[n].installer # "none" /\ InstallGoes(n, "run")
        /\ docker' = [docker EXCEPT ![n].installer = "running"]
        /\ UNCHANGED owed
     \/ InstallOver(n, "dead") /\ Paid(n, "install") /\ UNCHANGED docker
  /\ UNCHANGED server /\ Aside

InstallerExits(n) ==
  /\ docker[n].installer = "running"
  /\ docker' = [docker EXCEPT ![n].installer = "exited"]
  /\ UNCHANGED <<server, task, owed>> /\ Aside

\* The installer has ended, it is gone, or 15 minutes have passed.
InstallEnds(n) ==
  /\ task[n].install = "run"
  /\ \/ docker[n].installer # "running" /\ InstallGoes(n, "unset")
     \/ InstallOver(n, "unset")
  /\ UNCHANGED <<server, docker, owed>> /\ Aside

Unset(n) ==
  /\ task[n].install = "unset"
  /\ server' = [server EXCEPT ![n].installing = FALSE, ![n].script = FALSE]
  /\ InstallGoes(n, "clean")
  /\ UNCHANGED <<docker, owed>> /\ Aside

\* The installer is removed, or not; the panel is told; start_on_completion.
Clean(n) ==
  LET ended == [task[n] EXCEPT !.install = "idle", !.starts = FALSE, !.installer = FALSE] IN
  /\ task[n].install = "clean"
  /\ \/ task[n].installer /\ docker' = [docker EXCEPT ![n].installer = "none"]
     \/ UNCHANGED docker
  /\ \/ task' = [task EXCEPT ![n] = ended]
     \/ /\ task[n].starts /\ task[n].start = "idle"
        /\ task' = [task EXCEPT ![n] = [ended EXCEPT !.start = "begin"]]
  /\ Paid(n, "install")
  /\ UNCHANGED server /\ Aside

\* attach_install_container: where no installer is found the server counts as
\* installed.
AttachInstaller(n) ==
  /\ task[n].install = "attach"
  /\ server' = [server EXCEPT ![n].installing = TRUE, ![n].script = TRUE]
  /\ \/ InstallGoes(n, "unset")
     \/ /\ docker[n].installer # "none"
        /\ task' = [task EXCEPT ![n].install = "start", ![n].installer = TRUE]
  /\ UNCHANGED <<docker, owed>> /\ Aside

(***************************************************************************)
(* delete_server and destroy                                               *)
(***************************************************************************)
\* What is under way does not look at the flag again, or overwrites it.
UnderWay(n) ==
  \/ task[n].start \in {"claim", "sync", "create"} \/ task[n].sync
  \/ task[n].install \in {"stop", "sync"}

\* Mutant of Delete: the flag is left to destroy.
DeleteLater(n) ==
  /\ Request /\ up[n] /\ server[n].listed
  /\ IF at = n THEN at' = Nowhere ELSE UNCHANGED at
  /\ server' = [server EXCEPT ![n].listed = FALSE]
  /\ task' = [task EXCEPT ![n].destroy = "kill"]
  /\ left' = IF UnderWay(n) THEN left \cup {n} ELSE left
  /\ owed' = [owed EXCEPT ![n] = {}]
  /\ UNCHANGED <<world, crashes, late>>

\* A user deletes the server, or the panel deletes what was transferred elsewhere.
Delete(n) ==
  /\ Request /\ up[n] /\ server[n].listed
  /\ IF at = n THEN at' = Nowhere ELSE UNCHANGED at
  /\ server' = [server EXCEPT ![n].listed = FALSE, ![n].suspended = TRUE]
  /\ task' = [task EXCEPT ![n].destroy = "kill"]
  /\ left' = IF UnderWay(n) THEN left \cup {n} ELSE left
  /\ owed' = [owed EXCEPT ![n] = {}]
  /\ UNCHANGED <<world, crashes, late>>

DestroyGoes(n, pc) == task' = [task EXCEPT ![n].destroy = pc]

DestroyKill(n) ==
  /\ task[n].destroy = "kill"
  /\ DestroyGoes(n, "remove")
  /\ \/ /\ server[n].state # "offline" /\ server[n].container # "none"
        /\ docker[n].server = "running"
        /\ docker' = [docker EXCEPT ![n].server = "stopped"]
        /\ server' = [server EXCEPT ![n].suspended = TRUE]
     \/ /\ server' = [server EXCEPT ![n].suspended = TRUE,
                                    ![n].state = IF server[n].container # "none"
                                                 THEN "offline" ELSE @]
        /\ UNCHANGED docker
  /\ UNCHANGED <<files, requests, owed, left, late>> /\ Elsewhere

\* destroy_container, which may not get what it asks for.
DestroyRemove(n, removed) ==
  /\ task[n].destroy = "remove"
  /\ docker' = IF removed THEN [docker EXCEPT ![n] = [server |-> "none", installer |-> "none"]]
               ELSE docker
  /\ left' = IF removed THEN left ELSE left \cup {n}
  /\ server' = [server EXCEPT ![n].container = "none"]
  /\ DestroyGoes(n, "files")
  /\ UNCHANGED <<files, requests, owed, late>> /\ Elsewhere

DestroyFiles(n) ==
  /\ task[n].destroy = "files"
  /\ files' = [files EXCEPT ![n] = "none"]
  /\ DestroyGoes(n, "done")
  /\ UNCHANGED <<server, docker, requests, owed, left, late>> /\ Elsewhere

(***************************************************************************)
(* states.json and installing.json                                         *)
(***************************************************************************)
Unsaved == UNCHANGED <<up, server, docker, files, task, at, requests, crashes, owed, left, late>>

\* What is known is collected, and the file truncated.
Save(n) ==
  /\ up[n] /\ save[n] = NoSave
  /\ \/ /\ save' = [save EXCEPT ![n] =
                     [of |-> "states", installing |-> FALSE,
                      state |-> IF server[n].listed THEN server[n].state ELSE "none"]]
        /\ file' = [file EXCEPT ![n].states = "none"]
     \/ /\ save' = [save EXCEPT ![n] =
                     [of |-> "installing", state |-> "none",
                      installing |-> server[n].listed /\ server[n].script]]
        /\ file' = [file EXCEPT ![n].installing = FALSE]
  /\ Unsaved

Saved(n) ==
  /\ save[n].of # "none"
  /\ file' = IF save[n].of = "states" THEN [file EXCEPT ![n].states = save[n].state]
             ELSE [file EXCEPT ![n].installing = save[n].installing]
  /\ save' = [save EXCEPT ![n] = NoSave]
  /\ Unsaved

(***************************************************************************)
(* The daemon or its host goes down, and comes up again                    *)
(***************************************************************************)
Down(n) ==
  /\ crashes < MaxCrashes /\ crashes' = crashes + 1
  /\ up[n] /\ up' = [up EXCEPT ![n] = FALSE]
  /\ server' = [server EXCEPT ![n] = [New EXCEPT !.listed = FALSE]]
  /\ task' = [task EXCEPT ![n] = NoTasks]
  /\ save' = [save EXCEPT ![n] = NoSave]
  /\ owed' = [owed EXCEPT ![n] =
       IF ~server[n].listed THEN {}
       ELSE IF file[n].installing THEN {"install"}
       ELSE IF file[n].states \in {"starting", "running"} /\ server[n].state = "running"
               /\ BootPages > 0 THEN {"run"}
       ELSE {}]
  /\ late' = late \ {n}
  /\ UNCHANGED <<at, requests, left>>

Crash(n) == Down(n) /\ UNCHANGED <<docker, files, file>>

HostCrash(n) ==
  /\ Down(n)
  /\ docker' = [docker EXCEPT
       ![n].server = IF @ = "running" THEN "stopped" ELSE @,
       ![n].installer = IF @ = "running" THEN "exited" ELSE @]
  /\ UNCHANGED <<files, file>>

\* Manager::new: the servers of this node come from the panel, what they did from the
\* files, which are empty from then on until they are saved.
Boot(n) ==
  /\ ~up[n] /\ up' = [up EXCEPT ![n] = TRUE]
  /\ server' = [server EXCEPT ![n] = [New EXCEPT !.listed = (at = n)]]
  /\ task' = [task EXCEPT ![n] =
       IF at # n THEN NoTasks
       ELSE IF file[n].installing THEN [NoTasks EXCEPT !.install = "attach"]
       ELSE IF BootPages > 0 THEN [NoTasks EXCEPT !.boot = "attach", !.saved = file[n].states]
       ELSE NoTasks]
  /\ file' = [file EXCEPT ![n] = Erased]
  /\ UNCHANGED <<docker, files, save, at, requests, crashes, owed, left, late>>

\* attach_container: one that is there is watched, and a crash of it is not handled for
\* five seconds.
AttachWatches(n) ==
  /\ server' = [server EXCEPT ![n].container = "watched", ![n].crash_handled = TRUE]
  /\ task' = [task EXCEPT ![n].boot = "wait", ![n].settle = TRUE]
  /\ UNCHANGED owed

\* It cannot be attached to: the unwrap panics, and the server is not resumed.
AttachPanics(n) ==
  /\ task' = [task EXCEPT ![n].boot = "idle", ![n].saved = "none"]
  /\ Paid(n, "run")
  /\ UNCHANGED server

\* There is none, the server has one by now, or the containers could not be listed, which
\* is no error: nothing is watched.
AttachNothing(n) ==
  /\ task' = [task EXCEPT ![n].boot = "wait"]
  /\ UNCHANGED <<server, owed>>

Attach(n) ==
  /\ task[n].boot = "attach"
  /\ \/ AttachNothing(n)
     \/ /\ server[n].container = "none" /\ docker[n].server # "none"
        /\ AttachWatches(n) \/ AttachPanics(n)
  /\ UNCHANGED <<docker, files, requests, left, late>> /\ Elsewhere

\* Five seconds after attaching; a server whose first sample is late stays as it is.
Settle(n) ==
  /\ task[n].settle
  /\ task' = [task EXCEPT ![n].settle = FALSE]
  /\ IF server[n].state # "offline"
     THEN server' = [server EXCEPT ![n].crash_handled = FALSE] /\ UNCHANGED late
     ELSE late' = late \cup {n} /\ UNCHANGED server
  /\ UNCHANGED <<docker, files, requests, owed, left>> /\ Elsewhere

\* Mutant of Resume: a server that was starting is not started.
ResumeRunning(n) ==
  LET again == task[n].saved = "running" /\ server[n].state = "offline"
               /\ task[n].start = "idle" IN
  /\ task[n].boot = "wait"
  /\ task' = [task EXCEPT ![n].boot = "idle", ![n].saved = "none",
                          ![n].start = IF again THEN "begin" ELSE @]
  /\ UNCHANGED <<server, docker, files, requests, owed, left, late>> /\ Elsewhere

\* Five seconds later what was running and is not yet again is started.
Resume(n) ==
  LET again == task[n].saved \in {"starting", "running"} /\ server[n].state = "offline"
               /\ task[n].start = "idle" IN
  /\ task[n].boot = "wait"
  /\ task' = [task EXCEPT ![n].boot = "idle", ![n].saved = "none",
                          ![n].start = IF again THEN "begin" ELSE @]
  /\ UNCHANGED <<server, docker, files, requests, owed, left, late>> /\ Elsewhere

(***************************************************************************)
(* Specification                                                           *)
(***************************************************************************)
StartSteps(n) ==
  \/ StartCheck(n) \/ StartSync(n) \/ StartCreate(n) \/ StartFails(n)
  \/ \E removed \in BOOLEAN : StartClaim(n, removed)

InstallSteps(n) ==
  \/ ReinstallStop(n) \/ ReinstallSync(n)
  \/ InstallCheck(n) \/ FetchScript(n) \/ CreateInstaller(n) \/ StartInstaller(n)
  \/ InstallEnds(n) \/ Unset(n) \/ Clean(n) \/ AttachInstaller(n)

DestroySteps(n) ==
  \/ DestroyKill(n) \/ DestroyFiles(n)
  \/ \E removed \in BOOLEAN : DestroyRemove(n, removed)

BootSteps(n) == Boot(n) \/ Attach(n) \/ Resume(n)

Requests(n) ==
  Start(n) \/ Sync(n) \/ Exit(n) \/ Create(n) \/ Reinstall(n) \/ Delete(n)

NodeNext(n) ==
  \/ Requests(n) \/ StartSteps(n) \/ SyncStore(n) \/ SeeRunning(n) \/ SeeEnded(n)
  \/ InstallSteps(n) \/ InstallerExits(n) \/ DestroySteps(n)
  \/ Save(n) \/ Saved(n) \/ Crash(n) \/ HostCrash(n) \/ BootSteps(n) \/ Settle(n)

Next == \E n \in Node : NodeNext(n)

Spec == Init /\ [][Next]_vars

\* A daemon is started again; Docker and the panel answer, or the call fails; the
\* sampler goes on.  Nothing makes a process end.
NodeFairness(n) ==
  /\ WF_vars(StartSteps(n)) /\ WF_vars(SeeRunning(n)) /\ WF_vars(SeeEnded(n))
  /\ WF_vars(InstallSteps(n)) /\ WF_vars(BootSteps(n))

LiveSpec == Spec /\ \A n \in Node : NodeFairness(n)

(***************************************************************************)
(* Properties                                                              *)
(***************************************************************************)

\* A server that ran when its daemon went down, and that states.json had down as
\* running or starting, runs again once the daemon is back, and of an installation that
\* was in installing.json the panel is told the outcome; unless the start is refused or
\* fails, the container cannot be attached to at boot, the installer's task panics, the
\* server is deleted, or the daemon goes down once more before it has saved anything.  A
\* later crash of the server is handled if it was seen running when the five seconds
\* after attaching were over.
Recovers ==
  /\ \A n \in Node : owed[n] # {} ~> owed[n] = {}
  /\ [](\A n \in Node :
           server[n].container = "watched" /\ server[n].state = "running"
           /\ ~task[n].settle /\ n \notin late => ~server[n].crash_handled)

\* A deleted server has no container once it has been destroyed, whoever still holds it
\* and asks for a start, unless a start or a sync was under way when it was deleted, or
\* Docker refused the removal; and all values have their types.  This is not about the
\* container of an installer, which an installation past its check may create afterwards.
DeletedStaysDown ==
  /\ TypeOK
  /\ \A n \in Node : task[n].destroy = "done" /\ n \notin left => docker[n].server = "none"
=============================================================================
