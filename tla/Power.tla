-------------------------------- MODULE Power --------------------------------
(***************************************************************************)
(* The power core of one server: start, stop, restart, kill and            *)
(* stop_with_kill_timeout (server/mod.rs) as they run side by side with    *)
(* the container monitor (setup_websocket_sender), the sampler that feeds  *)
(* it and the startup line check (server/container.rs), over the state     *)
(* lock (server/state.rs).                                                 *)
(*                                                                         *)
(* Calls are tasks on a multi-threaded executor.  A step is a stretch of   *)
(* code between two await points, split further where another thread can   *)
(* matter: at the load and the store of the lock flag, and before the      *)
(* stores that follow execute_action.  The monitor's look at the state and *)
(* the write that follows at once are one step.  The Docker daemon is      *)
(* external: it keeps the containers, names are unique, and each call to   *)
(* it may fail.                                                            *)
(*                                                                         *)
(* The locked states (suspended, installing, restoring, transferring) and  *)
(* the disk limit belong to other components; here they show as start      *)
(* being refused, and as a stop_with_kill_timeout nobody asked for.        *)
(***************************************************************************)
EXTENDS Naturals, FiniteSets

CONSTANTS
  Task,             \* concurrent power calls
  Container,        \* Docker ids; an id is reused once nothing refers to it
  NoContainer,
  Ops,              \* the operations clients call
  Patience,         \* whether client calls carry an acquire timeout
  CrashDetection,   \* crash detection is enabled
  DetectCleanExit,  \* detect_clean_exit_as_crash
  ExitKinds,        \* bound: how processes end, a part of Exited
  MaxSpawned        \* bound: automatic starts that may pile up

AllOps == {"start", "stop", "restart", "kill", "drain"}

ASSUME PowerAssumption ==
  /\ NoContainer \notin Container
  /\ Ops \subseteq AllOps
  /\ Patience \subseteq BOOLEAN
  /\ CrashDetection \in BOOLEAN
  /\ DetectCleanExit \in BOOLEAN
  /\ ExitKinds \subseteq {"clean", "crashed"}
  /\ MaxSpawned \in Nat

State == {"offline", "starting", "stopping", "running"}
Ref   == Container \cup {NoContainer}

Exited == {"clean", "crashed"}
Status == {"absent", "created", "running"} \cup Exited

\* Where a call stands.  The second line is inside execute_action, waiting for
\* the lock; the third is start's action, the fourth stop's.
Waiting  == {"enter", "wait", "claim"}
Starting == {"remove", "drop", "prepare", "create", "adopt", "publish", "launch"}
Asking   == {"signal", "send"}
PC == {"idle", "restart", "start", "stop", "drain", "kill"}
        \cup Waiting \cup Starting \cup Asking
        \cup {"flag", "mark", "watch", "killing", "lost"}

VARIABLES
  state, locked,    \* ServerStateLock
  container,        \* InnerServer.container
  websocket_sender, \* the container the last monitor was set up for
  monitor,          \* where that monitor's loop stands
  update_channel,   \* the sample waiting in the capacity-1 channel
  stopping, restarting, crash_handled,  \* the atomics
  last_crash,       \* a crash restart happened within the crash timeout
  spawned,          \* automatic starts spawned by monitors, not yet running
  task,             \* the power calls
  docker,           \* the containers of this server, as the daemon has them
  undead,           \* history: containers whose forced removal failed
  intended,         \* history: containers that a stop or a kill has asked to end
  serial            \* history: every action so far found what it checked for

serverVars  == <<container, stopping, restarting, crash_handled>>
monitorVars == <<websocket_sender, monitor, update_channel, last_crash>>
dockerVars  == <<docker, undead, intended>>
lockVars    == <<state, locked>>

vars == <<state, locked, container, websocket_sender, monitor, update_channel,
          stopping, restarting, crash_handled, last_crash, spawned, task,
          docker, undead, intended, serial>>

TaskRecord == [pc : PC, op : AllOps, patient : BOOLEAN,
               wanted : {"starting", "stopping"}, old_state : State,
               target : Ref]

Idle == [pc |-> "idle", op |-> "start", patient |-> FALSE,
         wanted |-> "starting", old_state |-> "offline", target |-> NoContainer]

\* A call of o that has just begun, a call r that asks for the lock, and one that
\* was dropped in its action.
Called(o, p)    == [Idle EXCEPT !.pc = o, !.op = o, !.patient = p]
Queued(r, s, c) == [r EXCEPT !.pc = "enter", !.wanted = s, !.target = c]
Dropped         == [Idle EXCEPT !.pc = "lost"]

TypeOK ==
  /\ state \in State
  /\ locked \in BOOLEAN
  /\ container \in Ref
  /\ websocket_sender \in Ref
  /\ monitor \in {"off", "recv", "crash", "throttle"}
  /\ update_channel \in {"none", "running"} \cup Exited
  /\ stopping \in BOOLEAN
  /\ restarting \in BOOLEAN
  /\ crash_handled \in BOOLEAN
  /\ last_crash \in BOOLEAN
  /\ spawned \in Nat
  /\ task \in [Task -> TaskRecord]
  /\ docker \in [Container -> Status]
  /\ undead \subseteq Container
  /\ intended \subseteq Container
  /\ serial \in BOOLEAN

Init ==
  /\ state = "offline"
  /\ locked = FALSE
  /\ container = NoContainer
  /\ websocket_sender = NoContainer
  /\ monitor = "off"
  /\ update_channel = "none"
  /\ stopping = FALSE
  /\ restarting = FALSE
  /\ crash_handled = FALSE
  /\ last_crash = FALSE
  /\ spawned = 0
  /\ task = [t \in Task |-> Idle]
  /\ docker = [c \in Container |-> "absent"]
  /\ undead = {}
  /\ intended = {}
  /\ serial = TRUE

At(t, pc)   == task[t].pc = pc
Inside(t)   == task[t].pc \in Starting \cup Asking
Existing    == {c \in Container : docker[c] # "absent"}
Referenced  == {container, websocket_sender} \cup {task[t].target : t \in Task}

\* A task moves to another position, moves there with a target, asks for the
\* lock, waits for it with a state to restore, or ends.
Goto(t, pc)     == task' = [task EXCEPT ![t].pc = pc]
Aim(t, pc, c)   == task' = [task EXCEPT ![t].pc = pc, ![t].target = c]
Queue(t, s, c)  == task' = [task EXCEPT ![t] = Queued(task[t], s, c)]
Await(t, s)     == task' = [task EXCEPT ![t].pc = "wait", ![t].old_state = s]
Return(t)       == task' = [task EXCEPT ![t] = Idle]

\* What stop's caller does with an error, and with Ok(()).
StopFailed(t) == IF task[t].op = "drain" THEN Goto(t, "watch") ELSE Return(t)
StopDone(t) ==
  CASE task[t].op = "restart" -> Goto(t, "mark")
    [] task[t].op = "drain"   -> Goto(t, "watch")
    [] OTHER                  -> Return(t)

(***************************************************************************)
(* Calls begin.                                                            *)
(***************************************************************************)

\* A client, or another component, calls.  stop_with_kill_timeout passes no
\* timeout to stop, and kill takes no lock.
Begin(t, o, p) ==
  /\ At(t, "idle")
  /\ spawned < MaxSpawned
  /\ task' = [task EXCEPT ![t] = Called(o, p /\ o \notin {"kill", "drain"})]
  /\ UNCHANGED <<lockVars, serverVars, monitorVars, dockerVars, spawned, serial>>

\* Mutant of BeginSpawned: a start nobody spawned.
BeginUnspawned(t) ==
  /\ At(t, "idle")
  /\ spawned' = spawned - 1
  /\ task' = [task EXCEPT ![t] = Called("start", TRUE)]
  /\ UNCHANGED <<lockVars, serverVars, monitorVars, dockerVars, serial>>

\* A start the monitor spawned begins to run; it waits up to 5 s for the lock.
BeginSpawned(t) ==
  /\ At(t, "idle")
  /\ spawned > 0
  /\ spawned' = spawned - 1
  /\ task' = [task EXCEPT ![t] = Called("start", TRUE)]
  /\ UNCHANGED <<lockVars, serverVars, monitorVars, dockerVars, serial>>

(***************************************************************************)
(* The checks before the lock.                                             *)
(***************************************************************************)

RestartCheck(t) ==
  /\ At(t, "restart")
  /\ IF restarting THEN Return(t)
     ELSE Goto(t, IF state = "offline" THEN "start" ELSE "stop")
  /\ UNCHANGED <<lockVars, serverVars, monitorVars, dockerVars, spawned, serial>>

StartCheck(t) ==
  /\ At(t, "start")
  /\ state = "offline"
  /\ Queue(t, "starting", NoContainer)
  /\ UNCHANGED <<lockVars, serverVars, monitorVars, dockerVars, spawned, serial>>

\* A locked state, a server that is not offline, or a full disk.
StartRefused(t) ==
  /\ At(t, "start")
  /\ Return(t)
  /\ UNCHANGED <<lockVars, serverVars, monitorVars, dockerVars, spawned, serial>>

\* The container id that stop's action will signal is read here, before the
\* wait for the lock.
StopCheck(t) ==
  /\ At(t, "stop")
  /\ \/ /\ state \in {"offline", "stopping"}
        /\ StopFailed(t)
     \/ /\ state \notin {"offline", "stopping"}
        /\ container = NoContainer
        /\ StopDone(t)
     \/ /\ state \notin {"offline", "stopping"}
        /\ container # NoContainer
        /\ Queue(t, "stopping", container)
  /\ UNCHANGED <<lockVars, serverVars, monitorVars, dockerVars, spawned, serial>>

\* stop_with_kill_timeout: nothing to do when offline; without a container the
\* unwrap panics, which ends the task as well.
DrainCheck(t) ==
  /\ At(t, "drain")
  /\ IF state = "offline" \/ container = NoContainer THEN Return(t)
     ELSE Goto(t, "stop")
  /\ UNCHANGED <<lockVars, serverVars, monitorVars, dockerVars, spawned, serial>>

\* Mutant of KillCheck: the stopping flag is forgotten.
KillUnflagged(t) ==
  /\ At(t, "kill")
  /\ IF state = "offline" \/ container = NoContainer THEN Return(t)
     ELSE Aim(t, "killing", container)
  /\ intended' = intended \cup ({container} \cap Container)
  /\ UNCHANGED <<lockVars, serverVars, monitorVars, docker, undead, spawned, serial>>

KillCheck(t) ==
  /\ At(t, "kill")
  /\ IF state = "offline" \/ container = NoContainer
     THEN /\ Return(t)
          /\ UNCHANGED <<stopping, intended>>
     ELSE /\ Aim(t, "killing", container)
          /\ stopping' = TRUE
          /\ intended' = intended \cup {container}
  /\ UNCHANGED <<lockVars, container, restarting, crash_handled, monitorVars,
                 docker, undead, spawned, serial>>

(***************************************************************************)
(* execute_action                                                          *)
(***************************************************************************)

Enter(t) ==
  /\ At(t, "enter")
  /\ Await(t, state)
  /\ UNCHANGED <<lockVars, serverVars, monitorVars, dockerVars, spawned, serial>>

\* The flag is loaded: clear, or set and the call has no timeout.
FindFree(t) ==
  /\ At(t, "wait")
  /\ ~locked
  /\ Goto(t, "claim")
  /\ UNCHANGED <<lockVars, serverVars, monitorVars, dockerVars, spawned, serial>>

Refused(t) ==
  /\ At(t, "wait")
  /\ ~task[t].patient
  /\ locked
  /\ StopFailed(t)
  /\ UNCHANGED <<lockVars, serverVars, monitorVars, dockerVars, spawned, serial>>

\* The acquire timeout elapses: the action will run without the lock.
GiveUp(t) ==
  /\ At(t, "wait")
  /\ task[t].patient
  /\ Goto(t, "claim")
  /\ UNCHANGED <<lockVars, serverVars, monitorVars, dockerVars, spawned, serial>>

\* What t relied on before it queued still holds: no other action is running,
\* the server is still offline (for start), the container that will be
\* signalled is still the server's (for stop).
Undisturbed(t) ==
  /\ \A u \in Task : ~Inside(u)
  /\ IF task[t].wanted = "starting"
     THEN state = "offline" /\ task[t].old_state = "offline"
     ELSE container = task[t].target

Claim(t) ==
  /\ At(t, "claim")
  /\ locked' = TRUE
  /\ state' = task[t].wanted
  /\ serial' = (serial /\ Undisturbed(t))
  /\ Goto(t, IF task[t].wanted = "starting" THEN "remove" ELSE "signal")
  /\ UNCHANGED <<serverVars, monitorVars, dockerVars, spawned>>

\* The future is dropped at an await point: a client that closes the
\* connection of a reinstall request, or an aborted transfer, drops the
\* stop_with_kill_timeout it was in.  The lock stays as it is.
Abandon(t) ==
  /\ task[t].op = "drain"
  /\ task[t].pc \in {"wait", "watch", "killing"} \cup Asking
  /\ task' = [task EXCEPT ![t] = IF Inside(t) THEN Dropped ELSE Idle]
  /\ UNCHANGED <<lockVars, serverVars, monitorVars, dockerVars, spawned, serial>>

(***************************************************************************)
(* The action of start.                                                    *)
(***************************************************************************)

\* Mutant of Remove: without force, a running container stays.
RemoveUnforced(t) ==
  /\ At(t, "remove")
  /\ Goto(t, "drop")
  /\ docker' = [c \in Container |-> IF docker[c] = "running" THEN "running" ELSE "absent"]
  /\ undead' = {}
  /\ UNCHANGED <<lockVars, serverVars, monitorVars, intended, spawned, serial>>

\* destroy_container lists every container with the server's id in its name
\* and removes each by force; an error is only logged.
Remove(t) ==
  /\ At(t, "remove")
  /\ Goto(t, "drop")
  /\ \/ /\ docker' = [c \in Container |-> "absent"]
        /\ undead' = {}
     \/ /\ undead' = undead \cup Existing
        /\ UNCHANGED docker
  /\ UNCHANGED <<lockVars, serverVars, monitorVars, intended, spawned, serial>>

\* Mutant of Drop: the handle is taken, the monitor and its channel live on.
DropHandle(t) ==
  /\ At(t, "drop")
  /\ Goto(t, "prepare")
  /\ container' = NoContainer
  /\ UNCHANGED <<lockVars, stopping, restarting, crash_handled, monitorVars,
                 dockerVars, spawned, serial>>

\* The rest of destroy_container: the handle is taken and the monitor aborted.
Drop(t) ==
  /\ At(t, "drop")
  /\ Goto(t, "prepare")
  /\ container' = NoContainer
  /\ websocket_sender' = NoContainer
  /\ monitor' = "off"
  /\ update_channel' = "none"
  /\ UNCHANGED <<lockVars, stopping, restarting, crash_handled, last_crash,
                 dockerVars, spawned, serial>>

\* The configuration is synced, files are updated, the image is pulled, and
\* setup_container begins: a container that is already there is used as it is.
Prepare(t) ==
  /\ At(t, "prepare")
  /\ crash_handled' = FALSE
  /\ Goto(t, IF container = NoContainer THEN "create" ELSE "launch")
  /\ UNCHANGED <<lockVars, container, stopping, restarting, monitorVars,
                 dockerVars, spawned, serial>>

\* The daemon refuses a second container with the same name.
Create(t) ==
  /\ At(t, "create")
  /\ Existing = {}
  /\ \E c \in Container \ Referenced :
       /\ docker' = [docker EXCEPT ![c] = "created"]
       /\ intended' = intended \ {c}
       /\ Aim(t, "adopt", c)
  /\ UNCHANGED <<lockVars, serverVars, monitorVars, undead, spawned, serial>>

\* Container::new attaches, and a monitor for the new container replaces and
\* aborts the old one.
Adopt(t) ==
  /\ At(t, "adopt")
  /\ docker[task[t].target] # "absent"
  /\ websocket_sender' = task[t].target
  /\ monitor' = "recv"
  /\ update_channel' = "none"
  /\ Goto(t, "publish")
  /\ UNCHANGED <<lockVars, serverVars, last_crash, dockerVars, spawned, serial>>

Publish(t) ==
  /\ At(t, "publish")
  /\ container' = task[t].target
  /\ Goto(t, "launch")
  /\ UNCHANGED <<lockVars, stopping, restarting, crash_handled, monitorVars,
                 dockerVars, spawned, serial>>

\* The container is started and the lock released.  A handle that is gone by
\* now counts as success.
Launch(t) ==
  /\ At(t, "launch")
  /\ IF container = NoContainer
     THEN UNCHANGED docker
     ELSE /\ docker[container] # "absent"
          /\ docker' = [docker EXCEPT ![container] = "running"]
  /\ locked' = FALSE
  /\ Return(t)
  /\ UNCHANGED <<state, serverVars, monitorVars, undead, intended, spawned, serial>>

\* Mutant of StartFails: the old state is not restored.
StartFailsStarting(t) ==
  /\ task[t].pc \in {"prepare", "create", "adopt", "launch"}
  /\ At(t, "launch") => container # NoContainer
  /\ locked' = FALSE
  /\ Return(t)
  /\ UNCHANGED <<state, serverVars, monitorVars, dockerVars, spawned, serial>>

\* Pulling the image, creating, attaching or starting the container fails: the
\* state read in Enter is restored.
StartFails(t) ==
  /\ task[t].pc \in {"prepare", "create", "adopt", "launch"}
  /\ At(t, "launch") => container # NoContainer
  /\ state' = task[t].old_state
  /\ locked' = FALSE
  /\ Return(t)
  /\ UNCHANGED <<serverVars, monitorVars, dockerVars, spawned, serial>>

(***************************************************************************)
(* The action of stop, and what follows it.                                *)
(***************************************************************************)

\* The container was asked to end, which it may or may not do; the action never fails.
Asked(t, pc) ==
  /\ At(t, pc)
  /\ locked' = FALSE
  /\ intended' = intended \cup {task[t].target}
  /\ Goto(t, "flag")
  /\ UNCHANGED <<state, serverVars, monitorVars, docker, undead, spawned, serial>>

\* A signal or a docker stop is sent from a task of its own.  A stop command for a
\* server without a handle is given up.
Signal(t) == Asked(t, "signal")

\* A stop command goes into the bounded channel of the container the server has now ...
SendCommand(t) ==
  /\ At(t, "signal")
  /\ container # NoContainer
  /\ Aim(t, "send", container)
  /\ UNCHANGED <<lockVars, serverVars, monitorVars, dockerVars, spawned, serial>>

\* ... when there is room for it.
CommandSent(t) == Asked(t, "send")

\* Only after the lock is released is the exit marked as wanted.
FlagStopping(t) ==
  /\ At(t, "flag")
  /\ stopping' = TRUE
  /\ StopDone(t)
  /\ UNCHANGED <<lockVars, container, restarting, crash_handled, monitorVars,
                 dockerVars, spawned, serial>>

MarkRestarting(t) ==
  /\ At(t, "mark")
  /\ restarting' = TRUE
  /\ Return(t)
  /\ UNCHANGED <<lockVars, container, stopping, crash_handled, monitorVars,
                 dockerVars, spawned, serial>>

\* The wait for the container's exit ends (it exited, or the wait failed) ...
WatchEnds(t) ==
  /\ At(t, "watch")
  /\ Return(t)
  /\ UNCHANGED <<lockVars, serverVars, monitorVars, dockerVars, spawned, serial>>

\* ... or the kill timeout elapses.
WatchExpires(t) ==
  /\ At(t, "watch")
  /\ Goto(t, "kill")
  /\ UNCHANGED <<lockVars, serverVars, monitorVars, dockerVars, spawned, serial>>

Killed(t) ==
  /\ At(t, "killing")
  /\ docker[task[t].target] = "running"
  /\ docker' = [docker EXCEPT ![task[t].target] = "crashed"]
  /\ Return(t)
  /\ UNCHANGED <<lockVars, serverVars, monitorVars, undead, intended, spawned, serial>>

\* Mutants of KillFails: the reset also clears the lock flag; a container that
\* has exited is waited for.
KillUnlocks(t) ==
  /\ At(t, "killing")
  /\ state' = "offline"
  /\ locked' = FALSE
  /\ Return(t)
  /\ UNCHANGED <<serverVars, monitorVars, dockerVars, spawned, serial>>

KillWaits(t) ==
  /\ At(t, "killing")
  /\ docker[task[t].target] = "running"
  /\ state' = "offline"
  /\ Return(t)
  /\ UNCHANGED <<locked, serverVars, monitorVars, dockerVars, spawned, serial>>

\* The daemon fails, or says the container is not running: reset_state.
KillFails(t) ==
  /\ At(t, "killing")
  /\ state' = "offline"
  /\ Return(t)
  /\ UNCHANGED <<locked, serverVars, monitorVars, dockerVars, spawned, serial>>

(***************************************************************************)
(* The container, its sampler and its startup line check.                  *)
(***************************************************************************)

\* The process ends by itself or because of an earlier signal.
Exit(c, how) ==
  /\ docker[c] = "running"
  /\ docker' = [docker EXCEPT ![c] = how]
  /\ UNCHANGED <<lockVars, serverVars, monitorVars, undead, intended, task, spawned,
                 serial>>

\* Mutant of Sample: only a running container is reported.
SampleRunning ==
  /\ monitor = "recv"
  /\ update_channel = "none"
  /\ websocket_sender # NoContainer
  /\ docker[websocket_sender] = "running"
  /\ update_channel' = "running"
  /\ UNCHANGED <<lockVars, serverVars, websocket_sender, monitor, last_crash,
                 dockerVars, task, spawned, serial>>

\* The sampler inspects the container and sends what it saw; a status other
\* than running or exited is ignored by the monitor and left out.
Sample ==
  /\ monitor = "recv"
  /\ update_channel = "none"
  /\ websocket_sender # NoContainer
  /\ docker[websocket_sender] \in {"running"} \cup Exited
  /\ update_channel' = docker[websocket_sender]
  /\ UNCHANGED <<lockVars, serverVars, websocket_sender, monitor, last_crash,
                 dockerVars, task, spawned, serial>>

\* A line that matches startup.done, possibly still buffered after the exit.
StartupLine(c) ==
  /\ c \in {container, websocket_sender} \ {NoContainer}
  /\ docker[c] \in {"running"} \cup Exited
  /\ state = "starting"
  /\ state' = "running"
  /\ UNCHANGED <<locked, serverVars, monitorVars, dockerVars, task, spawned,
                 serial>>

(***************************************************************************)
(* The monitor.                                                            *)
(***************************************************************************)

\* Mutant of MonitorRunning: the state is left to the startup line.
MonitorIdle ==
  /\ monitor = "recv"
  /\ update_channel = "running"
  /\ update_channel' = "none"
  /\ UNCHANGED <<lockVars, serverVars, websocket_sender, monitor, last_crash,
                 dockerVars, task, spawned, serial>>

MonitorRunning ==
  /\ monitor = "recv"
  /\ update_channel = "running"
  /\ update_channel' = "none"
  /\ state' = IF state = "offline" THEN "running" ELSE state
  /\ UNCHANGED <<locked, serverVars, websocket_sender, monitor, last_crash,
                 dockerVars, task, spawned, serial>>

\* Mutant of WantedExit: a wanted stop is looked at before a restart.
WantedStopFirst ==
  /\ crash_handled' = TRUE
  /\ stopping' = FALSE
  /\ restarting' = (restarting /\ stopping)
  /\ spawned' = IF stopping THEN spawned ELSE spawned + 1
  /\ monitor' = "off"
  /\ update_channel' = "none"

\* An exit that a restart or a stop asked for ends the loop; a restart spawns the
\* new start.
WantedExit ==
  /\ crash_handled' = TRUE
  /\ restarting' = FALSE
  /\ stopping' = FALSE
  /\ spawned' = IF restarting THEN spawned + 1 ELSE spawned
  /\ monitor' = "off"
  /\ update_channel' = "none"

\* An exit: the state goes offline, and the flags say whether it was wanted.
MonitorExit ==
  /\ monitor = "recv"
  /\ update_channel \in Exited
  /\ state' = "offline"
  /\ IF restarting \/ stopping THEN WantedExit
     ELSE /\ monitor' = IF CrashDetection THEN "crash" ELSE "off"
          /\ update_channel' = IF CrashDetection THEN update_channel ELSE "none"
          /\ UNCHANGED <<crash_handled, restarting, stopping, spawned>>
  /\ UNCHANGED <<locked, container, websocket_sender, last_crash, dockerVars,
                 task, serial>>

\* A crash is handled once per container, and a clean exit may not count.
MonitorCrash ==
  /\ monitor = "crash"
  /\ crash_handled' = TRUE
  /\ IF crash_handled \/ (update_channel = "clean" /\ ~DetectCleanExit)
     THEN monitor' = "off" /\ update_channel' = "none"
     ELSE monitor' = "throttle" /\ UNCHANGED update_channel
  /\ UNCHANGED <<lockVars, container, stopping, restarting, websocket_sender,
                 last_crash, dockerVars, task, spawned, serial>>

\* Under the last_crash mutex: a crash too soon after the last one is not
\* answered with a start.
MonitorThrottle ==
  /\ monitor = "throttle"
  /\ last_crash' = TRUE
  /\ spawned' = IF last_crash THEN spawned ELSE spawned + 1
  /\ monitor' = "off"
  /\ update_channel' = "none"
  /\ UNCHANGED <<lockVars, serverVars, websocket_sender, dockerVars, task, serial>>

\* The crash timeout has passed.
CrashTimeout ==
  /\ last_crash
  /\ last_crash' = FALSE
  /\ UNCHANGED <<lockVars, serverVars, websocket_sender, monitor,
                 update_channel, dockerVars, task, spawned, serial>>

(***************************************************************************)
(* Specification                                                           *)
(***************************************************************************)
Calls(t) ==
  \/ \E o \in Ops, p \in Patience : Begin(t, o, p)
  \/ BeginSpawned(t)

Prompt(t) ==
  \/ RestartCheck(t) \/ StartCheck(t) \/ StartRefused(t) \/ StopCheck(t)
  \/ DrainCheck(t) \/ KillCheck(t)
  \/ Enter(t) \/ FindFree(t) \/ Refused(t) \/ GiveUp(t) \/ Claim(t)
  \/ Remove(t) \/ Drop(t) \/ Prepare(t) \/ Create(t) \/ Adopt(t) \/ Publish(t)
  \/ Launch(t) \/ StartFails(t)
  \/ Signal(t) \/ SendCommand(t) \/ FlagStopping(t) \/ MarkRestarting(t)
  \/ WatchEnds(t) \/ WatchExpires(t) \/ Killed(t) \/ KillFails(t)

Steps(t) == Prompt(t) \/ CommandSent(t)

Monitor == MonitorRunning \/ MonitorExit \/ MonitorCrash \/ MonitorThrottle

Next ==
  \/ \E t \in Task : Calls(t) \/ Steps(t) \/ Abandon(t)
  \/ \E c \in Container, how \in ExitKinds : Exit(c, how)
  \/ \E c \in Container : StartupLine(c)
  \/ Sample
  \/ Monitor
  \/ CrashTimeout

Spec == Init /\ [][Next]_vars

\* The write to a process that has ended fails, and with it the channel.
CommandFails(t) == CommandSent(t) /\ docker[task[t].target] # "running"

\* The executor runs every ready task; timers fire; the daemon answers, and closes
\* the connection to a container that has ended.  Nothing is assumed of clients, of
\* the process in the container, which need not read its input, of its output, or
\* of the moment a connection is closed.
Fairness ==
  /\ \A t \in Task : WF_vars(Prompt(t)) /\ WF_vars(CommandFails(t))
  /\ WF_vars(Sample)
  /\ WF_vars(Monitor)

LiveSpec == Spec /\ Fairness

(***************************************************************************)
(* The lock, as Power uses it                                              *)
(***************************************************************************)
LockPhase(t) ==
  CASE task[t].pc \in {"wait", "claim", "lost"} -> task[t].pc
    [] Inside(t) -> "inside"
    [] OTHER     -> "out"

LockCall(t) ==
  IF LockPhase(t) \in {"out", "lost"}
  THEN [phase |-> LockPhase(t), wanted |-> "starting", old_state |-> "offline",
        patient |-> FALSE]
  ELSE [phase |-> LockPhase(t), wanted |-> task[t].wanted,
        old_state |-> task[t].old_state, patient |-> task[t].patient]

Lock == INSTANCE StateLock WITH Caller <- Task,
                                call <- [t \in Task |-> LockCall(t)]

(***************************************************************************)
(* Properties                                                              *)
(***************************************************************************)

\* Every power call uses the state lock the way StateLock specifies it, and
\* nothing else writes the lock flag.
ImplementsLock == Lock!Spec

\* As long as actions found what they had checked for, a container process that
\* runs is the one the server has a handle to and a live monitor watches, so
\* that stop and kill reach it and its exit is noticed.  The exception is a
\* container whose forced removal failed before the handle was dropped.
RunningIsWatched ==
  serial => \A c \in Container :
              docker[c] = "running" /\ c \notin undead
                => c = container /\ c = websocket_sender /\ monitor = "recv"

\* A server without a container is not left in a state that refuses both start
\* (not offline) and stop (nothing to stop): only a start that is still at work
\* shows that combination.
NoWedge ==
  serial /\ state # "offline" /\ container = NoContainer
    => \E t \in Task : task[t].pc \in Starting

\* The exit of a process that a stop or a kill asked to end is taken for a crash
\* only in the window between the end of stop's action and the store of stopping,
\* whatever other calls run at the same time: when the monitor looks at the flags,
\* the stop that asked this container is still to set them.
IntendedExitNeverCrash ==
  [][/\ serial /\ websocket_sender \in intended
     /\ monitor = "recv" /\ monitor' = "crash"
     => \E t \in Task : At(t, "flag") /\ task[t].target = websocket_sender]_vars

(***************************************************************************)
(* The inductive invariant behind the three properties above               *)
(***************************************************************************)

\* A stop that queues for the lock, or has it, has a container to signal, and a
\* kill one to kill.
HasTarget ==
  \A t \in Task :
    \/ task[t].pc \in Waiting /\ task[t].wanted = "stopping"
    \/ task[t].pc \in {"killing"} \cup Asking
    => task[t].target \in Container

\* Actions run one at a time, and a start would restore "offline".
OneAction ==
  /\ \A t, u \in Task : Inside(t) /\ Inside(u) => t = u
  /\ \A t \in Task : task[t].pc \in Starting => task[t].old_state = "offline"

\* The handle and the monitor change together, except between the two steps of
\* setup_container that set them.
HandleWatched ==
  (\A t \in Task : ~At(t, "publish")) => container = websocket_sender

\* How far a start has come tells which containers exist.
StartProgress(t) ==
  /\ task[t].pc \in {"drop", "prepare", "create"} =>
       \A c \in Container : docker[c] # "absent" => c \in undead
  /\ task[t].pc \in {"prepare", "create", "adopt", "publish"} =>
       container = NoContainer
  /\ task[t].pc \in {"adopt", "publish", "launch"} =>
       /\ task[t].target \in Container
       /\ \A c \in Container : docker[c] = IF c = task[t].target THEN "created"
                                                               ELSE "absent"
  /\ task[t].pc \in {"adopt", "publish"} =>
       \A u \in Task \ {t} : task[u].target # task[t].target
  /\ task[t].pc = "adopt" => task[t].target \notin intended
  /\ task[t].pc \in {"publish", "launch"} =>
       monitor = "recv" /\ websocket_sender = task[t].target
  /\ task[t].pc = "launch" => container = task[t].target

\* What the monitor holds is about a container that has exited for good.
ExitIsFinal ==
  /\ monitor # "off" => websocket_sender \in Container
  /\ update_channel # "none" => websocket_sender \in Container
  /\ monitor \in {"crash", "throttle"} => update_channel \in Exited
  /\ update_channel \in Exited =>
       docker[websocket_sender] \notin {"running", "created"}

\* That the watched container was asked to end shows in the stopping flag until
\* its monitor looks, or a stop is about to set it.
IntentIsFlagged ==
  monitor = "recv" /\ websocket_sender \in intended
    => \/ stopping
       \/ \E t \in Task : At(t, "flag") /\ task[t].target = websocket_sender

\* Together: what holds as long as every action found what it had checked for.
Consistent ==
  /\ OneAction
  /\ HandleWatched
  /\ \A t \in Task : StartProgress(t)
  /\ ExitIsFinal
  /\ IntentIsFlagged
  /\ RunningIsWatched
  /\ NoWedge

SerialInv == HasTarget /\ (serial => Consistent)

\* The exit of a watched container turns the state offline, unless a start
\* replaces the container, or launches it again, first.
ExitSettles ==
  \A c \in Container :
    monitor = "recv" /\ websocket_sender = c /\ docker[c] \in Exited
      ~> state = "offline" \/ websocket_sender # c \/ docker[c] = "running"

\* A container that runs although the server is offline (after a kill that
\* failed, or a state restored by a failed start) is noticed and brings the
\* state back, as long as actions found what they had checked for.
RunningAdopted ==
  \A c \in Container :
    (/\ serial /\ monitor = "recv" /\ websocket_sender = c
     /\ docker[c] = "running" /\ state = "offline")
      ~> (\/ state # "offline" \/ ~serial
          \/ websocket_sender # c \/ docker[c] # "running")

\* A restart that is flagged while its container is watched is consumed by the
\* container's exit, whatever stops or kills happen at the same time.
RestartHonoured ==
  \A c \in Container :
    restarting /\ monitor = "recv" /\ websocket_sender = c /\ docker[c] \in Exited
      ~> ~restarting \/ websocket_sender # c \/ docker[c] = "running"

\* Every power call returns, whatever the others do, also when one was dropped in its
\* action and has left the lock set, or waits in it; unless it is that call itself: it
\* was dropped, or it sends the stop command to a process that runs and does not read.
CallsReturn ==
  \A t \in Task :
    task[t].pc # "idle"
      ~> \/ task[t].pc \in {"idle", "lost"}
         \/ task[t].pc = "send" /\ docker[task[t].target] = "running"
=============================================================================
