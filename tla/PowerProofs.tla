---------------------------- MODULE PowerProofs ----------------------------
(***************************************************************************)
(* Proofs about Power, for any number of tasks and containers and every    *)
(* choice of the configuration constants.                                  *)
(***************************************************************************)
EXTENDS Power, TLAPS

(***************************************************************************)
(* How the task records change.                                            *)
(***************************************************************************)
Tasks == task \in [Task -> TaskRecord]

\* Task t moves to position pc with the given fields; no other task changes.
Becomes(t, pc, w, s, c) ==
  /\ Tasks'
  /\ \A u \in Task : u # t => task'[u] = task[u]
  /\ task'[t].pc = pc
  /\ task'[t].wanted = w
  /\ task'[t].old_state = s
  /\ task'[t].target = c

Stays(t, pc) == Becomes(t, pc, task[t].wanted, task[t].old_state, task[t].target)
Fresh(t, pc) == Becomes(t, pc, "starting", "offline", NoContainer)

LEMMA Positions ==
  /\ AllOps \subseteq PC
  /\ Starting \subseteq PC
  /\ Waiting \subseteq PC
  /\ {"idle", "restart", "start", "stop", "drain", "kill", "signal", "send", "flag",
      "mark", "watch", "killing", "lost", "remove", "enter", "wait", "claim",
      "drop", "prepare", "create", "adopt", "publish", "launch"} \subseteq PC
BY DEF AllOps, PC, Starting, Asking, Waiting

LEMMA IdleFields ==
  /\ Idle \in TaskRecord
  /\ Idle.pc = "idle" /\ Idle.wanted = "starting" /\ Idle.old_state = "offline"
  /\ Idle.target = NoContainer
BY DEF Idle, TaskRecord, PC, AllOps, State, Ref

LEMMA DroppedFields ==
  /\ Dropped \in TaskRecord
  /\ Dropped.pc = "lost" /\ Dropped.wanted = "starting"
  /\ Dropped.old_state = "offline" /\ Dropped.target = NoContainer
BY DEF Idle, Dropped, TaskRecord, PC, AllOps, State, Ref

LEMMA CalledFields ==
  ASSUME NEW o \in AllOps, NEW p \in BOOLEAN
  PROVE  /\ Called(o, p) \in TaskRecord
         /\ Called(o, p).pc = o /\ Called(o, p).wanted = "starting"
         /\ Called(o, p).old_state = "offline"
         /\ Called(o, p).target = NoContainer
BY DEF Idle, Called, TaskRecord, PC, AllOps, State, Ref

LEMMA GotoStays ==
  ASSUME Tasks, NEW t \in Task, NEW pc \in PC, Goto(t, pc)
  PROVE  Stays(t, pc)
BY DEF Tasks, Goto, Stays, Becomes, TaskRecord

LEMMA AimBecomes ==
  ASSUME Tasks, NEW t \in Task, NEW pc \in PC, NEW c \in Ref, Aim(t, pc, c)
  PROVE  Becomes(t, pc, task[t].wanted, task[t].old_state, c)
BY DEF Tasks, Aim, Becomes, TaskRecord

LEMMA QueuedFields ==
  ASSUME NEW r \in TaskRecord, NEW s \in {"starting", "stopping"}, NEW c \in Ref
  PROVE  /\ Queued(r, s, c) \in TaskRecord
         /\ Queued(r, s, c).pc = "enter" /\ Queued(r, s, c).wanted = s
         /\ Queued(r, s, c).old_state = r.old_state /\ Queued(r, s, c).target = c
BY Positions DEF TaskRecord, Queued

LEMMA QueueBecomes ==
  ASSUME Tasks, NEW t \in Task, NEW s \in {"starting", "stopping"}, NEW c \in Ref,
         Queue(t, s, c)
  PROVE  Becomes(t, "enter", s, task[t].old_state, c)
<1>1. task[t] \in TaskRecord
  BY DEF Tasks
<1>2. QED
  BY <1>1, QueuedFields DEF Tasks, Queue, Becomes

LEMMA AwaitBecomes ==
  ASSUME Tasks, NEW t \in Task, NEW s \in State, Await(t, s)
  PROVE  Becomes(t, "wait", task[t].wanted, s, task[t].target)
BY DEF Tasks, Await, Becomes, TaskRecord, PC, Waiting

LEMMA ReturnFresh ==
  ASSUME Tasks, NEW t \in Task, Return(t)
  PROVE  Fresh(t, "idle")
BY IdleFields DEF Tasks, Return, Fresh, Becomes

LEMMA StopFailedMoves ==
  ASSUME Tasks, NEW t \in Task, StopFailed(t)
  PROVE  Stays(t, "watch") \/ Fresh(t, "idle")
BY GotoStays, ReturnFresh, Positions DEF StopFailed

LEMMA StopDoneMoves ==
  ASSUME Tasks, NEW t \in Task, StopDone(t)
  PROVE  Stays(t, "watch") \/ Stays(t, "mark") \/ Fresh(t, "idle")
BY GotoStays, ReturnFresh, Positions DEF StopDone

(***************************************************************************)
(* Where each step takes its task.                                         *)
(***************************************************************************)
LEMMA BeginMoves ==
  ASSUME Tasks, NEW t \in Task, NEW o \in Ops, NEW p \in Patience, Begin(t, o, p)
  PROVE  Fresh(t, o)
<1>1. o \in AllOps /\ p \in BOOLEAN
  BY PowerAssumption
<1>2. QED
  BY <1>1, CalledFields DEF Begin, Tasks, Fresh, Becomes

LEMMA BeginSpawnedMoves ==
  ASSUME Tasks, NEW t \in Task, BeginSpawned(t)
  PROVE  Fresh(t, "start")
<1>1. "start" \in AllOps
  BY DEF AllOps
<1>2. QED
  BY <1>1, CalledFields DEF BeginSpawned, Tasks, Fresh, Becomes

LEMMA StepMoves ==
  ASSUME TypeOK, NEW t \in Task
  PROVE  /\ RestartCheck(t) => Fresh(t, "idle") \/ Stays(t, "start") \/ Stays(t, "stop")
         /\ StartCheck(t) => Becomes(t, "enter", "starting", task[t].old_state, NoContainer)
         /\ StopCheck(t) =>
              \/ Stays(t, "watch") \/ Stays(t, "mark") \/ Fresh(t, "idle")
              \/ /\ container # NoContainer
                 /\ Becomes(t, "enter", "stopping", task[t].old_state, container)
         /\ DrainCheck(t) => Fresh(t, "idle") \/ Stays(t, "stop")
         /\ KillCheck(t) =>
              \/ Fresh(t, "idle") /\ UNCHANGED stopping
              \/ /\ container # NoContainer
                 /\ stopping' = TRUE
                 /\ Becomes(t, "killing", task[t].wanted, task[t].old_state, container)
         /\ Enter(t) => Becomes(t, "wait", task[t].wanted, state, task[t].target)
         /\ FindFree(t) \/ GiveUp(t) => Stays(t, "claim")
         /\ Refused(t) => Fresh(t, "idle") \/ Stays(t, "watch")
         /\ Claim(t) => \/ task[t].wanted = "starting" /\ Stays(t, "remove")
                        \/ task[t].wanted = "stopping" /\ Stays(t, "signal")
         /\ Abandon(t) => Fresh(t, "idle") \/ Fresh(t, "lost")
         /\ Remove(t) => Stays(t, "drop")
         /\ Drop(t) => Stays(t, "prepare")
         /\ Prepare(t) => \/ container = NoContainer /\ Stays(t, "create")
                          \/ container # NoContainer /\ Stays(t, "launch")
         /\ Create(t) => (\E c \in Container \ Referenced :
              /\ docker' = [docker EXCEPT ![c] = "created"]
              /\ intended' = intended \ {c}
              /\ Becomes(t, "adopt", task[t].wanted, task[t].old_state, c))
         /\ Adopt(t) => Stays(t, "publish")
         /\ Publish(t) => Stays(t, "launch")
         /\ Signal(t) \/ CommandSent(t) => Stays(t, "flag")
         /\ SendCommand(t) =>
              /\ container # NoContainer
              /\ Becomes(t, "send", task[t].wanted, task[t].old_state, container)
         /\ FlagStopping(t) => Stays(t, "watch") \/ Stays(t, "mark") \/ Fresh(t, "idle")
         /\ WatchExpires(t) => Stays(t, "kill")
         /\ \/ StartRefused(t) \/ Launch(t) \/ StartFails(t) \/ MarkRestarting(t)
            \/ WatchEnds(t) \/ Killed(t) \/ KillFails(t)
            => Fresh(t, "idle")
<1> USE GotoStays, ReturnFresh, Positions DEF TypeOK, Tasks
<1>1. RestartCheck(t) => Fresh(t, "idle") \/ Stays(t, "start") \/ Stays(t, "stop")
  BY DEF RestartCheck
<1>2. StartCheck(t) => Becomes(t, "enter", "starting", task[t].old_state, NoContainer)
  BY QueueBecomes DEF StartCheck, Ref
<1>3. StopCheck(t) =>
        \/ Stays(t, "watch") \/ Stays(t, "mark") \/ Fresh(t, "idle")
        \/ /\ container # NoContainer
           /\ Becomes(t, "enter", "stopping", task[t].old_state, container)
  BY StopFailedMoves, StopDoneMoves, QueueBecomes DEF StopCheck
<1>4. DrainCheck(t) => Fresh(t, "idle") \/ Stays(t, "stop")
  BY DEF DrainCheck
<1>5. KillCheck(t) =>
        \/ Fresh(t, "idle") /\ UNCHANGED stopping
        \/ /\ container # NoContainer
           /\ stopping' = TRUE
           /\ Becomes(t, "killing", task[t].wanted, task[t].old_state, container)
  BY AimBecomes DEF KillCheck
<1>6. Enter(t) => Becomes(t, "wait", task[t].wanted, state, task[t].target)
  BY AwaitBecomes DEF Enter
<1>7. FindFree(t) \/ GiveUp(t) => Stays(t, "claim")
  BY DEF FindFree, GiveUp
<1>8. Refused(t) => Fresh(t, "idle") \/ Stays(t, "watch")
  BY StopFailedMoves DEF Refused
<1>9. Claim(t) =>
        \/ task[t].wanted = "starting" /\ Stays(t, "remove")
        \/ task[t].wanted = "stopping" /\ Stays(t, "signal")
  BY DEF Claim, TaskRecord
<1>10. Abandon(t) => Fresh(t, "idle") \/ Fresh(t, "lost")
  BY IdleFields, DroppedFields DEF Abandon, Fresh, Becomes
<1>11. Remove(t) => Stays(t, "drop")
  BY DEF Remove
<1>12. Drop(t) => Stays(t, "prepare")
  BY DEF Drop
<1>13. Prepare(t) =>
         \/ container = NoContainer /\ Stays(t, "create")
         \/ container # NoContainer /\ Stays(t, "launch")
  BY DEF Prepare
<1>14. Create(t) => \E c \in Container \ Referenced :
        /\ docker' = [docker EXCEPT ![c] = "created"]
        /\ intended' = intended \ {c}
        /\ Becomes(t, "adopt", task[t].wanted, task[t].old_state, c)
  BY AimBecomes DEF Create, Ref
<1>15. Adopt(t) => Stays(t, "publish")
  BY DEF Adopt
<1>16. Publish(t) => Stays(t, "launch")
  BY DEF Publish
<1>17. Signal(t) \/ CommandSent(t) => Stays(t, "flag")
  BY DEF Signal, CommandSent, Asked
<1>18. SendCommand(t) =>
         /\ container # NoContainer
         /\ Becomes(t, "send", task[t].wanted, task[t].old_state, container)
  BY AimBecomes DEF SendCommand
<1>19. FlagStopping(t) => Stays(t, "watch") \/ Stays(t, "mark") \/ Fresh(t, "idle")
  BY StopDoneMoves DEF FlagStopping
<1>20. WatchExpires(t) => Stays(t, "kill")
  BY DEF WatchExpires
<1>21. \/ StartRefused(t) \/ Launch(t) \/ StartFails(t) \/ MarkRestarting(t)
      \/ WatchEnds(t) \/ Killed(t) \/ KillFails(t)
      => Fresh(t, "idle")
  BY DEF StartRefused, Launch, StartFails, MarkRestarting, WatchEnds, Killed, KillFails
<1>22. QED
  BY <1>1, <1>2, <1>3, <1>4, <1>5, <1>6, <1>7, <1>8, <1>9, <1>10, <1>11, <1>12, <1>13, <1>14, <1>15, <1>16, <1>17, <1>18, <1>19, <1>20, <1>21

LEMMA TasksStep ==
  ASSUME TypeOK, NEW t \in Task, Calls(t) \/ Steps(t) \/ Abandon(t)
  PROVE  Tasks'
<1>0. Tasks
  BY DEF TypeOK, Tasks
<1>1. Calls(t) => Tasks'
  BY <1>0, BeginMoves, BeginSpawnedMoves DEF Calls, Fresh, Becomes
<1>2. Steps(t) \/ Abandon(t) => Tasks'
  <2>1. \A pc, w, s, c : Becomes(t, pc, w, s, c) => Tasks'
    BY DEF Becomes
  <2>2. QED
    BY <2>1, StepMoves DEF Steps, Prompt, Fresh, Stays
<1>3. QED
  BY <1>1, <1>2

\* The types hold at boot.
LEMMA TypeInit == Init => TypeOK
<1> SUFFICES ASSUME Init
             PROVE  TypeOK
  OBVIOUS
<1>1. task \in [Task -> TaskRecord]
  BY IdleFields DEF Init
<1>2. docker \in [Container -> Status] /\ undead \subseteq Container
      /\ intended \subseteq Container
  BY DEF Init, Status
<1>3. state \in State /\ container \in Ref /\ websocket_sender \in Ref
      /\ spawned \in Nat
  BY DEF Init, State, Ref
<1>4. QED
  BY <1>1, <1>2, <1>3 DEF Init, TypeOK

\* Every step keeps the types.
LEMMA TypeStep == TypeOK /\ HasTarget /\ [Next]_vars => TypeOK'
<1> SUFFICES ASSUME TypeOK, HasTarget, [Next]_vars
             PROVE  TypeOK'
  OBVIOUS
<1> USE DEF TypeOK, Tasks, lockVars, serverVars, monitorVars, dockerVars
<1>1. ASSUME NEW t \in Task, Calls(t)
      PROVE  TypeOK'
  <2>1. Tasks'
    BY <1>1, TasksStep
  <2> HIDE DEF Tasks
  <2>2. CASE \E o \in Ops, p \in Patience : Begin(t, o, p)
    BY <2>1, <2>2 DEF Begin, Tasks
  <2>3. CASE BeginSpawned(t)
    <3>1. spawned' \in Nat
      BY <2>3 DEF BeginSpawned
    <3>2. QED
      BY <2>1, <2>3, <3>1 DEF BeginSpawned, Tasks
  <2>4. QED
    BY <1>1, <2>2, <2>3 DEF Calls
<1>2. ASSUME NEW t \in Task
      PROVE  /\ task[t].wanted \in State
             /\ task[t].old_state \in State
             /\ task[t].target \in Ref
  BY DEF TaskRecord, State
<1>3. ASSUME NEW t \in Task, Steps(t) \/ Abandon(t)
      PROVE  TypeOK'
  <2>1. Tasks'
    BY <1>3, TasksStep
  <2> HIDE DEF Tasks
  <2> USE <1>2
  <2>2. CASE RestartCheck(t) \/ StartCheck(t) \/ StartRefused(t) \/ StopCheck(t) \/ DrainCheck(t)
    BY <2>1, <2>2 DEF Tasks, RestartCheck, StartCheck, StartRefused, StopCheck, DrainCheck
  <2>3. CASE Enter(t) \/ FindFree(t) \/ Refused(t) \/ GiveUp(t) \/ Abandon(t)
    BY <2>1, <2>3 DEF Tasks, Enter, FindFree, Refused, GiveUp, Abandon
  <2>4. CASE Remove(t) \/ Drop(t) \/ Prepare(t)
    BY <2>1, <2>4 DEF Tasks, Remove, Drop, Prepare, Status, Ref, Existing
  <2>5. CASE SendCommand(t) \/ FlagStopping(t) \/ MarkRestarting(t) \/ WatchEnds(t) \/ WatchExpires(t)
    BY <2>1, <2>5 DEF Tasks, SendCommand, FlagStopping, MarkRestarting, WatchEnds, WatchExpires
  <2>6. CASE Claim(t)
    BY <2>1, <2>6 DEF Tasks, Claim, State
  <2>7. CASE Create(t)
    BY <2>1, <2>7 DEF Tasks, Create, Status
  <2>8. CASE Adopt(t) \/ Publish(t)
    BY <2>1, <2>8 DEF Tasks, Adopt, Publish
  <2>9. CASE Launch(t)
    BY <2>1, <2>9 DEF Tasks, Launch, Status
  <2>10. CASE StartFails(t)
    BY <2>1, <2>10 DEF Tasks, StartFails
  <2>11. CASE KillFails(t)
    BY <2>1, <2>11 DEF Tasks, KillFails, State
  <2>12. CASE Killed(t)
    <3>1. docker' \in [Container -> Status]
      BY <2>12 DEF Killed, Status, Exited
    <3>2. QED
      BY <2>1, <2>12, <3>1 DEF Tasks, Killed
  <2>13. CASE Signal(t) \/ CommandSent(t)
    <3>1. task[t].target \in Container
      BY <2>13 DEF Signal, CommandSent, Asked, At, HasTarget, Asking
    <3>2. intended' \subseteq Container
      BY <2>13, <3>1 DEF Signal, CommandSent, Asked
    <3>3. QED
      BY <2>1, <2>13, <3>2 DEF Tasks, Signal, CommandSent, Asked
  <2>14. CASE KillCheck(t)
    <3>1. intended' \subseteq Container /\ stopping' \in BOOLEAN
      BY <2>14 DEF KillCheck, Ref
    <3>2. QED
      BY <2>1, <2>14, <3>1 DEF Tasks, KillCheck
  <2>15. QED
    BY <1>3, <2>2, <2>3, <2>4, <2>5, <2>6, <2>7, <2>8, <2>9, <2>10, <2>11, <2>12, <2>13, <2>14
       DEF Steps, Prompt
<1>4. CASE \E c \in Container, how \in ExitKinds : Exit(c, how)
  BY <1>4, PowerAssumption DEF Exit, Status, Exited
<1>5. CASE \E c \in Container : StartupLine(c)
  BY <1>5 DEF StartupLine, State
<1>6. CASE Sample
  BY <1>6 DEF Sample, Exited
<1>7. CASE MonitorRunning
  BY <1>7 DEF MonitorRunning, State
<1>8. CASE MonitorExit
  <2>1. CASE restarting \/ stopping
    <3>1. spawned' \in Nat
      BY <1>8, <2>1 DEF MonitorExit, WantedExit
    <3>2. QED
      BY <1>8, <2>1, <3>1 DEF MonitorExit, WantedExit, State
  <2>2. CASE ~(restarting \/ stopping)
    BY <1>8, <2>2 DEF MonitorExit, WantedExit, State
  <2>3. QED
    BY <2>1, <2>2
<1>9. CASE MonitorCrash
  BY <1>9 DEF MonitorCrash, State
<1>10. CASE MonitorThrottle
  BY <1>10 DEF MonitorThrottle, State
<1>11. CASE CrashTimeout
  BY <1>11 DEF CrashTimeout
<1>12. CASE UNCHANGED vars
  BY <1>12 DEF vars
<1>13. QED
  BY <1>1, <1>3, <1>4, <1>5, <1>6, <1>7, <1>8, <1>9, <1>10, <1>11, <1>12 DEF Next, Monitor

\* The targets that stop and kill carry.
LEMMA TargetStep == TypeOK /\ HasTarget /\ [Next]_vars => HasTarget'
<1> SUFFICES ASSUME TypeOK, HasTarget, [Next]_vars
             PROVE  HasTarget'
  OBVIOUS
<1> USE DEF HasTarget
<1>0. Tasks
  BY DEF TypeOK, Tasks
<1>1. ASSUME NEW t \in Task, NEW pc, NEW w, NEW s, NEW c, Becomes(t, pc, w, s, c),
             \/ pc \in Waiting /\ w = "stopping"
             \/ pc \in {"killing"} \cup Asking
             => c \in Container
      PROVE  HasTarget'
  BY <1>1 DEF Becomes
<1>2. ASSUME NEW t \in Task, NEW pc \in PC \ (Waiting \cup Asking \cup {"killing"}), Stays(t, pc)
      PROVE  HasTarget'
  BY <1>1, <1>2 DEF Stays
<1>3. ASSUME NEW t \in Task, NEW pc \in PC \ (Asking \cup {"killing"}), Fresh(t, pc)
      PROVE  HasTarget'
  BY <1>1, <1>3 DEF Fresh
<1>4. container \in Container \/ container = NoContainer
  BY DEF TypeOK, Ref
<1>5. ASSUME NEW t \in Task, Calls(t)
      PROVE  HasTarget'
  <2>1. Ops \cup {"start"} \subseteq PC \ (Asking \cup {"killing"})
    BY PowerAssumption, Positions DEF AllOps, Asking
  <2>2. QED
    BY <1>0, <1>3, <1>5, <2>1, BeginMoves, BeginSpawnedMoves DEF Calls
<1>6. ASSUME NEW t \in Task, Steps(t) \/ Abandon(t)
      PROVE  HasTarget'
  <2>1. {"idle", "restart", "start", "stop", "drain", "kill", "flag",
         "mark", "watch", "lost"} \cup Starting \subseteq PC \ (Waiting \cup Asking \cup {"killing"})
    BY Positions DEF Starting, Asking, Waiting
  <2>2. CASE \/ RestartCheck(t) \/ StartRefused(t) \/ DrainCheck(t) \/ Refused(t)
             \/ Abandon(t) \/ Signal(t) \/ CommandSent(t) \/ FlagStopping(t) \/ MarkRestarting(t)
             \/ WatchEnds(t) \/ WatchExpires(t) \/ Killed(t) \/ KillFails(t)
             \/ Launch(t) \/ StartFails(t)
    BY <1>2, <1>3, <2>1, <2>2, StepMoves DEF Starting, Asking
  <2>3. CASE Remove(t) \/ Drop(t) \/ Prepare(t) \/ Adopt(t) \/ Publish(t)
    BY <1>2, <2>1, <2>3, StepMoves DEF Starting, Asking
  <2>4. CASE StartCheck(t)
    BY <1>1, <2>4, StepMoves DEF Asking
  <2>5. CASE StopCheck(t)
    BY <1>1, <1>2, <1>3, <1>4, <2>1, <2>5, StepMoves DEF Asking
  <2>6. CASE KillCheck(t)
    BY <1>1, <1>3, <1>4, <2>1, <2>6, StepMoves DEF Waiting, Asking
  <2>7. CASE Enter(t) \/ FindFree(t) \/ GiveUp(t)
    <3>1. task[t].pc \in {"enter", "wait"}
      BY <2>7 DEF Enter, FindFree, GiveUp, At
    <3>2. task[t].wanted = "stopping" => task[t].target \in Container
      BY <3>1 DEF Waiting
    <3>3. \/ Stays(t, "claim")
          \/ Becomes(t, "wait", task[t].wanted, state, task[t].target)
      BY <2>7, StepMoves
    <3>4. QED
      BY <1>1, <3>2, <3>3 DEF Stays, Asking
  <2>8. CASE Create(t)
    BY <1>1, <2>8, StepMoves DEF Waiting, Asking
  <2>9. CASE Claim(t)
    <3>1. task[t].wanted = "stopping" => task[t].target \in Container
      BY <2>9 DEF Claim, At, Waiting
    <3>2. \/ task[t].wanted = "starting" /\ Stays(t, "remove")
          \/ task[t].wanted = "stopping" /\ Stays(t, "signal")
      BY <2>9, StepMoves
    <3>3. QED
      BY <1>1, <1>2, <2>1, <3>1, <3>2 DEF Stays, Waiting, Starting
  <2>10. CASE SendCommand(t)
    BY <1>1, <1>4, <2>10, StepMoves DEF Waiting
  <2>11. QED
    BY <1>6, <2>2, <2>3, <2>4, <2>5, <2>6, <2>7, <2>8, <2>9, <2>10 DEF Steps, Prompt
<1>7. CASE \/ \E c \in Container, how \in ExitKinds : Exit(c, how)
           \/ \E c \in Container : StartupLine(c)
           \/ Sample \/ Monitor \/ CrashTimeout \/ UNCHANGED vars
  BY <1>7 DEF Exit, StartupLine, Sample, Monitor, MonitorRunning, MonitorExit, WantedExit,
              MonitorCrash, MonitorThrottle, CrashTimeout, vars
<1>8. QED
  BY <1>5, <1>6, <1>7 DEF Next

\* Every variable of the power core keeps its type.
THEOREM TypeCorrect == Spec => [](TypeOK /\ HasTarget)
<1>1. Init => HasTarget
  BY IdleFields DEF Init, HasTarget, Waiting, Asking
<1>2. QED
  BY <1>1, TypeInit, TypeStep, TargetStep, PTL DEF Spec

(***************************************************************************)
(* Consistency.                                                            *)
(***************************************************************************)

\* A step of a task that is not in start's action, nor enters stop's, and that changes no
\* container and no monitor.  A container it asks to end is the server's or its own, and
\* then the stopping flag is set, or is what the task sets next.
Quiet(t) ==
  /\ task[t].pc \notin Starting
  /\ task'[t].pc \notin Starting
  /\ task'[t].pc \in Asking => task[t].pc \in Asking
  /\ \A u \in Task : u # t => task'[u] = task[u]
  /\ task'[t].target \in {NoContainer, container, task[t].target}
  /\ task[t].pc = "flag" => stopping'
  /\ stopping => stopping'
  /\ state' \in {state, "offline"}
  /\ \/ intended' = intended
     \/ \E c \in {container, task[t].target} :
          /\ intended' = intended \cup {c}
          /\ stopping' \/ (task'[t].pc = "flag" /\ task'[t].target = c)
  /\ UNCHANGED <<container, websocket_sender, monitor, update_channel, docker, undead>>

LEMMA QuietKeeps ==
  ASSUME TypeOK, Consistent, serial, NEW t \in Task, Quiet(t)
  PROVE  Consistent'
<1> USE DEF Consistent, Quiet
<1>1. OneAction'
  BY DEF OneAction, Inside
<1>2. HandleWatched'
  BY DEF HandleWatched, At, Starting, Asking
<1>3. (\A u \in Task : StartProgress(u))'
  <2> SUFFICES ASSUME NEW u \in Task
               PROVE  StartProgress(u)'
    OBVIOUS
  <2>1. CASE u = t
    BY <2>1 DEF StartProgress, Starting
  <2>2. CASE u # t
    <3>1. task'[u] = task[u] /\ StartProgress(u)
      BY <2>2
    <3>2. ASSUME task[u].pc \in {"adopt", "publish"}, NEW v \in Task \ {u}
          PROVE  task'[v].target # task[u].target
      BY <3>1, <3>2, PowerAssumption DEF StartProgress
    <3>3. task[u].pc = "adopt" => task[u].target \notin intended'
      BY <2>2, <3>1, PowerAssumption DEF StartProgress
    <3>4. QED
      BY <3>1, <3>2, <3>3 DEF StartProgress
  <2>3. QED
    BY <2>1, <2>2
<1>4. ExitIsFinal'
  BY DEF ExitIsFinal
<1>5. IntentIsFlagged'
  <2> SUFFICES ASSUME monitor = "recv", websocket_sender \in intended', ~stopping'
               PROVE  \E u \in Task : task'[u].pc = "flag" /\ task'[u].target = websocket_sender
    BY DEF IntentIsFlagged, At
  <2>1. CASE websocket_sender \in intended
    BY <2>1 DEF IntentIsFlagged, At
  <2>2. CASE websocket_sender \notin intended
    BY <2>2
  <2>3. QED
    BY <2>1, <2>2
<1>6. RunningIsWatched'
  BY DEF RunningIsWatched
<1>7. NoWedge'
  BY DEF NoWedge
<1>8. QED
  BY <1>1, <1>2, <1>3, <1>4, <1>5, <1>6, <1>7

QuietSteps(t) ==
  \/ Calls(t) \/ Abandon(t)
  \/ RestartCheck(t) \/ StartCheck(t) \/ StartRefused(t) \/ StopCheck(t)
  \/ DrainCheck(t) \/ KillCheck(t) \/ Enter(t) \/ FindFree(t) \/ GiveUp(t)
  \/ Refused(t) \/ Signal(t) \/ SendCommand(t) \/ CommandSent(t)
  \/ FlagStopping(t) \/ MarkRestarting(t)
  \/ WatchEnds(t) \/ WatchExpires(t) \/ KillFails(t)

LEMMA QuietStepsAre ==
  ASSUME TypeOK, NEW t \in Task, QuietSteps(t)
  PROVE  Quiet(t) /\ serial' = serial
<1> USE DEF Quiet, Fresh, Stays, Becomes, lockVars, serverVars, monitorVars,
            dockerVars, At
<1>0. Tasks
  BY DEF TypeOK, Tasks
<1>1. CASE Calls(t)
  <2>1. ASSUME NEW o \in Ops, NEW p \in Patience, Begin(t, o, p)
        PROVE  Quiet(t) /\ serial' = serial
    <3>1. Fresh(t, o) /\ o \notin Starting \cup Asking
      BY <1>0, <2>1, BeginMoves, PowerAssumption DEF AllOps, Starting, Asking
    <3>2. QED
      BY <2>1, <3>1 DEF Begin, Starting, Asking
  <2>2. CASE BeginSpawned(t)
    BY <1>0, <2>2, BeginSpawnedMoves DEF BeginSpawned, Starting, Asking
  <2>3. QED
    BY <1>1, <2>1, <2>2 DEF Calls
<1>2. CASE RestartCheck(t)
  BY <1>2, StepMoves DEF RestartCheck, Starting, Asking
<1>3. CASE StartCheck(t)
  BY <1>3, StepMoves DEF StartCheck, Starting, Asking
<1>4. CASE StartRefused(t)
  BY <1>4, StepMoves DEF StartRefused, Starting, Asking
<1>5. CASE DrainCheck(t)
  BY <1>5, StepMoves DEF DrainCheck, Starting, Asking
<1>6. CASE StopCheck(t)
  BY <1>6, StepMoves DEF StopCheck, Starting, Asking
<1>7. CASE KillCheck(t)
  BY <1>7, StepMoves DEF KillCheck, Starting, Asking
<1>8. CASE Enter(t)
  BY <1>8, StepMoves DEF Enter, Starting, Asking
<1>9. CASE FindFree(t)
  BY <1>9, StepMoves DEF FindFree, Starting, Asking
<1>10. CASE GiveUp(t)
  BY <1>10, StepMoves DEF GiveUp, Starting, Asking
<1>11. CASE Refused(t)
  BY <1>11, StepMoves DEF Refused, Starting, Asking
<1>12. CASE Abandon(t)
  BY <1>12, StepMoves DEF Abandon, Starting, Asking
<1>13. CASE Signal(t) \/ CommandSent(t)
  <2>1. /\ task[t].pc \in Asking /\ intended' = intended \cup {task[t].target}
        /\ UNCHANGED <<state, serverVars, monitorVars, docker, undead, serial>>
    BY <1>13 DEF Signal, CommandSent, Asked, Asking
  <2>2. Stays(t, "flag")
    BY <1>13, StepMoves
  <2>3. QED
    BY <2>1, <2>2 DEF Starting, Asking
<1>14. CASE SendCommand(t)
  BY <1>14, StepMoves DEF SendCommand, Starting, Asking
<1>15. CASE WatchExpires(t)
  BY <1>15, StepMoves DEF WatchExpires, Starting, Asking
<1>16. CASE FlagStopping(t)
  BY <1>16, StepMoves DEF FlagStopping, Starting, Asking
<1>17. CASE MarkRestarting(t)
  BY <1>17, StepMoves DEF MarkRestarting, Starting, Asking
<1>18. CASE WatchEnds(t)
  BY <1>18, StepMoves DEF WatchEnds, Starting, Asking
<1>19. CASE KillFails(t)
  BY <1>19, StepMoves DEF KillFails, Starting, Asking
<1>20. QED
  BY <1>1, <1>2, <1>3, <1>4, <1>5, <1>6, <1>7, <1>8, <1>9, <1>10, <1>11, <1>12, <1>13, <1>14, <1>15, <1>16, <1>17, <1>18, <1>19 DEF QuietSteps

LEMMA ClaimKeeps ==
  ASSUME TypeOK, HasTarget, Consistent, serial, serial', NEW t \in Task, Claim(t)
  PROVE  Consistent'
<1> USE DEF Consistent, lockVars, serverVars, monitorVars, dockerVars
<1>1. /\ \A u \in Task : u # t => task'[u] = task[u]
      /\ task'[t].target = task[t].target
      /\ task'[t].old_state = task[t].old_state
      /\ \/ task[t].wanted = "starting" /\ task'[t].pc = "remove"
         \/ task[t].wanted = "stopping" /\ task'[t].pc = "signal"
      /\ UNCHANGED <<container, stopping, websocket_sender, monitor, update_channel,
                     docker, undead, intended>>
  BY StepMoves DEF Stays, Becomes, Claim
<1>2. Undisturbed(t) /\ task[t].pc = "claim"
  BY DEF Claim, At
<1>3. \A u \in Task : u # t => ~Inside(u)'
  BY <1>1, <1>2 DEF Undisturbed, Inside
<1>4. OneAction'
  BY <1>1, <1>2, <1>3 DEF OneAction, Undisturbed, Inside, Starting, Asking
<1>5. HandleWatched'
  BY <1>1, <1>2, <1>3 DEF HandleWatched, At, Undisturbed, Inside, Starting, Asking
<1>6. (\A u \in Task : StartProgress(u))'
  BY <1>1, <1>3 DEF StartProgress, Inside, Starting, Asking
<1>7. ExitIsFinal'
  BY <1>1 DEF ExitIsFinal
<1>8. IntentIsFlagged'
  BY <1>1, <1>2 DEF IntentIsFlagged, At
<1>9. RunningIsWatched'
  BY <1>1 DEF RunningIsWatched
<1>10. NoWedge'
  <2>1. CASE task[t].wanted = "starting"
    BY <1>1, <2>1 DEF NoWedge, Starting, Asking
  <2>2. CASE task[t].wanted = "stopping"
    <3>1. container \in Container
      BY <1>2, <2>2 DEF HasTarget, Waiting, Undisturbed
    <3>2. QED
      BY <1>1, <3>1, PowerAssumption DEF NoWedge
  <2>3. QED
    BY <1>1, <2>1, <2>2
<1>11. QED
  BY <1>4, <1>5, <1>6, <1>7, <1>8, <1>9, <1>10

\* A step of start's action: t stays in it, or leaves it for good, and nobody
\* else is in an action.
LEMMA StartAlone ==
  ASSUME Consistent, NEW t \in Task, task[t].pc \in Starting
  PROVE  \A u \in Task : u # t => task[u].pc \notin Starting \cup Asking
BY DEF Consistent, OneAction, Inside

LEMMA RemoveKeeps ==
  ASSUME TypeOK, Consistent, serial, NEW t \in Task, Remove(t)
  PROVE  Consistent'
<1> USE DEF Consistent, lockVars, serverVars, monitorVars
<1>1. /\ \A u \in Task : u # t => task'[u] = task[u]
      /\ task'[t].target = task[t].target
      /\ task'[t].old_state = task[t].old_state
      /\ task[t].pc = "remove" /\ task'[t].pc = "drop"
      /\ UNCHANGED <<state, container, stopping, websocket_sender, monitor, update_channel,
                     intended>>
  BY StepMoves DEF Stays, Becomes, Remove, At
<1>2. \A u \in Task : u # t => task[u].pc \notin Starting \cup Asking
  BY <1>1, StartAlone DEF Starting, Asking
<1>3. \/ /\ docker' = [c \in Container |-> "absent"] /\ undead' = {}
      \/ /\ UNCHANGED docker /\ undead' = undead \cup Existing
  BY DEF Remove
<1>4. OneAction'
  BY <1>1, <1>2 DEF OneAction, Inside, Starting, Asking
<1>5. HandleWatched'
  BY <1>1 DEF HandleWatched, At
<1>6. (\A u \in Task : StartProgress(u))'
  <2>1. \A c \in Container : docker'[c] # "absent" => c \in undead'
    BY <1>3 DEF Existing
  <2>2. QED
    BY <1>1, <1>2, <2>1 DEF StartProgress, Starting, Asking
<1>7. ExitIsFinal'
  BY <1>1, <1>3 DEF ExitIsFinal, Exited
<1>8. IntentIsFlagged'
  BY <1>1, <1>3 DEF IntentIsFlagged, At
<1>9. RunningIsWatched'
  BY <1>1, <1>3 DEF RunningIsWatched
<1>10. NoWedge'
  BY <1>1 DEF NoWedge, Starting, Asking
<1>11. QED
  BY <1>4, <1>5, <1>6, <1>7, <1>8, <1>9, <1>10

LEMMA DropKeeps ==
  ASSUME TypeOK, Consistent, serial, NEW t \in Task, Drop(t)
  PROVE  Consistent'
<1> USE DEF Consistent, lockVars, dockerVars
<1>1. /\ \A u \in Task : u # t => task'[u] = task[u]
      /\ task'[t].target = task[t].target
      /\ task'[t].old_state = task[t].old_state
      /\ task[t].pc = "drop" /\ task'[t].pc = "prepare"
      /\ UNCHANGED <<state, stopping, docker, undead, intended>>
      /\ container' = NoContainer /\ websocket_sender' = NoContainer
      /\ monitor' = "off" /\ update_channel' = "none"
  BY StepMoves DEF Stays, Becomes, Drop, At
<1>2. \A u \in Task : u # t => task[u].pc \notin Starting \cup Asking
  BY <1>1, StartAlone DEF Starting, Asking
<1>4. OneAction'
  BY <1>1, <1>2 DEF OneAction, Inside, Starting, Asking
<1>5. HandleWatched'
  BY <1>1 DEF HandleWatched, At
<1>6. (\A u \in Task : StartProgress(u))'
  BY <1>1, <1>2 DEF StartProgress, Starting, Asking
<1>7. ExitIsFinal'
  BY <1>1 DEF ExitIsFinal, Exited
<1>8. IntentIsFlagged'
  BY <1>1 DEF IntentIsFlagged, At
<1>9. RunningIsWatched'
  BY <1>1 DEF RunningIsWatched, StartProgress
<1>10. NoWedge'
  BY <1>1 DEF NoWedge, Starting, Asking
<1>11. QED
  BY <1>4, <1>5, <1>6, <1>7, <1>8, <1>9, <1>10

LEMMA PrepareKeeps ==
  ASSUME TypeOK, Consistent, serial, NEW t \in Task, Prepare(t)
  PROVE  Consistent'
<1> USE DEF Consistent, lockVars, monitorVars, dockerVars
<1>1. /\ \A u \in Task : u # t => task'[u] = task[u]
      /\ task'[t].target = task[t].target
      /\ task'[t].old_state = task[t].old_state
      /\ task[t].pc = "prepare" /\ task'[t].pc = "create"
      /\ UNCHANGED <<state, container, stopping, websocket_sender, monitor,
                     update_channel, docker, undead, intended>>
  <2>1. task[t].pc = "prepare" /\ container = NoContainer
    BY DEF Prepare, At, StartProgress
  <2>2. QED
    BY <2>1, StepMoves DEF Stays, Becomes, Prepare
<1>2. \A u \in Task : u # t => task[u].pc \notin Starting \cup Asking
  BY <1>1, StartAlone DEF Starting, Asking
<1>4. OneAction'
  BY <1>1, <1>2 DEF OneAction, Inside, Starting, Asking
<1>5. HandleWatched'
  BY <1>1 DEF HandleWatched, At
<1>6. (\A u \in Task : StartProgress(u))'
  BY <1>1, <1>2 DEF StartProgress, Starting, Asking
<1>7. ExitIsFinal'
  BY <1>1 DEF ExitIsFinal
<1>8. IntentIsFlagged'
  BY <1>1 DEF IntentIsFlagged, At
<1>9. RunningIsWatched'
  BY <1>1 DEF RunningIsWatched
<1>10. NoWedge'
  BY <1>1 DEF NoWedge, Starting, Asking
<1>11. QED
  BY <1>4, <1>5, <1>6, <1>7, <1>8, <1>9, <1>10

LEMMA CreateKeeps ==
  ASSUME TypeOK, Consistent, serial, NEW t \in Task, Create(t)
  PROVE  Consistent'
<1> USE DEF Consistent, lockVars, serverVars, monitorVars
<1>1. PICK c \in Container \ Referenced :
        /\ docker' = [docker EXCEPT ![c] = "created"]
        /\ intended' = intended \ {c}
        /\ Becomes(t, "adopt", task[t].wanted, task[t].old_state, c)
  BY StepMoves
<1>2. /\ \A u \in Task : u # t => task'[u] = task[u]
      /\ task'[t].target = c
      /\ task'[t].old_state = task[t].old_state
      /\ task[t].pc = "create" /\ task'[t].pc = "adopt"
      /\ UNCHANGED <<state, container, stopping, websocket_sender, monitor,
                     update_channel, undead>>
      /\ intended' = intended \ {c}
      /\ \A d \in Container : docker[d] = "absent"
  BY <1>1 DEF Becomes, Create, At, Existing
<1>3. /\ \A d \in Container : docker'[d] = IF d = c THEN "created" ELSE "absent"
      /\ websocket_sender # c /\ \A u \in Task : task[u].target # c
  <2>1. \A d \in Container : docker'[d] = IF d = c THEN "created" ELSE "absent"
    BY <1>1, <1>2 DEF TypeOK
  <2>2. QED
    BY <1>1, <2>1 DEF Referenced
<1>4. \A u \in Task : u # t => task[u].pc \notin Starting \cup Asking
  BY <1>2, StartAlone DEF Starting, Asking
<1>5. OneAction'
  BY <1>2, <1>4 DEF OneAction, Inside, Starting, Asking
<1>6. HandleWatched'
  BY <1>2 DEF HandleWatched, At
<1>7. (\A u \in Task : StartProgress(u))'
  BY <1>1, <1>2, <1>3, <1>4 DEF StartProgress, Starting, Asking
<1>8. ExitIsFinal'
  BY <1>2, <1>3 DEF ExitIsFinal, Exited
<1>9. IntentIsFlagged'
  BY <1>2, <1>3 DEF IntentIsFlagged, At
<1>10. RunningIsWatched'
  BY <1>2, <1>3 DEF RunningIsWatched
<1>11. NoWedge'
  BY <1>2 DEF NoWedge, Starting, Asking
<1>12. QED
  BY <1>5, <1>6, <1>7, <1>8, <1>9, <1>10, <1>11

LEMMA AdoptKeeps ==
  ASSUME TypeOK, Consistent, serial, NEW t \in Task, Adopt(t)
  PROVE  Consistent'
<1> USE DEF Consistent, lockVars, serverVars, dockerVars
<1>1. /\ \A u \in Task : u # t => task'[u] = task[u]
      /\ task'[t].target = task[t].target
      /\ task'[t].old_state = task[t].old_state
      /\ task[t].pc = "adopt" /\ task'[t].pc = "publish"
      /\ UNCHANGED <<state, container, stopping, docker, undead, intended>>
      /\ websocket_sender' = task[t].target
      /\ monitor' = "recv" /\ update_channel' = "none"
  BY StepMoves DEF Stays, Becomes, Adopt, At
<1>2. /\ task[t].target \in Container
      /\ \A c \in Container : docker[c] = IF c = task[t].target THEN "created"
                                                               ELSE "absent"
      /\ \A u \in Task : u # t => task[u].target # task[t].target
      /\ container = NoContainer
      /\ task[t].target \notin intended
  BY <1>1 DEF StartProgress
<1>3. \A u \in Task : u # t => task[u].pc \notin Starting \cup Asking
  BY <1>1, StartAlone DEF Starting, Asking
<1>4. OneAction'
  BY <1>1, <1>3 DEF OneAction, Inside, Starting, Asking
<1>5. HandleWatched'
  BY <1>1 DEF HandleWatched, At
<1>6. (\A u \in Task : StartProgress(u))'
  BY <1>1, <1>2, <1>3 DEF StartProgress, Starting, Asking
<1>7. ExitIsFinal'
  BY <1>1, <1>2 DEF ExitIsFinal, Exited
<1>8. IntentIsFlagged'
  BY <1>1, <1>2 DEF IntentIsFlagged, At
<1>9. RunningIsWatched'
  BY <1>1, <1>2 DEF RunningIsWatched
<1>10. NoWedge'
  BY <1>1 DEF NoWedge, Starting, Asking
<1>11. QED
  BY <1>4, <1>5, <1>6, <1>7, <1>8, <1>9, <1>10

LEMMA PublishKeeps ==
  ASSUME TypeOK, Consistent, serial, NEW t \in Task, Publish(t)
  PROVE  Consistent'
<1> USE DEF Consistent, lockVars, monitorVars, dockerVars
<1>1. /\ \A u \in Task : u # t => task'[u] = task[u]
      /\ task'[t].target = task[t].target
      /\ task'[t].old_state = task[t].old_state
      /\ task[t].pc = "publish" /\ task'[t].pc = "launch"
      /\ UNCHANGED <<state, stopping, docker, undead, intended, websocket_sender,
                     monitor, update_channel>>
      /\ container' = task[t].target
  BY StepMoves DEF Stays, Becomes, Publish, At
<1>2. /\ task[t].target \in Container
      /\ \A c \in Container : docker[c] = IF c = task[t].target THEN "created"
                                                               ELSE "absent"
      /\ monitor = "recv" /\ websocket_sender = task[t].target
  BY <1>1 DEF StartProgress
<1>3. \A u \in Task : u # t => task[u].pc \notin Starting \cup Asking
  BY <1>1, StartAlone DEF Starting, Asking
<1>4. OneAction'
  BY <1>1, <1>3 DEF OneAction, Inside, Starting, Asking
<1>5. HandleWatched'
  BY <1>1, <1>2 DEF HandleWatched, At
<1>6. (\A u \in Task : StartProgress(u))'
  BY <1>1, <1>2, <1>3 DEF StartProgress, Starting, Asking
<1>7. ExitIsFinal'
  BY <1>1 DEF ExitIsFinal
<1>8. IntentIsFlagged'
  BY <1>1, <1>2 DEF IntentIsFlagged, At
<1>9. RunningIsWatched'
  BY <1>1, <1>2 DEF RunningIsWatched
<1>10. NoWedge'
  BY <1>1, <1>2, PowerAssumption DEF NoWedge
<1>11. QED
  BY <1>4, <1>5, <1>6, <1>7, <1>8, <1>9, <1>10

LEMMA LaunchKeeps ==
  ASSUME TypeOK, Consistent, serial, NEW t \in Task, Launch(t)
  PROVE  Consistent'
<1> USE DEF Consistent, serverVars, monitorVars
<1>0. /\ task[t].pc = "launch"
      /\ container = task[t].target /\ container \in Container
      /\ websocket_sender = container /\ monitor = "recv"
      /\ \A c \in Container : docker[c] = IF c = container THEN "created" ELSE "absent"
  BY DEF Launch, At, StartProgress
<1>1. /\ \A u \in Task : u # t => task'[u] = task[u]
      /\ task'[t].pc = "idle"
      /\ UNCHANGED <<state, stopping, undead, intended, container, websocket_sender,
                     monitor, update_channel>>
      /\ docker' = [docker EXCEPT ![container] = "running"]
  BY <1>0, StepMoves, PowerAssumption DEF Fresh, Becomes, Launch
<1>2. \A c \in Container : docker'[c] = IF c = container THEN "running" ELSE "absent"
  BY <1>0, <1>1 DEF TypeOK
<1>3. \A u \in Task : u # t => task[u].pc \notin Starting \cup Asking
  BY <1>0, StartAlone DEF Starting, Asking
<1>4. OneAction'
  BY <1>1, <1>3 DEF OneAction, Inside, Starting, Asking
<1>5. HandleWatched'
  BY <1>0, <1>1 DEF HandleWatched
<1>6. (\A u \in Task : StartProgress(u))'
  BY <1>1, <1>3 DEF StartProgress, Starting, Asking
<1>7. ExitIsFinal'
  BY <1>0, <1>1, <1>2 DEF ExitIsFinal
<1>8. IntentIsFlagged'
  BY <1>0, <1>1 DEF IntentIsFlagged, At
<1>9. RunningIsWatched'
  BY <1>0, <1>1, <1>2 DEF RunningIsWatched
<1>10. NoWedge'
  BY <1>0, <1>1, PowerAssumption DEF NoWedge
<1>11. QED
  BY <1>4, <1>5, <1>6, <1>7, <1>8, <1>9, <1>10

LEMMA StartFailsKeeps ==
  ASSUME TypeOK, Consistent, serial, NEW t \in Task, StartFails(t)
  PROVE  Consistent'
<1> USE DEF Consistent, serverVars, monitorVars, dockerVars
<1>1. /\ \A u \in Task : u # t => task'[u] = task[u]
      /\ task'[t].pc = "idle"
      /\ task[t].pc \in Starting \ {"publish"}
      /\ UNCHANGED <<stopping, undead, container, websocket_sender, monitor,
                     update_channel, docker, intended>>
      /\ state' = "offline"
  BY StepMoves DEF Fresh, Becomes, StartFails, Starting, Asking, OneAction
<1>3. \A u \in Task : u # t => task[u].pc \notin Starting \cup Asking
  BY <1>1, StartAlone
<1>4. OneAction'
  BY <1>1, <1>3 DEF OneAction, Inside, Starting, Asking
<1>5. HandleWatched'
  BY <1>1 DEF HandleWatched, At
<1>6. (\A u \in Task : StartProgress(u))'
  BY <1>1, <1>3 DEF StartProgress, Starting, Asking
<1>7. ExitIsFinal'
  BY <1>1 DEF ExitIsFinal
<1>8. IntentIsFlagged'
  BY <1>1 DEF IntentIsFlagged, At, Starting
<1>9. RunningIsWatched' /\ NoWedge'
  BY <1>1 DEF RunningIsWatched, NoWedge
<1>10. QED
  BY <1>4, <1>5, <1>6, <1>7, <1>8, <1>9

\* A running container ends; at most a killing task returns.
LEMMA EndKeeps ==
  ASSUME TypeOK, Consistent, serial, NEW c \in Container, NEW how \in Exited,
         docker[c] = "running",
         docker' = [docker EXCEPT ![c] = how],
         \A u \in Task :
           task'[u] = task[u] \/ (task[u].pc = "killing" /\ Fresh(u, "idle")),
         UNCHANGED <<state, container, stopping, websocket_sender, monitor,
                     update_channel, undead, intended>>
  PROVE  Consistent'
<1> USE DEF Consistent
<1>1. \A u \in Task : \/ task'[u] = task[u]
                     \/ /\ task[u].pc = "killing" /\ task'[u].pc = "idle"
                        /\ task'[u].target = NoContainer
  BY DEF Fresh, Becomes
<1>2. docker' = [d \in Container |-> IF d = c THEN how ELSE docker[d]]
  BY DEF TypeOK
<1>3. OneAction'
  BY <1>1 DEF OneAction, Inside, Starting, Asking
<1>4. HandleWatched'
  BY <1>1 DEF HandleWatched, At
<1>5. (\A u \in Task : StartProgress(u))'
  <2> SUFFICES ASSUME NEW u \in Task
               PROVE  StartProgress(u)'
    OBVIOUS
  <2>1. CASE task'[u] # task[u]
    BY <1>1, <2>1 DEF StartProgress
  <2>2. CASE task'[u] = task[u]
    <3>1. task[u].pc \notin {"adopt", "publish", "launch"}
      BY DEF StartProgress
    <3>2. QED
      BY <1>2, <2>2, <3>1 DEF StartProgress, Exited
  <2>3. QED
    BY <2>1, <2>2
<1>6. ExitIsFinal'
  BY <1>2 DEF ExitIsFinal, Exited
<1>7. IntentIsFlagged'
  BY <1>1 DEF IntentIsFlagged, At
<1>8. RunningIsWatched'
  BY <1>2 DEF RunningIsWatched, Exited
<1>9. NoWedge'
  BY <1>1 DEF NoWedge, Starting, Asking
<1>10. QED
  BY <1>3, <1>4, <1>5, <1>6, <1>7, <1>8, <1>9

LEMMA ExitKeeps ==
  ASSUME TypeOK, Consistent, serial, NEW c \in Container, NEW how \in ExitKinds,
         Exit(c, how)
  PROVE  Consistent'
<1>1. how \in Exited
  BY PowerAssumption DEF Exited
<1>2. /\ docker[c] = "running"
      /\ docker' = [docker EXCEPT ![c] = how]
      /\ task' = task
      /\ UNCHANGED <<state, container, stopping, websocket_sender, monitor,
                     update_channel, undead, intended>>
  BY DEF Exit, serverVars, monitorVars, lockVars
<1>3. \A u \in Task : task'[u] = task[u]
  BY <1>2
<1>4. QED
  BY <1>1, <1>2, <1>3, EndKeeps

LEMMA KilledKeeps ==
  ASSUME TypeOK, HasTarget, Consistent, serial, NEW t \in Task, Killed(t)
  PROVE  Consistent'
<1> DEFINE c == task[t].target
<1>1. c \in Container /\ task[t].pc = "killing"
  BY DEF Killed, At, HasTarget
<1>2. Fresh(t, "idle")
  BY StepMoves
<1>3. \A u \in Task :
        task'[u] = task[u] \/ (task[u].pc = "killing" /\ Fresh(u, "idle"))
  <2>1. \A u \in Task : u # t => task'[u] = task[u]
    BY <1>2 DEF Fresh, Becomes
  <2>2. QED
    BY <1>1, <1>2, <2>1, Zenon
<1>4. "crashed" \in Exited
  BY DEF Exited
<1>5. /\ docker[c] = "running"
      /\ docker' = [docker EXCEPT ![c] = "crashed"]
      /\ UNCHANGED <<state, container, stopping, websocket_sender, monitor,
                     update_channel, undead, intended>>
  BY DEF Killed, serverVars, monitorVars, lockVars
<1> HIDE DEF c
<1>6. QED
  BY <1>1, <1>3, <1>4, <1>5, EndKeeps

\* What the sampler, the startup line check and the monitor do.
LEMMA MonitorKeeps ==
  ASSUME TypeOK, Consistent, serial,
         \/ Monitor \/ Sample \/ CrashTimeout
         \/ \E c \in Container : StartupLine(c)
  PROVE  Consistent'
<1> USE DEF Consistent
<1>1. /\ UNCHANGED <<container, websocket_sender, task, docker, undead, intended>>
  BY DEF Monitor, MonitorRunning, MonitorExit, WantedExit, MonitorCrash, MonitorThrottle,
         Sample, CrashTimeout, StartupLine, serverVars, monitorVars, dockerVars
<1>2. OneAction' /\ HandleWatched'
  BY <1>1 DEF OneAction, HandleWatched, Inside, At
<1>3. CASE Sample \/ MonitorRunning \/ CrashTimeout
           \/ \E c \in Container : StartupLine(c)
  <2>1. /\ UNCHANGED <<monitor, stopping>>
        /\ \/ UNCHANGED update_channel
           \/ update_channel' = "none"
           \/ /\ update_channel' = docker[websocket_sender] /\ websocket_sender \in Container
              /\ docker[websocket_sender] \in {"running"} \cup Exited
    BY <1>3 DEF Sample, MonitorRunning, CrashTimeout, StartupLine, serverVars,
                monitorVars, TypeOK, Ref
  <2>2. \/ state # "offline"
        \/ state' = "offline"
        \/ monitor = "recv" /\ update_channel = "running"
    <3> HIDE DEF Consistent
    <3>1. CASE Sample \/ CrashTimeout
      <4>1. state' = state
        BY <3>1 DEF Sample, CrashTimeout, lockVars
      <4>2. QED
        BY <4>1
    <3>2. CASE MonitorRunning
      BY <3>2 DEF MonitorRunning
    <3>3. CASE \E c \in Container : StartupLine(c)
      BY <3>3 DEF StartupLine
    <3>4. QED
      BY <1>3, <3>1, <3>2, <3>3
  <2>3. (\A u \in Task : StartProgress(u))'
    BY <1>1, <2>1 DEF StartProgress
  <2>4. ExitIsFinal'
    <3>1. monitor \notin {"crash", "throttle"} \/ UNCHANGED update_channel
      BY <1>3 DEF Sample, MonitorRunning, CrashTimeout, StartupLine, monitorVars
    <3>2. CASE UNCHANGED update_channel
      BY <1>1, <2>1, <3>2 DEF ExitIsFinal
    <3>3. CASE update_channel' = "none" /\ monitor \notin {"crash", "throttle"}
      BY <1>1, <2>1, <3>3 DEF ExitIsFinal, Exited
    <3>4. CASE update_channel' = docker[websocket_sender] /\ websocket_sender \in Container
               /\ docker[websocket_sender] \in {"running"} \cup Exited
               /\ monitor \notin {"crash", "throttle"}
      BY <1>1, <2>1, <3>4 DEF ExitIsFinal, Exited
    <3>5. QED
      BY <2>1, <3>1, <3>2, <3>3, <3>4
  <2>5. IntentIsFlagged' /\ RunningIsWatched'
    BY <1>1, <2>1 DEF IntentIsFlagged, RunningIsWatched, At
  <2>6. NoWedge'
    <3>1. CASE state # "offline" \/ state' = "offline"
      BY <1>1, <3>1 DEF NoWedge
    <3>2. CASE monitor = "recv" /\ container = NoContainer
      BY <1>1, <3>2, PowerAssumption
         DEF NoWedge, ExitIsFinal, HandleWatched, At, Starting, Asking
    <3>3. QED
      BY <1>1, <2>2, <3>1, <3>2 DEF NoWedge
  <2>7. QED
    BY <1>2, <2>3, <2>4, <2>5, <2>6
<1>4. CASE MonitorExit \/ MonitorCrash \/ MonitorThrottle
  <2>1. /\ monitor \in {"recv", "crash", "throttle"} /\ update_channel \in Exited
        /\ monitor' \in {"off", "crash", "throttle"}
        /\ monitor' # "off" => update_channel' = update_channel
        /\ monitor' = "off" => update_channel' = "none"
        /\ state' \in {state, "offline"}
    BY <1>4 DEF MonitorExit, WantedExit, MonitorCrash, MonitorThrottle, ExitIsFinal, lockVars
  <2>3. docker[websocket_sender] \notin {"running", "created"}
        /\ websocket_sender \in Container
    BY <2>1 DEF ExitIsFinal
  <2>4. (\A u \in Task : StartProgress(u))'
    BY <1>1, <2>1, <2>3 DEF StartProgress
  <2>5. ExitIsFinal'
    BY <1>1, <2>1, <2>3 DEF ExitIsFinal, Exited
  <2>6. IntentIsFlagged'
    BY <2>1 DEF IntentIsFlagged
  <2>7. RunningIsWatched'
    BY <1>1, <2>3 DEF RunningIsWatched
  <2>8. NoWedge'
    BY <1>1, <2>1 DEF NoWedge
  <2>9. QED
    BY <1>2, <2>4, <2>5, <2>6, <2>7, <2>8
<1>5. QED
  BY <1>3, <1>4 DEF Monitor

(***************************************************************************)
(* The invariant.                                                          *)
(***************************************************************************)
LEMMA SerialInit == Init => SerialInv
<1> SUFFICES ASSUME Init
             PROVE  SerialInv
  OBVIOUS
<1>1. \A t \in Task : task[t] = Idle
  BY DEF Init
<1>2. HasTarget /\ OneAction /\ HandleWatched
  BY <1>1, IdleFields DEF Init, HasTarget, OneAction, HandleWatched, Inside, Starting, Asking,
                          Waiting
<1>3. \A t \in Task : StartProgress(t)
  BY <1>1, IdleFields DEF StartProgress
<1>4. ExitIsFinal /\ IntentIsFlagged
  BY DEF Init, ExitIsFinal, IntentIsFlagged, Exited
<1>5. RunningIsWatched /\ NoWedge
  BY DEF Init, RunningIsWatched, NoWedge
<1>6. QED
  BY <1>2, <1>3, <1>4, <1>5 DEF SerialInv, Consistent

\* Every step keeps starts and stops one at a time.
LEMMA SerialStep == TypeOK /\ SerialInv /\ [Next]_vars => SerialInv'
<1> SUFFICES ASSUME TypeOK, HasTarget, serial => Consistent, [Next]_vars, serial'
             PROVE  Consistent'
  BY TargetStep DEF SerialInv
<1>1. ASSUME NEW t \in Task, QuietSteps(t)
      PROVE  Consistent'
  BY <1>1, QuietStepsAre, QuietKeeps
<1>2. ASSUME NEW t \in Task, Claim(t)
      PROVE  Consistent'
  <2>1. serial
    BY <1>2 DEF Claim
  <2>2. QED
    BY <1>2, <2>1, ClaimKeeps
<1>3. ASSUME NEW t \in Task,
             \/ Remove(t) \/ Drop(t) \/ Prepare(t) \/ Create(t) \/ Adopt(t)
             \/ Publish(t) \/ Launch(t) \/ StartFails(t) \/ Killed(t)
      PROVE  Consistent'
  <2>1. serial
    BY <1>3 DEF Remove, Drop, Prepare, Create, Adopt, Publish, Launch, StartFails,
                Killed
  <2>2. QED
    BY <1>3, <2>1, RemoveKeeps, DropKeeps, PrepareKeeps, CreateKeeps, AdoptKeeps,
       PublishKeeps, LaunchKeeps, StartFailsKeeps, KilledKeeps
<1>4. ASSUME NEW c \in Container, NEW how \in ExitKinds, Exit(c, how)
      PROVE  Consistent'
  BY <1>4, ExitKeeps DEF Exit
<1>5. CASE \/ Monitor \/ Sample \/ CrashTimeout
           \/ \E c \in Container : StartupLine(c)
  <2>1. serial
    BY <1>5 DEF Monitor, MonitorRunning, MonitorExit, WantedExit, MonitorCrash, MonitorThrottle,
                Sample, CrashTimeout, StartupLine
  <2>2. QED
    BY <1>5, <2>1, MonitorKeeps
<1>6. CASE UNCHANGED vars
  BY <1>6 DEF vars, Consistent, OneAction, HandleWatched, StartProgress, ExitIsFinal,
              IntentIsFlagged, RunningIsWatched, NoWedge, Inside, At
<1>7. QED
  BY <1>1, <1>2, <1>3, <1>4, <1>5, <1>6 DEF Next, Steps, Prompt, QuietSteps

\* As long as every action found what it had checked for, the server, the daemon,
\* the monitor and the flags agree.
THEOREM SerialConsistent == Spec => []SerialInv
BY TypeCorrect, TypeInit, SerialInit, SerialStep, PTL DEF Spec

\* A process that runs is then the one the server has a handle to and watches.
THEOREM RunningStaysWatched == Spec => []RunningIsWatched
<1>1. SerialInv => RunningIsWatched
  BY DEF SerialInv, Consistent, RunningIsWatched
<1>2. QED
  BY <1>1, SerialConsistent, PTL

\* Then no server without a container refuses both start and stop for good.
THEOREM NeverWedged == Spec => []NoWedge
<1>1. SerialInv => NoWedge
  BY DEF SerialInv, Consistent, NoWedge
<1>2. QED
  BY <1>1, SerialConsistent, PTL

\* When the monitor takes the exit of a process that a stop or a kill has asked to end
\* for a crash, a stop of that container is then still between the end of its action and
\* the store of the stopping flag.  A kill, which sets the flag first, has no such window.
THEOREM IntendedExitIsNoCrash == Spec => IntendedExitNeverCrash
<1>1. SerialInv /\ [Next]_vars =>
        [/\ serial /\ websocket_sender \in intended
         /\ monitor = "recv" /\ monitor' = "crash"
         => \E t \in Task : At(t, "flag") /\ task[t].target = websocket_sender]_vars
  <2> SUFFICES ASSUME SerialInv, [Next]_vars, serial, websocket_sender \in intended,
                      monitor = "recv", monitor' = "crash"
               PROVE  \E t \in Task : At(t, "flag") /\ task[t].target = websocket_sender
    OBVIOUS
  <2>1. ~stopping
    <3>1. ASSUME NEW t \in Task, Calls(t) \/ Steps(t) \/ Abandon(t)
          PROVE  FALSE
      <4>1. CASE Calls(t) \/ Abandon(t)
        BY <4>1 DEF Calls, Begin, BeginSpawned, Abandon, monitorVars
      <4>2. CASE \/ RestartCheck(t) \/ StartCheck(t) \/ StartRefused(t) \/ StopCheck(t)
                 \/ DrainCheck(t) \/ KillCheck(t) \/ Enter(t) \/ FindFree(t) \/ Refused(t)
                 \/ GiveUp(t) \/ Claim(t)
        BY <4>2 DEF RestartCheck, StartCheck, StartRefused, StopCheck, DrainCheck, KillCheck,
                    Enter, FindFree, Refused, GiveUp, Claim, monitorVars
      <4>3. CASE \/ Remove(t) \/ Drop(t) \/ Prepare(t) \/ Create(t) \/ Adopt(t) \/ Publish(t)
                 \/ Launch(t) \/ StartFails(t)
        BY <4>3 DEF Remove, Drop, Prepare, Create, Adopt, Publish, Launch, StartFails, monitorVars
      <4>4. CASE \/ Signal(t) \/ SendCommand(t) \/ CommandSent(t) \/ FlagStopping(t)
                 \/ MarkRestarting(t) \/ WatchEnds(t) \/ WatchExpires(t) \/ Killed(t)
                 \/ KillFails(t)
        BY <4>4 DEF Signal, SendCommand, CommandSent, Asked, FlagStopping, MarkRestarting,
                    WatchEnds, WatchExpires, Killed, KillFails, monitorVars
      <4>5. QED
        BY <3>1, <4>1, <4>2, <4>3, <4>4 DEF Steps, Prompt
    <3>2. CASE MonitorExit
      BY <3>2 DEF MonitorExit, WantedExit
    <3>3. QED
      BY <3>1, <3>2 DEF Next, Exit, StartupLine, Sample, Monitor, MonitorRunning, MonitorCrash,
                        MonitorThrottle, CrashTimeout, monitorVars, vars
  <2>2. QED
    BY <2>1 DEF SerialInv, Consistent, IntentIsFlagged
<1>2. QED
  BY <1>1, SerialConsistent, PTL DEF Spec, IntendedExitNeverCrash

(***************************************************************************)
(* Power implements the state lock.                                        *)
(***************************************************************************)

\* Where a call is in execute_action, or was dropped in it.
Locking == {"wait", "claim", "lost"} \cup Starting \cup Asking

\* What the lock knows of a call, by its record.
Shown(pc, wanted, old_state, patient) ==
  IF pc \in Locking \ {"lost"}
  THEN [phase |-> IF pc \in {"wait", "claim"} THEN pc ELSE "inside",
        wanted |-> wanted, old_state |-> old_state, patient |-> patient]
  ELSE [phase |-> IF pc = "lost" THEN "lost" ELSE "out",
        wanted |-> "starting", old_state |-> "offline", patient |-> FALSE]

Seen(r) == Shown(r.pc, r.wanted, r.old_state, r.patient)

calls == [t \in Task |-> LockCall(t)]

LEMMA LockCallSeen ==
  \A t \in Task : LockCall(t) = Seen(task[t]) /\ LockCall(t)' = Seen(task'[t])
BY DEF LockCall, LockPhase, Inside, Seen, Shown, Starting, Asking, Locking

\* A step that changes the record of one task changes what the lock knows of it.
LEMMA CallsStep ==
  ASSUME NEW t \in Task, \A u \in Task : u # t => task'[u] = task[u]
  PROVE  /\ calls[t] = Seen(task[t])
         /\ calls' = [calls EXCEPT ![t] = Seen(task'[t])]
<1>1. LockCall(t)' = Seen(task'[t]) /\ \A u \in Task : u # t => LockCall(u)' = LockCall(u)
  BY LockCallSeen
<1>2. calls' = [u \in Task |-> LockCall(u)']
  BY DEF calls
<1>3. QED
  BY <1>1, <1>2, LockCallSeen DEF calls

\* Outside of execute_action the lock knows nothing of a call.
LEMMA OutsideSeen ==
  ASSUME NEW t \in Task, \A u \in Task : u # t => task'[u] = task[u]
  PROVE  /\ task[t].pc \notin Locking => calls[t] = Lock!Out
         /\ task'[t].pc \notin Locking => calls' = [calls EXCEPT ![t] = Lock!Out]
         /\ task[t].pc \notin Locking /\ task'[t].pc \notin Locking => calls' = calls
<1>1. /\ task[t].pc \notin Locking => Seen(task[t]) = Lock!Out
      /\ task'[t].pc \notin Locking => Seen(task'[t]) = Lock!Out
  BY DEF Seen, Shown, Locking, Lock!Out
<1>2. /\ task[t].pc \notin Locking => calls[t] = Lock!Out
      /\ task'[t].pc \notin Locking => calls' = [calls EXCEPT ![t] = Lock!Out]
  BY <1>1, CallsStep
<1>3. [calls EXCEPT ![t] = calls[t]] = calls
  BY DEF calls
<1>4. QED
  BY <1>2, <1>3

\* Inside it the lock knows its fields.
LEMMA InsideSeen ==
  ASSUME Tasks, NEW t \in Task, NEW pc \in Locking \ {"lost"}, NEW s, NEW c,
         Becomes(t, pc, task[t].wanted, s, c), task'[t].patient = task[t].patient
  PROVE  calls' = [calls EXCEPT ![t] =
           [phase |-> IF pc \in {"wait", "claim"} THEN pc ELSE "inside",
            wanted |-> task[t].wanted, old_state |-> s, patient |-> task[t].patient]]
<1>1. Seen(task'[t]) = [phase |-> IF pc \in {"wait", "claim"} THEN pc ELSE "inside",
                        wanted |-> task[t].wanted, old_state |-> s, patient |-> task[t].patient]
  BY DEF Becomes, Seen, Shown
<1>2. QED
  BY <1>1, CallsStep DEF Becomes

\* A step of a call in execute_action, by the fields of the lock.
LEMMA PhaseOf ==
  ASSUME NEW t \in Task
  PROVE  /\ calls[t].phase = IF task[t].pc \in Starting \cup Asking THEN "inside"
                             ELSE IF task[t].pc \in Locking THEN task[t].pc ELSE "out"
         /\ task[t].pc \in Locking \ {"lost"} =>
              calls[t] = [phase |-> calls[t].phase, wanted |-> task[t].wanted,
                          old_state |-> task[t].old_state, patient |-> task[t].patient]
  BY LockCallSeen DEF calls, Seen, Shown, Locking, Starting, Asking

\* Whether a call has an acquire timeout never changes on its way through execute_action.
LEMMA PatienceStays ==
  ASSUME Tasks, NEW t \in Task,
         \/ Enter(t) \/ FindFree(t) \/ GiveUp(t) \/ Claim(t) \/ Remove(t) \/ Drop(t)
         \/ Prepare(t) \/ Create(t) \/ Adopt(t) \/ Publish(t) \/ SendCommand(t)
  PROVE  task'[t].patient = task[t].patient
<1>1. ASSUME NEW pc, Goto(t, pc)
      PROVE  task'[t].patient = task[t].patient
  BY <1>1 DEF Goto, Tasks, TaskRecord
<1>2. ASSUME NEW pc, NEW c, Aim(t, pc, c)
      PROVE  task'[t].patient = task[t].patient
  BY <1>2 DEF Aim, Tasks, TaskRecord
<1>3. ASSUME NEW s, Await(t, s)
      PROVE  task'[t].patient = task[t].patient
  BY <1>3 DEF Await, Tasks, TaskRecord
<1>4. QED
  BY <1>1, <1>2, <1>3
     DEF Enter, FindFree, GiveUp, Claim, Remove, Drop, Prepare, Create, Adopt, Publish,
         SendCommand

\* Before and after execute_action: no step of the lock, or the reset of a failed kill.
LEMMA OutsideSteps ==
  ASSUME TypeOK, NEW t \in Task,
         \/ Calls(t)
         \/ RestartCheck(t) \/ StartCheck(t) \/ StartRefused(t) \/ StopCheck(t)
         \/ DrainCheck(t) \/ KillCheck(t) \/ FlagStopping(t) \/ MarkRestarting(t)
         \/ WatchEnds(t) \/ WatchExpires(t) \/ Killed(t) \/ KillFails(t)
  PROVE  /\ calls' = calls /\ locked' = locked
         /\ state' = state \/ state' = "offline"
<1>1. Tasks /\ "start" \notin Locking
  BY DEF TypeOK, Tasks, Locking, Starting, Asking
<1>2. task[t].pc \notin Locking
  BY DEF Calls, Begin, BeginSpawned, RestartCheck, StartCheck, StartRefused, StopCheck,
         DrainCheck, KillCheck, FlagStopping, MarkRestarting, WatchEnds, WatchExpires, Killed,
         KillFails, At, Locking, Starting, Asking
<1>3. /\ \A u \in Task : u # t => task'[u] = task[u]
      /\ task'[t].pc \notin Locking
  <2>1. CASE Calls(t)
    <3>1. PICK pc \in AllOps : Fresh(t, pc)
      BY <1>1, <2>1, BeginMoves, BeginSpawnedMoves, PowerAssumption DEF Calls, AllOps
    <3>2. pc \notin Locking
      BY <3>1 DEF AllOps, Locking, Starting, Asking
    <3>3. QED
      BY <3>1, <3>2 DEF Fresh, Becomes
  <2>2. CASE ~Calls(t)
    <3>1. \E pc \in {"idle", "start", "stop", "enter", "watch", "mark", "killing", "kill"} :
            \E w, s, c : Becomes(t, pc, w, s, c)
      BY <2>2, StepMoves DEF Fresh, Stays
    <3>2. QED
      BY <3>1 DEF Becomes, Locking, Starting, Asking
  <2>3. QED
    BY <2>1, <2>2
<1>4. calls' = calls
  BY <1>2, <1>3, OutsideSeen
<1>5. locked' = locked /\ (state' = state \/ state' = "offline")
  BY DEF Calls, Begin, BeginSpawned, RestartCheck, StartCheck, StartRefused, StopCheck,
         DrainCheck, KillCheck, FlagStopping, MarkRestarting, WatchEnds, WatchExpires, Killed,
         KillFails, lockVars
<1>6. QED
  BY <1>4, <1>5

\* The action of a start up to its end, and a stop that waits to send its command: the lock
\* sees none of it.
LEMMA StartingSteps ==
  ASSUME TypeOK, NEW t \in Task,
         \/ Remove(t) \/ Drop(t) \/ Prepare(t) \/ Create(t) \/ Adopt(t) \/ Publish(t)
         \/ SendCommand(t)
  PROVE  calls' = calls /\ UNCHANGED lockVars
<1>1. Tasks /\ task[t].pc \in Starting \cup Asking
  BY DEF TypeOK, Tasks, Remove, Drop, Prepare, Create, Adopt, Publish, SendCommand, At, Starting, Asking
<1>2. PICK pc \in Starting \cup Asking : \E c : Becomes(t, pc, task[t].wanted, task[t].old_state, c)
  BY StepMoves DEF Stays, Starting, Asking
<1>3. calls' = [calls EXCEPT ![t] = [phase |-> "inside", wanted |-> task[t].wanted,
                  old_state |-> task[t].old_state, patient |-> task[t].patient]]
  BY <1>1, <1>2, PatienceStays, InsideSeen DEF Locking, Starting, Asking
<1>4. calls[t] = [phase |-> "inside", wanted |-> task[t].wanted,
                  old_state |-> task[t].old_state, patient |-> task[t].patient]
  <2>1. task[t].pc \in Locking \ {"lost"}
    BY <1>1 DEF Locking, Starting, Asking
  <2>2. calls[t].phase = "inside"
    BY <1>1, PhaseOf
  <2>3. QED
    BY <2>1, <2>2, PhaseOf
<1>5. [calls EXCEPT ![t] = calls[t]] = calls
  BY DEF calls
<1>6. QED
  BY <1>3, <1>4, <1>5 DEF Remove, Drop, Prepare, Create, Adopt, Publish, SendCommand

\* Each step in execute_action is the step of the lock with the same name, and the end of
\* an action is one that succeeds or fails.
LEMMA LockSteps ==
  ASSUME TypeOK, NEW t \in Task
  PROVE  /\ Enter(t) => Lock!Enter(t, task[t].wanted, task[t].patient)
         /\ FindFree(t) => Lock!FindFree(t)
         /\ Refused(t) => Lock!Refuse(t)
         /\ GiveUp(t) => Lock!GiveUp(t)
         /\ Claim(t) => Lock!Claim(t)
         /\ Signal(t) \/ CommandSent(t) \/ Launch(t) => Lock!Succeed(t)
         /\ StartFails(t) => Lock!Fail(t)
<1>1. Tasks /\ task[t] \in TaskRecord
  BY DEF TypeOK, Tasks
<1> DEFINE w == task[t].wanted
           s == task[t].old_state
           p == task[t].patient
           In(phase, old_state) == [phase |-> phase, wanted |-> w, old_state |-> old_state,
                                    patient |-> p]
<1>2. ASSUME Enter(t)
      PROVE  Lock!Enter(t, w, p)
  <2>1. calls[t].phase = "out"
    BY <1>2, PhaseOf DEF Enter, At, Locking, Starting, Asking
  <2>2. Becomes(t, "wait", w, state, task[t].target) /\ task'[t].patient = p
    BY <1>1, <1>2, StepMoves, PatienceStays
  <2>3. calls' = [calls EXCEPT ![t] = In("wait", state)]
    BY <1>1, <2>2, InsideSeen DEF Locking
  <2>4. QED
    BY <1>2, <2>1, <2>3 DEF Enter, lockVars, calls, Lock!Enter
<1>3. ASSUME FindFree(t) \/ GiveUp(t)
      PROVE  /\ calls[t] = In("wait", s)
             /\ calls' = [calls EXCEPT ![t].phase = "claim"]
  <2>1. task[t].pc = "wait"
    BY <1>3 DEF FindFree, GiveUp, At
  <2>2. calls[t] = In("wait", s)
    BY <2>1, PhaseOf DEF Locking, Starting, Asking
  <2>3. Stays(t, "claim") /\ task'[t].patient = p
    BY <1>1, <1>3, StepMoves, PatienceStays
  <2>4. calls' = [calls EXCEPT ![t] = In("claim", s)]
    BY <1>1, <2>3, InsideSeen DEF Stays, Locking
  <2>5. [calls[t] EXCEPT !.phase = "claim"] = In("claim", s)
    BY <2>2
  <2>6. calls' = [calls EXCEPT ![t].phase = "claim"]
    BY <2>4, <2>5
  <2>7. QED
    BY <2>2, <2>6
<1>4. FindFree(t) => Lock!FindFree(t)
  BY <1>3 DEF FindFree, lockVars, calls, Lock!FindFree
<1>5. GiveUp(t) => Lock!GiveUp(t)
  BY <1>3 DEF GiveUp, lockVars, calls, Lock!GiveUp
<1>6. ASSUME Refused(t)
      PROVE  Lock!Refuse(t)
  <2>1. task[t].pc = "wait" /\ ~p /\ locked /\ UNCHANGED lockVars
    BY <1>6 DEF Refused, At
  <2>2. calls[t] = In("wait", s)
    BY <2>1, PhaseOf DEF Locking, Starting, Asking
  <2>3. Fresh(t, "idle") \/ Stays(t, "watch")
    BY <1>6, StepMoves
  <2>4. calls' = [calls EXCEPT ![t] = Lock!Out]
    BY <2>3, OutsideSeen DEF Fresh, Stays, Becomes, Locking, Starting, Asking
  <2>5. QED
    BY <2>1, <2>2, <2>4 DEF lockVars, calls, Lock!Refuse
<1>7. ASSUME Claim(t)
      PROVE  Lock!Claim(t)
  <2>1. task[t].pc = "claim" /\ locked' = TRUE /\ state' = w
    BY <1>7 DEF Claim, At
  <2>2. calls[t] = In("claim", s)
    BY <2>1, PhaseOf DEF Locking, Starting, Asking
  <2>3. (Stays(t, "remove") \/ Stays(t, "signal")) /\ task'[t].patient = p
    BY <1>1, <1>7, StepMoves, PatienceStays
  <2>4. calls' = [calls EXCEPT ![t] = In("inside", s)]
    BY <1>1, <2>3, InsideSeen DEF Stays, Locking, Starting, Asking
  <2>5. [calls[t] EXCEPT !.phase = "inside"] = In("inside", s)
    BY <2>2
  <2>6. calls' = [calls EXCEPT ![t].phase = "inside"]
    BY <2>4, <2>5
  <2>7. calls[t].phase = "claim" /\ calls[t].wanted = w
    BY <2>2
  <2>8. QED
    BY <2>1, <2>6, <2>7 DEF calls, Lock!Claim
<1>8. ASSUME Signal(t) \/ CommandSent(t) \/ Launch(t) \/ StartFails(t)
      PROVE  /\ calls[t].phase = "inside" /\ calls[t].old_state = s
             /\ calls' = [calls EXCEPT ![t] = Lock!Out]
             /\ locked' = FALSE
  <2>1. task[t].pc \in Starting \cup Asking /\ locked' = FALSE
    BY <1>8 DEF Signal, CommandSent, Asked, Launch, StartFails, At, Starting, Asking
  <2>2. calls[t] = In("inside", s)
    <3>1. task[t].pc \in Locking \ {"lost"}
      BY <2>1 DEF Locking, Starting, Asking
    <3>2. calls[t].phase = "inside"
      BY <2>1, PhaseOf
    <3>3. QED
      BY <3>1, <3>2, PhaseOf
  <2>3. Fresh(t, "idle") \/ Stays(t, "flag")
    BY <1>8, StepMoves
  <2>4. calls' = [calls EXCEPT ![t] = Lock!Out]
    BY <2>3, OutsideSeen DEF Fresh, Stays, Becomes, Locking, Starting, Asking
  <2>5. QED
    BY <2>1, <2>2, <2>4
<1>9. Signal(t) \/ CommandSent(t) \/ Launch(t) => Lock!Succeed(t)
  BY <1>8 DEF Signal, CommandSent, Asked, Launch, calls, Lock!Succeed, Lock!Inside
<1>10. StartFails(t) => Lock!Fail(t)
  BY <1>8 DEF StartFails, calls, Lock!Fail, Lock!Inside
<1>11. QED
  BY <1>2, <1>4, <1>5, <1>6, <1>7, <1>9, <1>10

\* A call that is dropped leaves the lock as it is; one that has left it already concerns
\* it no more.
LEMMA AbandonStep ==
  ASSUME TypeOK, NEW t \in Task, Abandon(t)
  PROVE  Lock!Abandon(t) \/ (calls' = calls /\ UNCHANGED lockVars)
<1>1. Tasks /\ task[t] \in TaskRecord /\ UNCHANGED lockVars
  BY DEF TypeOK, Tasks, Abandon
<1>2. /\ task'[t] = IF Inside(t) THEN Dropped ELSE Idle
      /\ \A u \in Task : u # t => task'[u] = task[u]
  BY <1>1 DEF Abandon, Tasks
<1>3. CASE task[t].pc \in {"watch", "killing"}
  <2>1. task[t].pc \notin Locking /\ task'[t].pc \notin Locking
    BY <1>2, <1>3, IdleFields DEF Inside, Locking, Starting, Asking
  <2>2. QED
    BY <1>1, <1>2, <2>1, OutsideSeen
<1>4. CASE task[t].pc = "wait"
  <2>1. task'[t].pc \notin Locking
    BY <1>2, <1>4, IdleFields DEF Inside, Locking, Starting, Asking
  <2>2. calls' = [calls EXCEPT ![t] = Lock!Out] /\ calls[t].phase = "wait"
    BY <1>2, <1>4, <2>1, OutsideSeen, PhaseOf DEF Locking, Starting, Asking
  <2>3. QED
    BY <1>1, <2>2 DEF lockVars, calls, Lock!Abandon, Lock!Inside
<1>5. CASE task[t].pc \in Asking
  <2>1. task'[t] = Dropped
    BY <1>2, <1>5 DEF Inside
  <2>2. Seen(task'[t]) = [Lock!Out EXCEPT !.phase = "lost"]
    <3>1. Seen(task'[t]) = Shown("lost", "starting", "offline", Dropped.patient)
      BY <2>1, DroppedFields DEF Seen
    <3>2. Shown("lost", "starting", "offline", Dropped.patient)
            = [phase |-> "lost", wanted |-> "starting", old_state |-> "offline",
               patient |-> FALSE]
      BY DEF Shown
    <3>3. [Lock!Out EXCEPT !.phase = "lost"]
            = [phase |-> "lost", wanted |-> "starting", old_state |-> "offline",
               patient |-> FALSE]
      <4>1. PICK p : p = FALSE
        OBVIOUS
      <4>2. Lock!Out = [phase |-> "out", wanted |-> "starting", old_state |-> "offline",
                        patient |-> p]
        BY <4>1 DEF Lock!Out
      <4>3. [Lock!Out EXCEPT !.phase = "lost"]
              = [phase |-> "lost", wanted |-> "starting", old_state |-> "offline",
                 patient |-> p]
        BY <4>2
      <4>4. QED
        BY <4>1, <4>3
    <3>4. QED
      BY <3>1, <3>2, <3>3
  <2>3. calls' = [calls EXCEPT ![t] = [Lock!Out EXCEPT !.phase = "lost"]]
    BY <1>2, <2>2, CallsStep
  <2>4. calls[t].phase = "inside"
    BY <1>5, PhaseOf
  <2>5. QED
    BY <1>1, <2>3, <2>4 DEF lockVars, calls, Lock!Abandon, Lock!Inside
<1>6. QED
  BY <1>3, <1>4, <1>5 DEF Abandon

\* The lock starts where its specification starts.
LEMMA LockInit == Init => Lock!Init
<1>1. ASSUME Init, NEW t \in Task
      PROVE  LockCall(t) = Lock!Out
  <2>1. task[t].pc = "idle"
    BY <1>1, IdleFields DEF Init
  <2>2. QED
    BY <2>1, LockCallSeen DEF Seen, Shown, Locking, Starting, Asking, Lock!Out
<1>2. QED
  BY <1>1 DEF Init, Lock!Init

\* Every step of the server is a step of the lock or leaves it alone.
LEMMA LockStep == TypeOK /\ [Next]_vars => [Lock!Next]_(Lock!vars)
<1> SUFFICES ASSUME TypeOK, [Next]_vars
             PROVE  [Lock!Next]_(Lock!vars)
  OBVIOUS
<1>1. ASSUME calls' = calls, UNCHANGED lockVars
      PROVE  UNCHANGED Lock!vars
  BY <1>1 DEF calls, lockVars, Lock!vars
<1>2. ASSUME calls' = calls, locked' = locked, state' \in {"offline", "running"}
      PROVE  Lock!Next
  BY <1>2 DEF calls, Lock!Next, Lock!SetState
<1>3. ASSUME NEW t \in Task, Calls(t) \/ Steps(t)
      PROVE  [Lock!Next]_(Lock!vars)
  <2>1. task[t].wanted \in Lock!Wanted /\ task[t].patient \in BOOLEAN
    BY DEF TypeOK, TaskRecord, Lock!Wanted
  <2>2. CASE \/ Enter(t) \/ FindFree(t) \/ Refused(t) \/ GiveUp(t) \/ Claim(t) \/ Signal(t)
             \/ CommandSent(t) \/ Launch(t) \/ StartFails(t)
    BY <2>1, <2>2, LockSteps DEF Lock!Next, Lock!Acquire
  <2>3. CASE Remove(t) \/ Drop(t) \/ Prepare(t) \/ Create(t) \/ Adopt(t) \/ Publish(t)
             \/ SendCommand(t)
    BY <1>1, <2>3, StartingSteps
  <2>4. CASE \/ Calls(t)
             \/ RestartCheck(t) \/ StartCheck(t) \/ StartRefused(t) \/ StopCheck(t)
             \/ DrainCheck(t) \/ KillCheck(t) \/ FlagStopping(t) \/ MarkRestarting(t)
             \/ WatchEnds(t) \/ WatchExpires(t) \/ Killed(t) \/ KillFails(t)
    <3>1. calls' = calls /\ locked' = locked /\ (state' = state \/ state' = "offline")
      BY <2>4, OutsideSteps
    <3>2. QED
      BY <1>1, <1>2, <3>1 DEF lockVars
  <2>5. QED
    BY <1>3, <2>2, <2>3, <2>4 DEF Steps, Prompt
<1>4. ASSUME NEW t \in Task, Abandon(t)
      PROVE  [Lock!Next]_(Lock!vars)
  BY <1>1, <1>4, AbandonStep DEF Lock!Next
<1>5. ASSUME task' = task
      PROVE  calls' = calls
  <2>1. \A t \in Task : LockCall(t)' = LockCall(t)
    BY <1>5, LockCallSeen
  <2>2. QED
    BY <2>1 DEF calls
<1>6. ASSUME \/ \E c \in Container, how \in ExitKinds : Exit(c, how)
             \/ Sample \/ CrashTimeout \/ MonitorCrash \/ MonitorThrottle
             \/ UNCHANGED vars
      PROVE  [Lock!Next]_(Lock!vars)
  BY <1>1, <1>5, <1>6
     DEF Exit, Sample, CrashTimeout, MonitorCrash, MonitorThrottle, vars, lockVars
<1>7. ASSUME (\E c \in Container : StartupLine(c)) \/ MonitorRunning \/ MonitorExit
      PROVE  [Lock!Next]_(Lock!vars)
  <2>1. /\ task' = task /\ locked' = locked
        /\ state' = state \/ state' \in {"offline", "running"}
    BY <1>7 DEF StartupLine, MonitorRunning, MonitorExit
  <2>2. QED
    BY <1>1, <1>2, <1>5, <2>1 DEF lockVars
<1>8. QED
  BY <1>3, <1>4, <1>6, <1>7 DEF Next, Monitor

\* Whatever power calls run, are dropped or fail, and whatever the monitor and the startup
\* line write into the state, the lock of the server behaves as StateLock specifies.
THEOREM LockIsImplemented == Spec => ImplementsLock
<1>1. Spec => []TypeOK
  BY TypeCorrect, PTL
<1>2. QED
  BY <1>1, LockInit, LockStep, PTL DEF Spec, ImplementsLock, Lock!Spec

(***************************************************************************)
(* So what is proved of the lock holds of the server.                      *)
(***************************************************************************)
LockProofs == INSTANCE StateLockProofs WITH Caller <- Task,
                                            call <- [t \in Task |-> LockCall(t)]

\* The lock of Power and that of StateLockProofs are one.
LEMMA OneLock == Lock!Spec => LockProofs!Spec
<1>1. Lock!Init => LockProofs!Init
  BY DEF Lock!Init, LockProofs!Init, Lock!Out, LockProofs!Out
<1>2. [Lock!Next]_(Lock!vars) => [LockProofs!Next]_(LockProofs!vars)
  BY DEF Lock!Next, Lock!vars, Lock!Enter, Lock!Acquire, Lock!FindFree, Lock!Refuse, Lock!GiveUp,
         Lock!Claim, Lock!Succeed, Lock!Fail, Lock!Abandon, Lock!SetState, Lock!Inside, Lock!Out,
         Lock!Wanted, LockProofs!Next, LockProofs!vars, LockProofs!Enter, LockProofs!Acquire,
         LockProofs!FindFree, LockProofs!Refuse, LockProofs!GiveUp, LockProofs!Claim,
         LockProofs!Succeed, LockProofs!Fail, LockProofs!Abandon, LockProofs!SetState,
         LockProofs!Inside, LockProofs!Out, LockProofs!Wanted
<1>3. QED
  BY <1>1, <1>2, PTL DEF Lock!Spec, LockProofs!Spec

\* A lock flag that is set has a power call behind it that runs its action, or was dropped
\* in it.
THEOREM FlagHasHolder == Spec => []Lock!LockHasHolder
<1>1. LockProofs!Spec => []LockProofs!LockHasHolder
  BY LockProofs!LockIsHeld
<1>2. LockProofs!LockHasHolder => Lock!LockHasHolder
  BY DEF Lock!LockHasHolder, LockProofs!LockHasHolder
<1>3. QED
  BY <1>1, <1>2, OneLock, LockIsImplemented, PTL DEF ImplementsLock

\* A power call that is the only one to run its action keeps the flag until it ends.
THEOREM SoleActionKeepsFlag == Spec => Lock!SoleHolderKeepsLock
<1>1. LockProofs!Spec => LockProofs!SoleHolderKeepsLock
  BY LockProofs!SoleHolderIsSafe
<1>2. LockProofs!SoleHolderKeepsLock => Lock!SoleHolderKeepsLock
  <2>1. [\A c \in Task :
           /\ locked /\ LockProofs!Inside(c) /\ LockProofs!Inside(c)'
           /\ \A d \in Task \ {c} : ~LockProofs!Inside(d)
           => locked']_(LockProofs!vars)
        => [\A c \in Task :
           /\ locked /\ Lock!Inside(c) /\ Lock!Inside(c)'
           /\ \A d \in Task \ {c} : ~Lock!Inside(d)
           => locked']_(Lock!vars)
    BY DEF Lock!Inside, LockProofs!Inside, Lock!vars, LockProofs!vars
  <2>2. QED
    BY <2>1, PTL DEF Lock!SoleHolderKeepsLock, LockProofs!SoleHolderKeepsLock
<1>3. QED
  BY <1>1, <1>2, OneLock, LockIsImplemented, PTL DEF ImplementsLock
=============================================================================
