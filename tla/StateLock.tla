----------------------------- MODULE StateLock -----------------------------
(***************************************************************************)
(* ServerStateLock (server/state.rs): the power state of one server and    *)
(* the lock flag that execute_action uses to run one power action at a     *)
(* time.  The state and the flag are two separate atomics, the flag is     *)
(* loaded in one place and stored in another, and nothing releases it when *)
(* the future that took it is dropped.                                     *)
(*                                                                         *)
(* A caller is one call of execute_action.  What its action does is left   *)
(* to the modules that use the lock (Power); here an action succeeds,      *)
(* fails, never returns, or is dropped.                                    *)
(***************************************************************************)
EXTENDS Naturals, FiniteSets

CONSTANT Caller     \* concurrent calls of execute_action

State  == {"offline", "starting", "stopping", "running"}
Wanted == {"starting", "stopping"}      \* what start and stop ask for
Phase  == {"out", "wait", "claim", "inside", "lost"}

VARIABLES
  state,      \* the AtomicU8
  locked,     \* the AtomicBool
  call        \* per caller: how far its execute_action has come

vars == <<state, locked, call>>

Call == [phase : Phase, wanted : Wanted, old_state : State, patient : BOOLEAN]

\* A caller that is not in execute_action.
Out == [phase |-> "out", wanted |-> "starting", old_state |-> "offline",
        patient |-> FALSE]

TypeOK ==
  /\ state \in State
  /\ locked \in BOOLEAN
  /\ call \in [Caller -> Call]

Init ==
  /\ state = "offline"
  /\ locked = FALSE
  /\ call = [c \in Caller |-> Out]

Inside(c) == call[c].phase = "inside"

(***************************************************************************)
(* execute_action                                                          *)
(***************************************************************************)

\* The call begins: the state to restore on failure is read now, before any
\* waiting.  A patient caller has an acquire timeout.
Enter(c, s, p) ==
  /\ call[c].phase = "out"
  /\ call' = [call EXCEPT ![c] = [phase |-> "wait", wanted |-> s,
                                  old_state |-> state, patient |-> p]]
  /\ UNCHANGED <<state, locked>>

\* The flag is loaded and found clear.  Storing it is a later step.
FindFree(c) ==
  /\ call[c].phase = "wait"
  /\ ~locked
  /\ call' = [call EXCEPT ![c].phase = "claim"]
  /\ UNCHANGED <<state, locked>>

\* Without a timeout, a set flag means "another power action is currently
\* being processed": the call returns false.
Refuse(c) ==
  /\ call[c].phase = "wait"
  /\ ~call[c].patient
  /\ locked
  /\ call' = [call EXCEPT ![c] = Out]
  /\ UNCHANGED <<state, locked>>

\* Mutant of GiveUp: the timeout is looked at only when the flag is clear.
GiveUpFree(c) ==
  /\ call[c].phase = "wait"
  /\ call[c].patient
  /\ ~locked
  /\ call' = [call EXCEPT ![c].phase = "claim"]
  /\ UNCHANGED <<state, locked>>

\* With a timeout, the poll loop ends when the time has elapsed and the call
\* goes on as if it had the lock (the action is told so and ignores it).
GiveUp(c) ==
  /\ call[c].phase = "wait"
  /\ call[c].patient
  /\ call' = [call EXCEPT ![c].phase = "claim"]
  /\ UNCHANGED <<state, locked>>

\* The flag is stored, the state is set, and the action starts.
Claim(c) ==
  /\ call[c].phase = "claim"
  /\ locked' = TRUE
  /\ state' = call[c].wanted
  /\ call' = [call EXCEPT ![c].phase = "inside"]

\* The action returned Ok: only the flag is cleared.
Succeed(c) ==
  /\ Inside(c)
  /\ locked' = FALSE
  /\ call' = [call EXCEPT ![c] = Out]
  /\ UNCHANGED state

\* Mutants of Fail: a failure is shown as a state of its own; the early
\* return of the error path skips the unlock.
FailShown(c) ==
  /\ Inside(c)
  /\ locked' = FALSE
  /\ state' = "failed"
  /\ call' = [call EXCEPT ![c] = Out]

FailLocked(c) ==
  /\ Inside(c)
  /\ state' = call[c].old_state
  /\ call' = [call EXCEPT ![c] = Out]
  /\ UNCHANGED locked

\* The action returned Err: the remembered state is restored.
Fail(c) ==
  /\ Inside(c)
  /\ locked' = FALSE
  /\ state' = call[c].old_state
  /\ call' = [call EXCEPT ![c] = Out]

\* Mutant of Abandon: a guard made before the flag is taken clears it on drop.
AbandonUnlocks(c) ==
  /\ call[c].phase \in {"wait", "inside"}
  /\ locked' = FALSE
  /\ call' = [call EXCEPT ![c] = Out]
  /\ UNCHANGED state

\* The future is dropped while it waits or while its action is suspended: a
\* closed connection drops a request handler, an aborted transfer its task.
\* No guard clears the flag.
Abandon(c) ==
  /\ call[c].phase \in {"wait", "inside"}
  /\ call' = [call EXCEPT ![c] = IF Inside(c) THEN [Out EXCEPT !.phase = "lost"]
                                              ELSE Out]
  /\ UNCHANGED <<state, locked>>

\* set_state by code that does not hold the lock: the container monitor, the
\* startup line check and the failed kill.
SetState ==
  /\ state' \in {"offline", "running"}
  /\ UNCHANGED <<locked, call>>

(***************************************************************************)
(* Specification                                                           *)
(***************************************************************************)
Acquire(c) == FindFree(c) \/ Refuse(c) \/ GiveUp(c)

Next ==
  \/ \E c \in Caller :
       \/ \E s \in Wanted, p \in BOOLEAN : Enter(c, s, p)
       \/ Acquire(c)
       \/ Claim(c)
       \/ Succeed(c)
       \/ Fail(c)
       \/ Abandon(c)
  \/ SetState

Spec == Init /\ [][Next]_vars

\* Polling, the timer and the two stores run as soon as the executor can; an
\* action may hang for ever, so Succeed and Fail are given no fairness.
Fairness == \A c \in Caller : WF_vars(Acquire(c)) /\ WF_vars(Claim(c))

LiveSpec == Spec /\ Fairness

(***************************************************************************)
(* Properties                                                              *)
(***************************************************************************)

\* The lock is never left behind by a call that returned: when the flag is
\* set, some action is running or was dropped while it ran.
LockHasHolder ==
  locked => \E c \in Caller : call[c].phase \in {"inside", "lost"}

\* The only action that is running keeps the lock for as long as it runs: no
\* other call can clear the flag under it.
SoleHolderKeepsLock ==
  [][\A c \in Caller :
       /\ locked /\ Inside(c) /\ Inside(c)'
       /\ \A d \in Caller \ {c} : ~Inside(d)
       => locked']_vars

\* A call with a timeout always gets to run its action unless it is dropped
\* first, even when the action that holds the lock never returns, or was
\* dropped with the lock set.
PatientRuns ==
  \A c \in Caller :
    call[c].phase = "wait" /\ call[c].patient
      ~> call[c].phase \in {"inside", "out"}
=============================================================================
