-------------------------- MODULE StateLockProofs --------------------------
(***************************************************************************)
(* Proofs about StateLock, for any number of callers.                      *)
(***************************************************************************)
EXTENDS StateLock, TLAPS

\* The records of callers outside execute_action are well-typed.
LEMMA OutIsCall == Out \in Call /\ [Out EXCEPT !.phase = "lost"] \in Call
  BY DEF Out, Call, Phase, Wanted, State

\* Every variable of the lock keeps its type.
THEOREM TypeCorrect == Spec => []TypeOK
<1>1. Init => TypeOK
  BY OutIsCall DEF Init, TypeOK, State
<1>2. TypeOK /\ [Next]_vars => TypeOK'
  <2> SUFFICES ASSUME TypeOK, [Next]_vars
               PROVE  TypeOK'
    OBVIOUS
  <2> USE OutIsCall DEF TypeOK
  <2>1. ASSUME NEW c \in Caller, NEW s \in Wanted, NEW p \in BOOLEAN,
               Enter(c, s, p)
        PROVE  TypeOK'
    BY <2>1 DEF Enter, Call, Phase
  <2>2. ASSUME NEW c \in Caller, FindFree(c) \/ GiveUp(c)
        PROVE  TypeOK'
    BY <2>2 DEF FindFree, GiveUp, Call, Phase
  <2>3. ASSUME NEW c \in Caller, Refuse(c)
        PROVE  TypeOK'
    BY <2>3 DEF Refuse
  <2>4. ASSUME NEW c \in Caller, Claim(c)
        PROVE  TypeOK'
    BY <2>4 DEF Claim, Call, Phase, Wanted, State
  <2>5. ASSUME NEW c \in Caller, Succeed(c) \/ Fail(c)
        PROVE  TypeOK'
    <3>1. call[c].old_state \in State
      BY DEF Call
    <3>2. QED
      BY <2>5, <3>1 DEF Succeed, Fail
  <2>6. ASSUME NEW c \in Caller, Abandon(c)
        PROVE  TypeOK'
    BY <2>6 DEF Abandon
  <2>7. CASE SetState
    BY <2>7 DEF SetState, State
  <2>8. CASE UNCHANGED vars
    BY <2>8 DEF vars
  <2>9. QED
    BY <2>1, <2>2, <2>3, <2>4, <2>5, <2>6, <2>7, <2>8 DEF Next, Acquire
<1>3. QED
  BY <1>1, <1>2, PTL DEF Spec

\* A set flag always has an action behind it: one that runs, or one that was
\* dropped while it ran.  With TypeOK the property is inductive by itself: the
\* flag is set only by a caller that goes inside, and a caller leaves the inside
\* either clearing the flag or as a lost one.
THEOREM LockIsHeld == Spec => []LockHasHolder
<1>1. Init => LockHasHolder
  BY DEF Init, LockHasHolder
<1>2. TypeOK /\ LockHasHolder /\ [Next]_vars => LockHasHolder'
  <2> SUFFICES ASSUME TypeOK, LockHasHolder, [Next]_vars
               PROVE  LockHasHolder'
    OBVIOUS
  <2> USE DEF TypeOK, LockHasHolder, Call, Phase, Out
  <2>1. ASSUME NEW c \in Caller, NEW s \in Wanted, NEW p \in BOOLEAN,
               Enter(c, s, p)
        PROVE  LockHasHolder'
    BY <2>1 DEF Enter
  <2>2. ASSUME NEW c \in Caller, Acquire(c)
        PROVE  LockHasHolder'
    BY <2>2 DEF Acquire, FindFree, Refuse, GiveUp
  <2>3. ASSUME NEW c \in Caller, Claim(c)
        PROVE  LockHasHolder'
    BY <2>3 DEF Claim
  <2>4. ASSUME NEW c \in Caller, Succeed(c) \/ Fail(c)
        PROVE  LockHasHolder'
    BY <2>4 DEF Succeed, Fail
  <2>5. ASSUME NEW c \in Caller, Abandon(c)
        PROVE  LockHasHolder'
    BY <2>5 DEF Abandon, Inside
  <2>6. CASE SetState
    BY <2>6 DEF SetState
  <2>7. CASE UNCHANGED vars
    BY <2>7 DEF vars
  <2>8. QED
    BY <2>1, <2>2, <2>3, <2>4, <2>5, <2>6, <2>7 DEF Next
<1>3. QED
  BY <1>1, <1>2, TypeCorrect, PTL DEF Spec

\* While one action runs alone under the lock, no step of any other call clears
\* the flag: only a caller that is inside writes FALSE, and it leaves.
THEOREM SoleHolderIsSafe == Spec => SoleHolderKeepsLock
<1> DEFINE Kept(c) == (/\ locked /\ Inside(c) /\ Inside(c)'
                       /\ \A d \in Caller \ {c} : ~Inside(d)) => locked'
<1>1. TypeOK /\ [Next]_vars => [\A c \in Caller : Kept(c)]_vars
  <2> SUFFICES ASSUME TypeOK, [Next]_vars, NEW c \in Caller,
                      locked, Inside(c), Inside(c)',
                      \A d \in Caller \ {c} : ~Inside(d)
               PROVE  locked'
    OBVIOUS
  <2> USE DEF TypeOK, Inside, Call, Phase, Out
  <2>1. ASSUME NEW e \in Caller, Succeed(e) \/ Fail(e)
        PROVE  FALSE
    BY <2>1 DEF Succeed, Fail
  <2>2. ASSUME NEW e \in Caller, NEW s \in Wanted, NEW p \in BOOLEAN,
               Enter(e, s, p) \/ Acquire(e) \/ Claim(e) \/ Abandon(e)
        PROVE  locked'
    BY <2>2 DEF Enter, Acquire, FindFree, Refuse, GiveUp, Claim, Abandon
  <2>3. CASE SetState \/ UNCHANGED vars
    BY <2>3 DEF SetState, vars
  <2>4. QED
    BY <2>1, <2>2, <2>3 DEF Next, Wanted
<1>2. QED
  BY <1>1, TypeCorrect, PTL DEF Spec, SoleHolderKeepsLock
=============================================================================
