------------------------------ MODULE MCPower ------------------------------
(* Power for TLC: clients and containers are interchangeable.              *)
EXTENDS Power, TLC

Symmetry == Permutations(Task) \cup Permutations(Container)

\* Where serial is FALSE the invariants hold by their premise, except for types
\* and HasTarget, and serial stays FALSE: TLC does not go on from there.
StillSerial == serial

\* For liveness the clients are told apart: one restarts and carries out the start that
\* follows a restart, the others drain (stop, wait, kill), and may be dropped.
Restarter == CHOOSE t \in Task : TRUE
Duty(t) == IF t = Restarter THEN {"restart", "start"} ELSE {"drain"}
OnDuty == \A t \in Task : task[t].pc # "idle" => task[t].op \in Duty(t)

DividedSpec == Init /\ [][Next /\ OnDuty']_vars /\ Fairness
=============================================================================
