----------------------------- MODULE MCSessions -----------------------------
(***************************************************************************)
(* Sessions for TLC.  One-time tokens share nothing with the socket and    *)
(* the log but a restart: a behaviour is either about the one or about the *)
(* other, which is chosen at the start.                                    *)
(***************************************************************************)
EXTENDS Sessions

VARIABLE about

DividedNext ==
  /\ \/ about = "socket" /\ SocketNext
     \/ about = "log" /\ (LogNext \/ Restart)
     \/ about = "tickets" /\ TicketNext
  /\ UNCHANGED about

DividedInit == Init /\ about \in {"socket", "log", "tickets"}

DividedSpec ==
  /\ DividedInit
  /\ [][DividedNext]_<<vars, about>>
  /\ Fairness
=============================================================================
