------------------------------ MODULE MCNodes ------------------------------
(***************************************************************************)
(* Manager and Transfer for TLC: a behaviour is either about all that can  *)
(* happen to a server at its node, or about its transfer to another one,   *)
(* which is chosen at the start.  Nothing is owed by the destination.      *)
(***************************************************************************)
EXTENDS Transfer

CONSTANT NodeRequests  \* bound: requests of a behaviour about one node

VARIABLE about

DividedNext ==
  /\ \/ about = "node" /\ NodeNext(Home) /\ requests' <= NodeRequests /\ UNCHANGED moving
     \/ about = "transfer" /\ TransferNext
  /\ UNCHANGED about

DividedInit == TransferInit /\ about \in {"node", "transfer"}

DividedSpec ==
  /\ DividedInit
  /\ [][DividedNext]_<<allVars, about>>
  /\ NodeFairness(Home)
=============================================================================
