----------------------------- MODULE MCEvents ------------------------------
(***************************************************************************)
(* An instance of EventLifecycle: two plans, with one and two children.    *)
(***************************************************************************)
EXTENDS EventLifecycle, TLC

CONSTANTS p1, p2

ChildrenOfPlans == p1 :> 1 @@ p2 :> 2
AnyInt == -1..MaxFd
=============================================================================
