---------------------------- MODULE ViewerWorld -----------------------------
(***************************************************************************)
(* What the models of the viewer's tables share: the users, the clock of   *)
(* the database, and a budget for what happens now and then (failures,     *)
(* restarts, clicks of an admin).                                          *)
(***************************************************************************)
EXTENDS Integers, FiniteSets

CONSTANTS
  Users, None,
  MaxTime, MaxEvents   \* bounds

ASSUME VwConstants ==
  None \notin Users \cup Nat /\ MaxTime \in Nat /\ MaxEvents \in Nat

VARIABLES now, events

Event == events < MaxEvents /\ events' = events + 1
=============================================================================
