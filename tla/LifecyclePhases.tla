--------------------------- MODULE LifecyclePhases ---------------------------
(***************************************************************************)
(* What DocumentLifecycle promises (spec 3 and 4.1), stated over coarse    *)
(* phases: a document is created Uninitialized, becomes Inactive, then     *)
(* cycles through style/layout/paint work ("Active") in any order; it can  *)
(* start Stopping from any phase, and only a Stopping document becomes     *)
(* Stopped.  Nothing returns to Uninitialized or Inactive.                 *)
(***************************************************************************)
VARIABLE phase

Phases == {"Uninitialized", "Inactive", "Active", "Stopping", "Stopped"}

Init == phase = "Uninitialized"

Activate   == phase = "Uninitialized" /\ phase' = "Inactive"
StartWork  == phase \in {"Inactive", "Active"} /\ phase' = "Active"
StartStop  == phase' = "Stopping"
FinishStop == phase = "Stopping" /\ phase' = "Stopped"

Next == Activate \/ StartWork \/ StartStop \/ FinishStop

Spec == Init /\ [][Next]_phase

=============================================================================
