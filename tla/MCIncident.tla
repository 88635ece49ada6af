----------------------------- MODULE MCIncident -----------------------------
(***************************************************************************)
(* Model checking of IncidentCoordinator.  Clients are interchangeable and *)
(* so are the slots of diagnosis tasks: no definition singles one out, and *)
(* the runs that use the symmetry check safety only.                       *)
(***************************************************************************)
EXTENDS IncidentCoordinator, TLC

Symmetry == Permutations(Client) \cup Permutations(Runtime)
=============================================================================
