----------------------------- MODULE MCStreams -----------------------------
(***************************************************************************)
(* EventDelivery for the invariants of the broadcaster: the concurrent     *)
(* commands of a client are interchangeable.                               *)
(***************************************************************************)
EXTENDS EventDelivery, TLC

Symmetry == Permutations(Requests)
=============================================================================
