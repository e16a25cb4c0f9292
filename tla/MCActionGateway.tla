-------------------------- MODULE MCActionGateway --------------------------
(***************************************************************************)
(* Symmetry for the model-checking runs of ActionGateway: callers and      *)
(* reservation ids are interchangeable, no property names one.             *)
(***************************************************************************)
EXTENDS ActionGateway, TLC

Symmetry == Permutations(Callers) \cup Permutations(Reservations)

=============================================================================
