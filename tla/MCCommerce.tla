------------------------------ MODULE MCCommerce ------------------------------
(***************************************************************************)
(* Instances of Commerce for TLC.  Clicks, handlers, deliveries and        *)
(* sweepers are interchangeable.                                           *)
(***************************************************************************)
EXTENDS Commerce, TLC

Interchangeable == Permutations(Clicks) \cup Permutations(Handlers)
                     \cup Permutations(Deliveries) \cup Permutations(Sweepers)

===============================================================================
