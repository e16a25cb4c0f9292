---------------------------- MODULE MCPublications ----------------------------
(***************************************************************************)
(* Instances of Publications for TLC.  Ticks are interchangeable.          *)
(***************************************************************************)
EXTENDS Publications, TLC

Interchangeable == Permutations(Ticks)

===============================================================================
