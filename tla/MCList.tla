------------------------------- MODULE MCList -------------------------------
(***************************************************************************)
(* FromaList with three items and one list of each use.  Nothing tells the *)
(* items apart but their state, and both properties are about single       *)
(* states and steps: the symmetry is sound.                                *)
(***************************************************************************)
EXTENDS FromaList, TLC

ItemSymmetry == Permutations(Items)
=============================================================================
