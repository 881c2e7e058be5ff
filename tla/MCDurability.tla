---------------------------- MODULE MCDurability ----------------------------
(***************************************************************************)
(* Instances of Durability for TLC.                                        *)
(***************************************************************************)
EXTENDS Durability, TLC

Symmetry == Permutations(Workers \ Liars)
=============================================================================
