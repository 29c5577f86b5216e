------------------------------ MODULE MCIdMapper ------------------------------
(***************************************************************************)
(* An instance of IdMapper small enough for TLC: every batch of up to two  *)
(* string ids, the same one twice included.                                *)
(***************************************************************************)
EXTENDS IdMapper, TLC

MCBatches == UNION {[1..k -> Names] : k \in 1..2}

MCSymmetry == Permutations(Names)
===============================================================================
