------------------------------ MODULE MCHnswGraph ------------------------------
(***************************************************************************)
(* Four elements on a Golomb ruler, so that no two are equally near a      *)
(* third, with two links in the base layer and one above: a list is pruned *)
(* once an element has three neighbours.                                   *)
(***************************************************************************)
EXTENDS HnswGraph

MCStarts == [n \in Nodes |-> CASE n = 0 -> {4} [] n \in {1, 2} -> {0, 6} [] n = 3 -> {1}]

Alike == Permutations(Threads)
=============================================================================
