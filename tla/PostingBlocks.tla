---------------------------- MODULE PostingBlocks ----------------------------
(***************************************************************************)
(* A posting list is cut into blocks of kBlockCapacity consecutive document*)
(* ids (sparse/inverted_index.hpp): the block of an id, and where it is in *)
(* the block.                                                              *)
(***************************************************************************)
EXTENDS Integers

CONSTANT BlockCap  \* kBlockCapacity

ASSUME BlockAssumption == BlockCap \in Nat \ {0}

BlockNr(d) == d \div BlockCap

Offset(d) == d % BlockCap
=============================================================================
