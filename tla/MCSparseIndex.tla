---------------------------- MODULE MCSparseIndex ----------------------------
(***************************************************************************)
(* Instances of SparseIndex small enough for TLC.                          *)
(***************************************************************************)
EXTENDS SparseIndex, TLC

Ids == {0, 1, 2, 3}

Words == {1, 2}

\* Weights 2 and 6 share a block's two levels: 2 is rounded when a 6 is beside it.  The
\* vector of two terms reaches CountLimit.
SomeVectors == {1 :> 2, 1 :> 6, 1 :> 0, (1 :> 2) @@ (2 :> 6)}

\* Any vector for document 0, fewer for the others, and a batch that writes two blocks.
SomeBatches ==
  {0 :> v : v \in SomeVectors}
    \cup {d :> v : d \in {1, 2}, v \in {1 :> 2, 1 :> 6}}
    \cup {(1 :> v) @@ (3 :> v) : v \in {1 :> 2, 1 :> 6}}
=============================================================================
