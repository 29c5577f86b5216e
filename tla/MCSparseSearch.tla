---------------------------- MODULE MCSparseSearch ----------------------------
(***************************************************************************)
(* Instances of SparseSearch small enough for TLC.                         *)
(***************************************************************************)
EXTENDS SparseSearch, TLC

ListsOf(ids, weights) == UNION {[S -> weights] : S \in SUBSET ids}

\* Two terms, the first with more postings, the second with tombstones; and three terms.
\* The ids leave gaps and reach the largest one, where batch_end wraps.
TwoTerms ==
  {<<a, b>> : a \in ListsOf({0, 1, 3, 5, 6}, {1, 2}), b \in ListsOf({1, 3, 6}, {0, 3})}

ThreeTerms ==
  {<<a, b, c>> : a \in ListsOf({0, 2, 4, 6}, {1}), b \in ListsOf({1, 4, 6}, {2}),
                 c \in ListsOf({0, 2, 6}, {3})}

SomeSearches ==
  {[lists |-> l, weight |-> [t \in DOMAIN l |-> IF t = 1 THEN 2 ELSE 1], k |-> k, filter |-> f] :
     l \in TwoTerms \cup ThreeTerms, k \in {1, 2}, f \in {0 .. 6, 0 .. 6 \ {1, 6}}}
=============================================================================
