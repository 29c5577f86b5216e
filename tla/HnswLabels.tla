------------------------------ MODULE HnswLabels ------------------------------
(***************************************************************************)
(* What an HNSW graph (hnsw/hnswalg.h) knows of its elements: for every    *)
(* external label whether it is in the graph and marked deleted, the       *)
(* vector its links were last built for, and deletedElementsCount_.  How   *)
(* elements are linked is left out: searchKnn with a large enough k is     *)
(* taken to return the labels that are not marked deleted.                 *)
(***************************************************************************)
EXTENDS Integers, FiniteSets

CONSTANTS
  Labels,       \* external labels, the numeric ids
  Vecs,         \* vector contents
  NoVec,        \* no vector stored
  SizeRange     \* the range of size_t: 2^64, or any number above the labels

ASSUME HnswAssumption ==
  /\ Labels \subseteq Nat
  /\ NoVec \notin Vecs
  /\ SizeRange \in Nat \ {0}

Marks == {"absent", "live", "deleted"}

Graphs == [mark : [Labels -> Marks], at : [Labels -> Vecs \cup {NoVec}], del : Int]

EmptyGraph == [mark |-> [l \in Labels |-> "absent"],
               at   |-> [l \in Labels |-> NoVec], del |-> 0]

LabelsMarked(g, m) == {l \in Labels : g.mark[l] = m}

\* Mutant: an update leaves the deletion mark.
AddPointsKeepsMark(g, new, upd, v) ==
  LET known   == {l \in upd : g.mark[l] # "absent"}
      touched == new \cup known
  IN  [mark |-> [l \in Labels |-> IF l \in new THEN "live" ELSE g.mark[l]],
       at   |-> [l \in Labels |-> IF l \in touched THEN v[l] ELSE g.at[l]],
       del  |-> g.del]

(***************************************************************************)
(* addPoint for the batch new \cup upd: `new' by addPoint<true>, `upd' by   *)
(* addPoint<false>, which returns silently for a label it does not know    *)
(* and clears the mark of a deleted one.                                   *)
(***************************************************************************)
AddPoints(g, new, upd, v) ==
  LET known   == {l \in upd : g.mark[l] # "absent"}
      touched == new \cup known
  IN  [mark |-> [l \in Labels |-> IF l \in touched THEN "live" ELSE g.mark[l]],
       at   |-> [l \in Labels |-> IF l \in touched THEN v[l] ELSE g.at[l]],
       del  |-> g.del - Cardinality({l \in known : g.mark[l] = "deleted"})]

\* markDelete: throws for an unknown label; counts a label again when it is
\* already marked.
CanMark(g, l) == g.mark[l] # "absent"

MarkDelete(g, l) ==
  [mark |-> [g.mark EXCEPT ![l] = "deleted"], at |-> g.at, del |-> g.del + 1]

\* getElementsCount: curElementsCount_ - deletedElementsCount_, unsigned.
ElementsCount(g) ==
  (Cardinality(Labels \ LabelsMarked(g, "absent")) - g.del) % SizeRange
===============================================================================
