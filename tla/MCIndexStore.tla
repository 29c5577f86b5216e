----------------------------- MODULE MCIndexStore -----------------------------
(***************************************************************************)
(* Instances of IndexStore small enough for TLC.                           *)
(***************************************************************************)
EXTENDS IndexStore

CONSTANTS a, b, v, w, bad, red, blue

Obj(n, x, t) == [name |-> n, vec |-> x, tag |-> t]

NamesOf(batches) == {NamesIn(objs) : objs \in batches}

MCLabels == 1..MaxId

\* Inserts of one object, upserts with another vector, and a batch of two; every
\* object is inserted with the same filter.
PlainBatches ==
  {<<Obj(a, v, red)>>, <<Obj(a, w, red)>>, <<Obj(b, v, red)>>,
   <<Obj(b, w, red), Obj(a, v, red)>>}
PlainNames == NamesOf(PlainBatches)

\* Batches that also repeat a string id, change the filter of an object, or hold
\* a vector of the wrong dimension.
RoughBatches ==
  {<<Obj(a, v, red)>>, <<Obj(b, v, blue)>>, <<Obj(a, v, red), Obj(a, v, blue)>>,
   <<Obj(b, bad, red)>>}
RoughNames == NamesOf(RoughBatches)
===============================================================================
