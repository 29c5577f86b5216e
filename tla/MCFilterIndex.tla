---------------------------- MODULE MCFilterIndex ----------------------------
(***************************************************************************)
(* Instances of FilterIndex small enough for TLC.                          *)
(***************************************************************************)
EXTENDS FilterIndex, TLC

CONSTANTS i1, i2, i3

Alike == Permutations({i1, i2, i3})

Whole(n) == Number("int", n)

Point(n) == Number("float", n)

\* Numbers that share a bucket, one out of its reach, a text where numbers are expected, a
\* boolean of a string's text.
SomeFilters ==
  {"age" :> Whole(0), "age" :> Whole(1), ("age" :> Point(5)) @@ ("tag" :> Text("String", "1")),
   "age" :> Text("String", "1"), "tag" :> Text("Bool", "1")}

Keys == {Sortable(x) : x \in {Whole(0), Whole(1), Whole(2), Point(5)}}

Eq(fld, texts, numbers) == [field |-> fld, op |-> "in", texts |-> texts, numbers |-> numbers]

Within(lo, hi) ==
  [field |-> "age", op |-> "range", texts |-> {}, lo |-> lo, hi |-> hi]

SomeConditions ==
  {Eq("tag", {"1"}, {}), Eq("age", {"1"}, {Whole(0), Point(5)})}
    \cup {Within(Whole(a), b) : a \in {0, 1}, b \in {Whole(1), Whole(2), Point(5)}}
=============================================================================
