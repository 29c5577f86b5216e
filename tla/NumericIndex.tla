----------------------------- MODULE NumericIndex -----------------------------
(***************************************************************************)
(* One field's numeric index (filter/numeric_index.hpp): a number for each *)
(* id (numeric_forward), and the ids by number in buckets keyed by their   *)
(* smallest possible number (numeric_inverted).  A bucket spans MaxDelta   *)
(* numbers, is split when it is full, unless all its numbers are equal,    *)
(* and keeps a bitmap of its ids that range queries use when they cover it *)
(* whole.  The 16-bit count of a stored bucket wraps.                      *)
(*                                                                         *)
(* Numbers are the sortable keys numbers are converted to.  The keys of    *)
(* fields are apart, as a field's name has no ":" (docs/filter.md, 3.2).   *)
(* A put or a removal is one transaction.                                  *)
(***************************************************************************)
EXTENDS Integers, FiniteSets

CONSTANTS
  Ids,
  Values,     \* sortable keys
  MaxSize,    \* Bucket::MAX_SIZE
  MaxDelta,   \* Bucket::MAX_DELTA
  CountMod    \* 2^16: the stored count of a bucket wraps there

ASSUME NumericAssumption ==
  /\ Values \subseteq Nat
  /\ MaxSize \in Nat \ {0, 1} /\ MaxDelta \in Nat /\ CountMod \in Nat /\ MaxSize < CountMod

VARIABLES
  forward,   \* the number of each id, or None
  index,     \* the keys of the buckets, and each one's entries and summary_bitmap
  wrapped    \* history: the count of a bucket wrapped

numericVars == <<forward, index, wrapped>>

None == -1

Least(S) == CHOOSE x \in S : \A y \in S : x <= y

Greatest(S) == CHOOSE x \in S : \A y \in S : y <= x

\* The last key not after v: SET_RANGE, then PREV unless it hit v.
AtOrBefore(keys, v) == {k \in keys : k <= v}

Covering(keys, v) == Greatest(AtOrBefore(keys, v))

IdsOf(entries) == {e[2] : e \in entries}

\* What is read back of a bucket's entries: none when their count is 0 modulo CountMod.  A
\* bucket grows by one entry, so its count is CountMod at most.
Kept(entries) == IF Cardinality(entries) = CountMod THEN {} ELSE entries

Bucket(entries, bitmap) == [entries |-> Kept(entries), bitmap |-> bitmap]

WithBucket(idx, k, b) ==
  [keys    |-> idx.keys \cup {k},
   entries |-> [idx.entries EXCEPT ![k] = b.entries],
   bitmap  |-> [idx.bitmap EXCEPT ![k] = b.bitmap]]

WithoutBucket(idx, k) ==
  [keys    |-> idx.keys \ {k},
   entries |-> [idx.entries EXCEPT ![k] = {}],
   bitmap  |-> [idx.bitmap EXCEPT ![k] = {}]]

\* remove_from_buckets: the id is looked for in the bucket that covers its number only.
RemoveFrom(idx, v, id) ==
  LET k     == Covering(idx.keys, v)
      rest  == {e \in idx.entries[k] : e[2] # id}
  IN  IF AtOrBefore(idx.keys, v) = {} \/ id \notin IdsOf(idx.entries[k]) THEN idx
      ELSE IF rest = {} THEN WithoutBucket(idx, k)
      ELSE WithBucket(idx, k, Bucket(rest, idx.bitmap[k] \ {id}))

Below(entries, v) == {e \in entries : e[1] < v}

\* Where a full bucket can be split: between two numbers, at or right of the middle if
\* possible, else left of it.
Splits(entries) == {e[1] : e \in {f \in entries : Below(entries, f[1]) # {}}}

SplitAt(entries) ==
  LET right == {v \in Splits(entries) : Cardinality(Below(entries, v)) >= Cardinality(entries) \div 2}
  IN  IF right # {} THEN Least(right) ELSE Greatest(Splits(entries))

\* Mutant: a full bucket is split in its middle, through a run of equal numbers.
SplitInMiddle(idx, k, v, id) ==
  LET at    == SplitAt(idx.entries[k])
      old   == idx.entries[k]
      left  == Below(old, at) \cup {<<v, id>>}
      right == old \ Below(old, at)
  IN  WithBucket(WithBucket(idx, k, Bucket(left, IdsOf(left))), at, Bucket(right, IdsOf(right)))

\* Mutant: the left half keeps the bitmap of the whole bucket.
SplitKeepsBitmap(idx, k, v, id) ==
  LET at    == SplitAt(idx.entries[k])
      old   == idx.entries[k]
      left  == Below(old, at) \cup (IF v < at THEN {<<v, id>>} ELSE {})
      right == (old \ Below(old, at)) \cup (IF v >= at THEN {<<v, id>>} ELSE {})
  IN  WithBucket(WithBucket(idx, k, Bucket(left, idx.bitmap[k])), at, Bucket(right, IdsOf(right)))

Split(idx, k, v, id) ==
  LET at    == SplitAt(idx.entries[k])
      old   == idx.entries[k]
      left  == Below(old, at) \cup (IF v < at THEN {<<v, id>>} ELSE {})
      right == (old \ Below(old, at)) \cup (IF v >= at THEN {<<v, id>>} ELSE {})
  IN  WithBucket(WithBucket(idx, k, Bucket(left, IdsOf(left))), at, Bucket(right, IdsOf(right)))

InReach(idx, v) ==
  AtOrBefore(idx.keys, v) # {} /\ v - Covering(idx.keys, v) <= MaxDelta

Full(entries) == Cardinality(entries) >= MaxSize

\* The bucket v is added to: none, or the one that covers it and is in reach.
Joins(idx, v, id) ==
  LET k == Covering(idx.keys, v)
  IN  WithBucket(idx, k, Bucket(idx.entries[k] \cup {<<v, id>>}, idx.bitmap[k] \cup {id}))

\* add_to_buckets: a bucket of its own, a split, or one more entry.
AddTo(idx, v, id) ==
  LET entries == idx.entries[Covering(idx.keys, v)]
  IN  IF ~InReach(idx, v) THEN WithBucket(idx, v, Bucket({<<v, id>>}, {id}))
      ELSE IF Full(entries) /\ Splits(entries) # {} THEN Split(idx, Covering(idx.keys, v), v, id)
      ELSE Joins(idx, v, id)

Overflows(idx, v) ==
  LET entries == idx.entries[Covering(idx.keys, v)]
  IN  InReach(idx, v) /\ Splits(entries) = {} /\ Cardinality(entries) + 1 = CountMod

NumericInit ==
  /\ forward = [i \in Ids |-> None]
  /\ index = [keys |-> {}, entries |-> [v \in Values |-> {}], bitmap |-> [v \in Values |-> {}]]
  /\ wrapped = FALSE

Cleared(id) == IF forward[id] = None THEN index ELSE RemoveFrom(index, forward[id], id)

Put(id, v) ==
  IF forward[id] = v THEN UNCHANGED numericVars
  ELSE /\ forward' = [forward EXCEPT ![id] = v]
       /\ index' = AddTo(Cleared(id), v, id)
       /\ wrapped' = (wrapped \/ Overflows(Cleared(id), v))

Remove(id) ==
  /\ forward' = [forward EXCEPT ![id] = None]
  /\ index' = Cleared(id)
  /\ UNCHANGED wrapped

NumericNext == \E id \in Ids : Remove(id) \/ \E v \in Values : Put(id, v)

NumericSpec == NumericInit /\ [][NumericNext]_numericVars

(***************************************************************************)
(* range and check_range.                                                  *)
(***************************************************************************)

\* The buckets read: from the one that covers lo to the last that starts by hi.
Scanned(lo, hi) ==
  {k \in index.keys : k <= hi /\ (lo <= k \/ k = Covering(index.keys, lo))}

InBucket(k, lo, hi) ==
  IF \A e \in index.entries[k] : lo <= e[1] /\ e[1] <= hi
    THEN IF index.entries[k] = {} THEN {} ELSE index.bitmap[k]
    ELSE IdsOf({e \in index.entries[k] : lo <= e[1] /\ e[1] <= hi})

InRange(lo, hi) == UNION {InBucket(k, lo, hi) : k \in Scanned(lo, hi)}

CheckRange(id, lo, hi) == forward[id] # None /\ lo <= forward[id] /\ forward[id] <= hi

-----------------------------------------------------------------------------
NumericTypeOK ==
  /\ forward \in [Ids -> Values \cup {None}]
  /\ index \in [keys : SUBSET Values, entries : [Values -> SUBSET (Values \X Ids)],
                bitmap : [Values -> SUBSET Ids]]
  /\ wrapped \in BOOLEAN

\* Where an entry is, a lookup of its number leads: it is within reach of its bucket's key
\* and no other key lies between, however buckets were split, emptied and made again.
Placed(k) ==
  \A e \in index.entries[k] :
    k <= e[1] /\ e[1] <= k + MaxDelta /\ \A j \in index.keys : j <= e[1] => j <= k

NumericInv ==
  /\ NumericTypeOK
  /\ ~wrapped =>
       /\ \A k \in Values \ index.keys : index.entries[k] = {}
       /\ \A k \in index.keys : Placed(k) /\ index.bitmap[k] = IdsOf(index.entries[k])
       /\ \A i \in Ids, v \in Values :
            forward[i] = v <=> \E k \in index.keys : <<v, i>> \in index.entries[k]

\* A range query finds exactly the ids whose number is in the range, and so agrees with the
\* check of one id, until 2^16 entries of one number share a bucket.
RangeExact ==
  ~wrapped => \A lo, hi \in Values :
    lo <= hi => InRange(lo, hi) = {i \in Ids : CheckRange(i, lo, hi)}
=============================================================================
