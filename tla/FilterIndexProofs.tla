--------------------------- MODULE FilterIndexProofs ---------------------------
(***************************************************************************)
(* The inductive invariant of FilterIndex: what both indices hold of every *)
(* vector, settled or in the midst of a change.  From it, for any filters  *)
(* and conditions, that a condition finds exactly the vectors whose stored *)
(* filter satisfies it, and that a field keeps its type.                   *)
(***************************************************************************)
EXTENDS FilterIndex, FiniteSetTheorems, WellFoundedInduction, TLAPS

-------------------------------------------------------------------------------
(* One numeric field: a range query is exact, for any ids, numbers, size   *)
(* and reach of a bucket, until the count of a bucket wraps.  The shape of *)
(* the index outlives that: it is what bounds the numbers a split chooses  *)
(* from.                                                                   *)


\* The least of natural numbers.
LEMMA LeastIs ==
  ASSUME NEW S, S \subseteq Nat, S # {}
  PROVE  Least(S) \in S /\ \A y \in S : Least(S) <= y
<1>1. IsWellFoundedOn(OpToRel(<, Nat), Nat)
  BY NatLessThanWellFounded
<1>2. PICK x \in S : \A y \in S : ~(<<y, x>> \in OpToRel(<, Nat))
  BY <1>1, WFMin
<1>3. \A y \in S : ~(y < x)
  BY <1>2 DEF OpToRel
<1>4. \A y \in S : x <= y
  BY <1>3
<1>5. QED
  BY <1>4 DEF Least

\* The greatest of natural numbers below a bound.
LEMMA GreatestIs ==
  ASSUME NEW S, S \subseteq Nat, S # {}, NEW b \in Nat, \A y \in S : y <= b
  PROVE  Greatest(S) \in S /\ \A y \in S : y <= Greatest(S)
<1> DEFINE T == {k \in Nat : k <= b /\ b - k \in S}
<1>1. PICK q \in S : TRUE
  OBVIOUS
<1>2. b - q \in T
  <2>1. q \in Nat /\ q <= b
    BY <1>1
  <2>2. b - q \in Nat /\ b - q <= b /\ b - (b - q) = q
    BY <2>1
  <2>3. QED
    BY <2>2
<1>3. Least(T) \in T /\ \A y \in T : Least(T) <= y
  BY <1>2, LeastIs
<1> DEFINE g == b - Least(T)
<1>4. g \in S /\ Least(T) \in Nat /\ Least(T) <= b
  BY <1>3
<1>5. \A y \in S : y <= g
  <2> TAKE y \in S
  <2>1. y \in Nat /\ y <= b
    OBVIOUS
  <2>2. b - y \in Nat /\ b - y <= b /\ b - (b - y) = y
    BY <2>1
  <2>3. b - y \in T
    BY <2>2
  <2>4. Least(T) <= b - y
    BY <1>3, <2>3
  <2> HIDE DEF T
  <2>5. QED
    BY <2>1, <2>4, <1>4
<1> HIDE DEF g
<1>6. QED
  BY <1>4, <1>5 DEF Greatest

\* The bucket that covers a number is the last that starts by it.
LEMMA CoveringIs ==
  ASSUME NEW keys, keys \subseteq Values, NEW v \in Values, AtOrBefore(keys, v) # {}
  PROVE  /\ Covering(keys, v) \in keys /\ Covering(keys, v) <= v
         /\ \A j \in keys : j <= v => j <= Covering(keys, v)
<1>1. AtOrBefore(keys, v) \subseteq Nat /\ v \in Nat /\ \A y \in AtOrBefore(keys, v) : y <= v
  BY NumericAssumption DEF AtOrBefore
<1>2. /\ Greatest(AtOrBefore(keys, v)) \in AtOrBefore(keys, v)
      /\ \A y \in AtOrBefore(keys, v) : y <= Greatest(AtOrBefore(keys, v))
  BY <1>1, GreatestIs
<1>3. QED
  BY <1>2 DEF Covering, AtOrBefore

(***************************************************************************)
(* The invariant, of an index and the numbers it is for.                   *)
(***************************************************************************)
Indices == [keys : SUBSET Values, entries : [Values -> SUBSET (Values \X Ids)],
            bitmap : [Values -> SUBSET Ids]]

\* However counts wrap: entries lie in the bucket that covers them, within its reach.
Shaped(idx) ==
  /\ idx \in Indices
  /\ \A k \in Values \ idx.keys : idx.entries[k] = {}
  /\ \A k \in idx.keys : \A e \in idx.entries[k] :
       k <= e[1] /\ e[1] <= k + MaxDelta /\ \A j \in idx.keys : j <= e[1] => j <= k

\* Until one does: buckets hold the numbers of all ids, in less than CountMod entries.
Small(S) == IsFiniteSet(S) /\ Cardinality(S) < CountMod

Exact(idx, fwd) ==
  /\ \A k \in idx.keys : Small(idx.entries[k]) /\ idx.bitmap[k] = IdsOf(idx.entries[k])
  /\ \A i \in Ids, v \in Values : fwd[i] = v <=> \E k \in idx.keys : <<v, i>> \in idx.entries[k]

Inv ==
  /\ forward \in [Ids -> Values \cup {None}] /\ wrapped \in BOOLEAN
  /\ Shaped(index)
  /\ ~wrapped => Exact(index, forward)

\* The splits of a bucket's entries are numbers of it, and not its first.
LEMMA ChosenIs ==
  ASSUME NEW S, S \subseteq Nat, S # {}, NEW b \in Nat, \A y \in S : y <= b, NEW R \in SUBSET S
  PROVE  (IF R # {} THEN Least(R) ELSE Greatest(S)) \in S
<1>1. CASE R # {}
  BY <1>1, LeastIs
<1>2. CASE R = {}
  BY <1>2, GreatestIs
<1>3. QED
  BY <1>1, <1>2

LEMMA SplitIs ==
  ASSUME NEW old, old \subseteq Values \X Ids, NEW b \in Nat, \A e \in old : e[1] <= b,
         Splits(old) # {}
  PROVE  /\ SplitAt(old) \in Values
         /\ \E e \in old : e[1] = SplitAt(old)
         /\ \E e \in old : e[1] < SplitAt(old)
<1>1. Splits(old) \subseteq Nat /\ \A y \in Splits(old) : y <= b
  BY NumericAssumption DEF Splits
<1>2. SplitAt(old) \in Splits(old)
  BY <1>1, ChosenIs DEF SplitAt
<1>3. QED
  BY <1>2 DEF Splits, Below

(***************************************************************************)
(* What storing and dropping a bucket leave.                               *)
(***************************************************************************)
LEMMA WithBucketIs ==
  ASSUME NEW idx \in Indices, NEW k \in Values, NEW b,
         b.entries \subseteq Values \X Ids, b.bitmap \subseteq Ids
  PROVE  LET with == WithBucket(idx, k, b)
         IN  /\ with \in Indices /\ with.keys = idx.keys \cup {k}
             /\ with.entries[k] = b.entries /\ with.bitmap[k] = b.bitmap
             /\ \A j \in Values : j # k => /\ with.entries[j] = idx.entries[j]
                                           /\ with.bitmap[j] = idx.bitmap[j]
  BY DEF WithBucket, Indices

LEMMA WithoutBucketIs ==
  ASSUME NEW idx \in Indices, NEW k \in Values
  PROVE  LET without == WithoutBucket(idx, k)
         IN  /\ without \in Indices /\ without.keys = idx.keys \ {k}
             /\ without.entries[k] = {}
             /\ \A j \in Values : j # k => /\ without.entries[j] = idx.entries[j]
                                           /\ without.bitmap[j] = idx.bitmap[j]
  BY DEF WithoutBucket, Indices

(***************************************************************************)
(* A removal.                                                              *)
(***************************************************************************)
LEMMA FewerShaped ==
  ASSUME NEW idx, Shaped(idx), NEW new \in Indices, new.keys \subseteq idx.keys,
         \A j \in Values : \A e \in new.entries[j] : e \in idx.entries[j],
         \A j \in Values \ new.keys : new.entries[j] = {}
  PROVE  Shaped(new)
<1>1. new.keys \subseteq Values
  BY DEF Indices
<1>2. ASSUME NEW k \in new.keys, NEW e \in new.entries[k]
      PROVE  k <= e[1] /\ e[1] <= k + MaxDelta /\ \A j \in new.keys : j <= e[1] => j <= k
  <2>1. k \in idx.keys /\ e \in idx.entries[k]
    BY <1>1
  <2>2. k <= e[1] /\ e[1] <= k + MaxDelta /\ \A j \in idx.keys : j <= e[1] => j <= k
    BY <2>1 DEF Shaped
  <2>3. QED
    BY <2>2
<1>3. QED
  BY <1>2 DEF Shaped

LEMMA RemoveShaped ==
  ASSUME NEW idx, Shaped(idx), NEW v \in Values, NEW id \in Ids
  PROVE  Shaped(RemoveFrom(idx, v, id))
<1> DEFINE k == Covering(idx.keys, v)
           rest == {e \in idx.entries[k] : e[2] # id}
           b == Bucket(rest, idx.bitmap[k] \ {id})
<1>1. CASE AtOrBefore(idx.keys, v) = {} \/ id \notin IdsOf(idx.entries[k])
  BY <1>1 DEF RemoveFrom
<1>2. CASE ~(AtOrBefore(idx.keys, v) = {} \/ id \notin IdsOf(idx.entries[k]))
  <2>1. idx \in Indices /\ idx.keys \subseteq Values
    BY DEF Shaped, Indices
  <2>2. k \in idx.keys /\ k \in Values
    BY <1>2, <2>1, CoveringIs
  <2>3. rest \subseteq idx.entries[k] /\ idx.entries[k] \subseteq Values \X Ids /\ idx.bitmap[k] \subseteq Ids
    BY <2>1, <2>2 DEF Indices
  <2>4. b.entries \subseteq idx.entries[k] /\ b.bitmap \subseteq Ids
    BY <2>3 DEF Bucket, Kept
  <2>5. b.entries \subseteq Values \X Ids
    BY <2>3, <2>4
  <2> HIDE DEF rest, b, k
  <2>6. Shaped(WithoutBucket(idx, k))
    <3> DEFINE new == WithoutBucket(idx, k)
    <3>1. /\ new \in Indices /\ new.keys = idx.keys \ {k} /\ new.entries[k] = {}
          /\ \A j \in Values : j # k => new.entries[j] = idx.entries[j]
      BY <2>1, <2>2, WithoutBucketIs
    <3> HIDE DEF new
    <3>2. \A j \in Values : \A e \in new.entries[j] : e \in idx.entries[j]
      BY <3>1
    <3>3. \A j \in Values \ new.keys : new.entries[j] = {}
      BY <3>1 DEF Shaped
    <3>4. QED
      BY <3>1, <3>2, <3>3, FewerShaped DEF new
  <2>7. Shaped(WithBucket(idx, k, b))
    <3> DEFINE new == WithBucket(idx, k, b)
    <3>1. /\ new \in Indices /\ new.keys = idx.keys \cup {k} /\ new.entries[k] = b.entries
          /\ \A j \in Values : j # k => new.entries[j] = idx.entries[j]
      BY <2>1, <2>2, <2>4, <2>5, WithBucketIs
    <3> HIDE DEF new
    <3>2. \A j \in Values : \A e \in new.entries[j] : e \in idx.entries[j]
      BY <2>4, <3>1
    <3>3. \A j \in Values \ new.keys : new.entries[j] = {}
      BY <2>2, <3>1 DEF Shaped
    <3>4. new.keys = idx.keys
      BY <2>2, <3>1
    <3>5. QED
      BY <3>1, <3>2, <3>3, <3>4, FewerShaped DEF new
  <2>8. QED
    BY <1>2, <2>6, <2>7 DEF RemoveFrom, rest, b, k
<1>3. QED
  BY <1>1, <1>2

\* Entries by id and number, of the buckets of an index.
Holds(idx, i, v) == \E k \in idx.keys : <<v, i>> \in idx.entries[k]

\* The number an id has is in the bucket that covers it.
LEMMA Found ==
  ASSUME NEW idx, Shaped(idx), NEW v \in Values, NEW id \in Ids, Holds(idx, id, v)
  PROVE  /\ AtOrBefore(idx.keys, v) # {}
         /\ <<v, id>> \in idx.entries[Covering(idx.keys, v)]
<1>1. PICK k \in idx.keys : <<v, id>> \in idx.entries[k]
  BY DEF Holds
<1>2. k <= v /\ \A j \in idx.keys : j <= v => j <= k
  BY <1>1 DEF Shaped
<1>3. AtOrBefore(idx.keys, v) # {} /\ idx.keys \subseteq Values
  BY <1>2 DEF AtOrBefore, Shaped, Indices
<1>4. /\ Covering(idx.keys, v) \in idx.keys /\ Covering(idx.keys, v) <= v
      /\ \A j \in idx.keys : j <= v => j <= Covering(idx.keys, v)
  BY <1>3, CoveringIs
<1>5. k = Covering(idx.keys, v)
  <2>1. k \in Nat /\ Covering(idx.keys, v) \in Nat
    BY <1>3, <1>4, NumericAssumption
  <2>2. k <= Covering(idx.keys, v) /\ Covering(idx.keys, v) <= k
    BY <1>2, <1>4
  <2>3. QED
    BY <2>1, <2>2
<1>6. QED
  BY <1>1, <1>3, <1>5

LEMMA RemoveExact ==
  ASSUME NEW idx, Shaped(idx), NEW fwd \in [Ids -> Values \cup {None}], Exact(idx, fwd),
         NEW v \in Values, NEW id \in Ids, fwd[id] = v
  PROVE  Exact(RemoveFrom(idx, v, id), [fwd EXCEPT ![id] = None])
<1> DEFINE k == Covering(idx.keys, v)
           rest == {e \in idx.entries[k] : e[2] # id}
           b == Bucket(rest, idx.bitmap[k] \ {id})
           new == RemoveFrom(idx, v, id)
           fnew == [fwd EXCEPT ![id] = None]
<1>1. AtOrBefore(idx.keys, v) # {} /\ <<v, id>> \in idx.entries[k]
  <2>1. Holds(idx, id, v)
    BY DEF Exact, Holds
  <2>2. QED
    BY <2>1, Found
<1>2. idx \in Indices /\ idx.keys \subseteq Values
  BY DEF Shaped, Indices
<1>3. k \in idx.keys /\ k \in Values
  BY <1>1, <1>2, CoveringIs
<1>4. /\ rest \subseteq idx.entries[k] /\ idx.entries[k] \subseteq Values \X Ids
      /\ idx.bitmap[k] \subseteq Ids /\ Small(idx.entries[k]) /\ idx.bitmap[k] = IdsOf(idx.entries[k])
  BY <1>2, <1>3 DEF Indices, Exact
<1>5. Small(rest)
  <2>1. IsFiniteSet(rest) /\ Cardinality(rest) <= Cardinality(idx.entries[k])
    BY <1>4, FS_Subset DEF Small
  <2>2. Cardinality(rest) \in Nat /\ Cardinality(idx.entries[k]) \in Nat
    BY <2>1, <1>4, FS_CardinalityType DEF Small
  <2>3. QED
    BY <2>1, <2>2, <1>4, NumericAssumption DEF Small
<1>6. b.entries = rest /\ b.bitmap = IdsOf(rest) /\ b.bitmap \subseteq Ids /\ rest \subseteq Values \X Ids
  <2>1. Cardinality(rest) # CountMod
    <3>1. Cardinality(rest) \in Nat /\ CountMod \in Nat
      BY <1>5, FS_CardinalityType, NumericAssumption DEF Small
    <3>2. QED
      BY <3>1, <1>5 DEF Small
  <2>2. idx.bitmap[k] \ {id} = IdsOf(rest)
    BY <1>4 DEF IdsOf
  <2> HIDE DEF rest
  <2>3. QED
    BY <1>4, <2>1, <2>2 DEF Bucket, Kept
<1>7. new = IF rest = {} THEN WithoutBucket(idx, k) ELSE WithBucket(idx, k, b)
  <2>1. id \in IdsOf(idx.entries[k])
    BY <1>1 DEF IdsOf
  <2>2. QED
    BY <1>1, <2>1 DEF RemoveFrom
<1>8. \A i \in Ids, u \in Values : <<u, i>> \in rest <=> <<u, i>> \in idx.entries[k] /\ i # id
  OBVIOUS
<1> HIDE DEF k, rest, b, new, fnew
<1>9. /\ new.keys \subseteq idx.keys /\ \A j \in idx.keys : j # k => j \in new.keys
      /\ \A j \in new.keys : new.entries[j] = IF j = k THEN rest ELSE idx.entries[j]
      /\ \A j \in new.keys : new.bitmap[j] = IF j = k THEN IdsOf(rest) ELSE idx.bitmap[j]
      /\ k \notin new.keys => rest = {}
  <2>1. CASE rest = {}
    BY <2>1, <1>2, <1>3, <1>7, WithoutBucketIs
  <2>2. CASE rest # {}
    <3>1. new = WithBucket(idx, k, b)
      BY <1>7, <2>2
    <3>2. b.entries \subseteq Values \X Ids
      BY <1>6
    <3>3. /\ new.keys = idx.keys \cup {k}
          /\ new.entries[k] = b.entries /\ new.bitmap[k] = b.bitmap
          /\ \A j \in Values : j # k => /\ new.entries[j] = idx.entries[j]
                                        /\ new.bitmap[j] = idx.bitmap[j]
      BY <1>2, <1>3, <1>6, <3>1, <3>2, WithBucketIs
    <3>4. QED
      BY <1>2, <1>3, <1>6, <2>2, <3>3
  <2>3. QED
    BY <2>1, <2>2
<1>10. \A j \in new.keys : Small(new.entries[j]) /\ new.bitmap[j] = IdsOf(new.entries[j])
  BY <1>5, <1>9 DEF Exact
<1>11. ASSUME NEW i \in Ids, NEW u \in Values
       PROVE  fnew[i] = u <=> \E j \in new.keys : <<u, i>> \in new.entries[j]
  <2>1. fwd[i] = u <=> \E j \in idx.keys : <<u, i>> \in idx.entries[j]
    BY DEF Exact
  <2>2. CASE i = id
    <3>1. fnew[i] = None /\ None \notin Values
      BY <2>2, NumericAssumption DEF fnew, None
    <3>2. ASSUME NEW j \in new.keys, <<u, i>> \in new.entries[j]
          PROVE  FALSE
      <4>1. j # k
        BY <1>8, <1>9, <2>2, <3>2
      <4>2. j \in idx.keys /\ <<u, i>> \in idx.entries[j]
        BY <1>9, <3>2, <4>1
      <4>3. u = v
        BY <2>1, <2>2, <4>2
      <4>4. /\ v \in Nat /\ j \in Nat /\ k \in Nat
            /\ j <= v /\ k <= j
        BY <1>2, <1>3, <4>2, <4>3, <1>1, NumericAssumption, Shaped(idx) DEF Shaped
      <4>5. k <= v /\ j <= k
        BY <1>1, <1>2, <4>2, <4>4, CoveringIs DEF k
      <4>6. QED
        BY <4>1, <4>4, <4>5
    <3>3. QED
      BY <3>1, <3>2
  <2>3. CASE i # id
    <3>1. fnew[i] = fwd[i]
      BY <2>3 DEF fnew
    <3>2. ASSUME NEW j \in new.keys, <<u, i>> \in new.entries[j]
          PROVE  \E l \in idx.keys : <<u, i>> \in idx.entries[l]
      BY <1>3, <1>8, <1>9, <3>2
    <3>3. ASSUME NEW j \in idx.keys, <<u, i>> \in idx.entries[j]
          PROVE  \E l \in new.keys : <<u, i>> \in new.entries[l]
      BY <1>3, <1>8, <1>9, <2>3, <3>3
    <3>4. QED
      BY <2>1, <3>1, <3>2, <3>3
  <2>4. QED
    BY <2>2, <2>3
<1>12. QED
  BY <1>10, <1>11 DEF Exact, new, fnew

(***************************************************************************)
(* An addition: the shape of the index.                                    *)
(***************************************************************************)
LEMMA Numbers ==
  ASSUME NEW idx, Shaped(idx)
  PROVE  /\ idx \in Indices /\ idx.keys \subseteq Values /\ idx.keys \subseteq Nat
         /\ \A k \in Values : /\ idx.entries[k] \subseteq Values \X Ids /\ idx.bitmap[k] \subseteq Ids
                              /\ \A e \in idx.entries[k] : e[1] \in Nat
<1>1. idx \in Indices /\ idx.keys \subseteq Values /\ idx.keys \subseteq Nat /\ Values \subseteq Nat
  BY NumericAssumption DEF Shaped, Indices
<1>2. ASSUME NEW k \in Values
      PROVE  /\ idx.entries[k] \subseteq Values \X Ids /\ idx.bitmap[k] \subseteq Ids
             /\ \A e \in idx.entries[k] : e[1] \in Nat
  <2>1. idx.entries[k] \subseteq Values \X Ids /\ idx.bitmap[k] \subseteq Ids
    BY <1>1 DEF Indices
  <2>2. QED
    BY <1>1, <2>1
<1>3. QED
  BY <1>1, <1>2

LEMMA NewShaped ==
  ASSUME NEW idx, Shaped(idx), NEW v \in Values, NEW id \in Ids, ~InReach(idx, v)
  PROVE  v \notin idx.keys /\ Shaped(WithBucket(idx, v, Bucket({<<v, id>>}, {id})))
<1> DEFINE b == Bucket({<<v, id>>}, {id})
           new == WithBucket(idx, v, b)
<1>1. idx \in Indices /\ idx.keys \subseteq Values /\ idx.keys \subseteq Nat /\ v \in Nat /\ MaxDelta \in Nat
  BY Numbers, NumericAssumption
<1>2. \A k \in idx.keys : k <= v => k + MaxDelta < v
  <2>1. CASE AtOrBefore(idx.keys, v) = {}
    BY <2>1 DEF AtOrBefore
  <2>2. CASE AtOrBefore(idx.keys, v) # {}
    <3>1. ~(v - Covering(idx.keys, v) <= MaxDelta)
      BY <2>2 DEF InReach
    <3>2. Covering(idx.keys, v) \in idx.keys /\ \A j \in idx.keys : j <= v => j <= Covering(idx.keys, v)
      BY <1>1, <2>2, CoveringIs
    <3>3. QED
      BY <1>1, <3>1, <3>2
  <2>3. QED
    BY <2>1, <2>2
<1>3. v \notin idx.keys
  BY <1>1, <1>2
<1>4. b.entries \subseteq {<<v, id>>} /\ b.bitmap = {id}
  BY DEF Bucket, Kept
<1>5. b.entries \subseteq Values \X Ids /\ b.bitmap \subseteq Ids
  BY <1>4
<1> HIDE DEF b
<1>6. /\ new \in Indices /\ new.keys = idx.keys \cup {v} /\ new.entries[v] = b.entries
      /\ \A j \in Values : j # v => new.entries[j] = idx.entries[j]
  BY <1>1, <1>5, WithBucketIs
<1> HIDE DEF new
<1>7. ASSUME NEW k \in new.keys, NEW e \in new.entries[k], NEW j \in new.keys
      PROVE  k <= e[1] /\ e[1] <= k + MaxDelta /\ (j <= e[1] => j <= k)
  <2>1. CASE k = v
    <3>1. e[1] = v
      BY <1>4, <1>6, <2>1
    <3>2. QED
      BY <1>1, <2>1, <3>1
  <2>2. CASE k # v
    <3>1. k \in idx.keys /\ k \in Values /\ e \in idx.entries[k]
      BY <1>1, <1>6, <2>2
    <3>2. k \in Nat /\ e[1] \in Nat
      BY <1>1, <3>1, Numbers
    <3>3. k <= e[1] /\ e[1] <= k + MaxDelta /\ \A l \in idx.keys : l <= e[1] => l <= k
      BY <3>1 DEF Shaped
    <3>4. CASE j \in idx.keys
      BY <3>3, <3>4
    <3>5. CASE j = v
      BY <1>1, <1>2, <3>1, <3>2, <3>3, <3>5
    <3>6. QED
      BY <1>6, <3>4, <3>5
  <2>3. QED
    BY <2>1, <2>2
<1>8. new.keys # {}
  BY <1>6
<1>9. \A k \in Values \ new.keys : new.entries[k] = {}
  BY <1>6 DEF Shaped
<1>10. QED
  BY <1>3, <1>6, <1>7, <1>8, <1>9 DEF Shaped, new, b

LEMMA JoinShaped ==
  ASSUME NEW idx, Shaped(idx), NEW v \in Values, NEW id \in Ids, InReach(idx, v)
  PROVE  Shaped(Joins(idx, v, id))
<1> DEFINE k == Covering(idx.keys, v)
           b == Bucket(idx.entries[k] \cup {<<v, id>>}, idx.bitmap[k] \cup {id})
           new == WithBucket(idx, k, b)
<1>1. idx \in Indices /\ idx.keys \subseteq Values /\ idx.keys \subseteq Nat /\ v \in Nat /\ MaxDelta \in Nat
  BY Numbers, NumericAssumption
<1>2. /\ k \in idx.keys /\ k \in Values /\ k <= v /\ v <= k + MaxDelta
      /\ \A j \in idx.keys : j <= v => j <= k
  <2>1. AtOrBefore(idx.keys, v) # {} /\ v - k <= MaxDelta
    BY DEF InReach
  <2>2. k \in idx.keys /\ k <= v /\ \A j \in idx.keys : j <= v => j <= k
    BY <1>1, <2>1, CoveringIs
  <2> HIDE DEF k
  <2>3. QED
    BY <1>1, <2>1, <2>2
<1>3. idx.entries[k] \subseteq Values \X Ids /\ idx.bitmap[k] \subseteq Ids
  BY <1>2, Numbers
<1>4. b.entries \subseteq idx.entries[k] \cup {<<v, id>>} /\ b.bitmap = idx.bitmap[k] \cup {id}
  BY DEF Bucket, Kept
<1>5. b.entries \subseteq Values \X Ids /\ b.bitmap \subseteq Ids
  <2> HIDE DEF b, k, new
  <2>1. <<v, id>> \in Values \X Ids
    OBVIOUS
  <2>2. QED
    BY <1>3, <1>4, <2>1
<1> HIDE DEF b
<1>6. /\ new \in Indices /\ new.keys = idx.keys /\ new.entries[k] = b.entries
      /\ \A j \in Values : j # k => new.entries[j] = idx.entries[j]
  <2>1. idx.keys \cup {k} = idx.keys
    BY <1>2
  <2>2. /\ new \in Indices /\ new.keys = idx.keys \cup {k} /\ new.entries[k] = b.entries
        /\ \A j \in Values : j # k => new.entries[j] = idx.entries[j]
    BY <1>1, <1>2, <1>5, WithBucketIs
  <2> HIDE DEF k, new
  <2>3. QED
    BY <2>1, <2>2
<1>7. Joins(idx, v, id) = new
  BY DEF Joins, b
<1> HIDE DEF new, k
<1>8. ASSUME NEW l \in new.keys, NEW e \in new.entries[l]
      PROVE  l <= e[1] /\ e[1] <= l + MaxDelta /\ \A j \in new.keys : j <= e[1] => j <= l
  <2>1. CASE e \in idx.entries[l]
    BY <1>6, <2>1 DEF Shaped
  <2>2. CASE ~(e \in idx.entries[l])
    <3>1. l = k /\ e = <<v, id>>
      BY <1>1, <1>4, <1>6, <2>2
    <3>2. QED
      BY <1>2, <1>6, <3>1
  <2>3. QED
    BY <2>1, <2>2
<1>9. \A j \in Values \ new.keys : new.entries[j] = {}
  BY <1>2, <1>6 DEF Shaped
<1>10. QED
  BY <1>6, <1>7, <1>8, <1>9 DEF Shaped

\* Where a full bucket is split: after its key, in its reach, and where no bucket starts.
LEMMA SplitPoint ==
  ASSUME NEW idx, Shaped(idx), NEW k \in idx.keys, Splits(idx.entries[k]) # {}
  PROVE  LET at == SplitAt(idx.entries[k])
         IN  /\ at \in Values /\ k < at /\ at <= k + MaxDelta /\ at \notin idx.keys
             /\ \E e \in idx.entries[k] : e[1] = at
             /\ \E e \in idx.entries[k] : e[1] < at
<1> DEFINE at == SplitAt(idx.entries[k])
<1>1. /\ k \in Values /\ k \in Nat /\ MaxDelta \in Nat /\ k + MaxDelta \in Nat
      /\ idx.entries[k] \subseteq Values \X Ids /\ Values \subseteq Nat
  BY Numbers, NumericAssumption
<1>2. \A e \in idx.entries[k] :
        k <= e[1] /\ e[1] <= k + MaxDelta /\ \A j \in idx.keys : j <= e[1] => j <= k
  BY DEF Shaped
<1>3. at \in Values /\ (\E e \in idx.entries[k] : e[1] = at) /\ \E e \in idx.entries[k] : e[1] < at
  BY <1>1, <1>2, SplitIs
<1> HIDE DEF at
<1>4. k < at
  <2>1. PICK e \in idx.entries[k] : e[1] < at
    BY <1>3
  <2>2. k <= e[1] /\ e[1] \in Nat /\ at \in Nat
    BY <1>1, <1>2, <1>3, <2>1
  <2>3. QED
    BY <1>1, <2>1, <2>2
<1>5. at <= k + MaxDelta /\ at \notin idx.keys
  <2>1. PICK e \in idx.entries[k] : e[1] = at
    BY <1>3
  <2>2. at <= k + MaxDelta /\ \A j \in idx.keys : j <= at => j <= k
    BY <1>2, <2>1
  <2>3. at \in Nat
    BY <1>1, <1>3
  <2>4. QED
    BY <1>1, <1>4, <2>2, <2>3
<1>6. QED
  BY <1>3, <1>4, <1>5 DEF at

\* The two halves of a split.
LeftOf(old, at, v, id) == Below(old, at) \cup (IF v < at THEN {<<v, id>>} ELSE {})
RightOf(old, at, v, id) == (old \ Below(old, at)) \cup (IF v >= at THEN {<<v, id>>} ELSE {})

\* What a split leaves: the bucket k is now two.
Halved(idx, k, at, left, right, new) ==
  /\ new \in Indices /\ new.keys = idx.keys \cup {k, at}
  /\ new.entries[k] = Kept(left) /\ new.bitmap[k] = IdsOf(left)
  /\ new.entries[at] = Kept(right) /\ new.bitmap[at] = IdsOf(right)
  /\ \A j \in Values \ {k, at} : new.entries[j] = idx.entries[j] /\ new.bitmap[j] = idx.bitmap[j]

LEMMA SplitLeaves ==
  ASSUME NEW idx, Shaped(idx), NEW k \in idx.keys, Splits(idx.entries[k]) # {},
         NEW v \in Values, NEW id \in Ids
  PROVE  LET at == SplitAt(idx.entries[k])
         IN  Halved(idx, k, at, LeftOf(idx.entries[k], at, v, id), RightOf(idx.entries[k], at, v, id),
                    Split(idx, k, v, id))
<1> DEFINE at == SplitAt(idx.entries[k])
           left == LeftOf(idx.entries[k], at, v, id)
           right == RightOf(idx.entries[k], at, v, id)
           lb == Bucket(left, IdsOf(left))
           rb == Bucket(right, IdsOf(right))
           mid == WithBucket(idx, k, lb)
           new == WithBucket(mid, at, rb)
<1>1. new = Split(idx, k, v, id)
  BY DEF Split, LeftOf, RightOf
<1>2. idx \in Indices /\ k \in Values /\ idx.entries[k] \subseteq Values \X Ids
  BY Numbers
<1>3. k \in Nat /\ at \in Nat /\ at \in Values /\ k < at
  BY <1>2, SplitPoint, NumericAssumption
<1> HIDE DEF at
<1>4. left \subseteq Values \X Ids /\ right \subseteq Values \X Ids
  BY <1>2 DEF LeftOf, RightOf, Below
<1> HIDE DEF left, right
<1>5. /\ lb.entries = Kept(left) /\ lb.entries \subseteq Values \X Ids
      /\ lb.bitmap = IdsOf(left) /\ lb.bitmap \subseteq Ids
  BY <1>4 DEF Bucket, Kept, IdsOf
<1>6. /\ rb.entries = Kept(right) /\ rb.entries \subseteq Values \X Ids
      /\ rb.bitmap = IdsOf(right) /\ rb.bitmap \subseteq Ids
  BY <1>4 DEF Bucket, Kept, IdsOf
<1> HIDE DEF lb, rb
<1>7. /\ mid \in Indices /\ mid.keys = idx.keys \cup {k}
      /\ mid.entries[k] = Kept(left) /\ mid.bitmap[k] = IdsOf(left)
      /\ \A j \in Values : j # k => mid.entries[j] = idx.entries[j] /\ mid.bitmap[j] = idx.bitmap[j]
  BY <1>2, <1>5, WithBucketIs
<1> HIDE DEF mid
<1>8. /\ new \in Indices /\ new.keys = mid.keys \cup {at}
      /\ new.entries[at] = Kept(right) /\ new.bitmap[at] = IdsOf(right)
      /\ \A j \in Values : j # at => new.entries[j] = mid.entries[j] /\ new.bitmap[j] = mid.bitmap[j]
  BY <1>3, <1>6, <1>7, WithBucketIs
<1> HIDE DEF new
<1>9. Halved(idx, k, at, left, right, new)
  <2>1. k # at
    BY <1>3
  <2>2. new.keys = idx.keys \cup {k, at}
    BY <1>7, <1>8
  <2>3. new.entries[k] = mid.entries[k] /\ new.bitmap[k] = mid.bitmap[k]
    BY <1>2, <1>8, <2>1
  <2>4. \A j \in Values \ {k, at} : new.entries[j] = idx.entries[j] /\ new.bitmap[j] = idx.bitmap[j]
    BY <1>7, <1>8
  <2>5. QED
    BY <1>7, <1>8, <2>2, <2>3, <2>4 DEF Halved
<1>10. QED
  BY <1>1, <1>9 DEF at, left, right

LEMMA SplitShaped ==
  ASSUME NEW idx, Shaped(idx), NEW k \in idx.keys, Splits(idx.entries[k]) # {},
         NEW v \in Values, NEW id \in Ids,
         k <= v, v <= k + MaxDelta, \A j \in idx.keys : j <= v => j <= k
  PROVE  Shaped(Split(idx, k, v, id))
<1> DEFINE old == idx.entries[k]
           at == SplitAt(old)
           left == LeftOf(old, at, v, id)
           right == RightOf(old, at, v, id)
           new == Split(idx, k, v, id)
<1>1. /\ idx.keys \subseteq Values /\ idx.keys \subseteq Nat /\ Values \subseteq Nat /\ MaxDelta \in Nat
      /\ \A j \in Values : \A e \in idx.entries[j] : e[1] \in Nat
  BY Numbers, NumericAssumption
<1>2. k \in Nat /\ at \in Nat /\ at \in Values /\ k < at /\ at <= k + MaxDelta /\ at \notin idx.keys
  BY <1>1, SplitPoint
<1>3. Halved(idx, k, at, left, right, new)
  BY SplitLeaves
<1> HIDE DEF at, new
<1>4. \A l \in idx.keys : \A e \in idx.entries[l] :
        l <= e[1] /\ e[1] <= l + MaxDelta /\ \A j \in idx.keys : j <= e[1] => j <= l
  BY DEF Shaped
<1>5. \A e \in old \cup {<<v, id>>} :
        /\ e[1] \in Nat /\ k <= e[1] /\ e[1] <= k + MaxDelta
        /\ \A j \in idx.keys : j <= e[1] => j <= k
  BY <1>1, <1>4
<1>6. /\ \A e \in Kept(left) : e \in old \cup {<<v, id>>} /\ e[1] < at
      /\ \A e \in Kept(right) : e \in old \cup {<<v, id>>} /\ ~(e[1] < at)
  <2>1. /\ \A e \in left : e \in old \cup {<<v, id>>} /\ e[1] < at
        /\ \A e \in right : e \in old \cup {<<v, id>>} /\ ~(e[1] < at)
    BY <1>1, <1>2 DEF LeftOf, RightOf, Below
  <2> HIDE DEF left, right
  <2>2. QED
    BY <2>1 DEF Kept
<1> HIDE DEF left, right, old
<1>7. ASSUME NEW l \in new.keys, NEW e \in new.entries[l], NEW j \in new.keys
      PROVE  l <= e[1] /\ e[1] <= l + MaxDelta /\ (j <= e[1] => j <= l)
  <2>1. j \in idx.keys \/ j = at
    BY <1>3 DEF Halved
  <2>2. CASE l = k
    <3>1. e \in old \cup {<<v, id>>} /\ e[1] < at
      BY <1>3, <1>6, <2>2 DEF Halved
    <3>2. /\ e[1] \in Nat /\ k <= e[1] /\ e[1] <= k + MaxDelta
          /\ \A i \in idx.keys : i <= e[1] => i <= k
      BY <1>5, <3>1
    <3>3. QED
      BY <1>2, <2>1, <2>2, <3>1, <3>2
  <2>3. CASE l = at
    <3>1. e \in old \cup {<<v, id>>} /\ ~(e[1] < at)
      BY <1>3, <1>6, <2>3 DEF Halved
    <3>2. /\ e[1] \in Nat /\ k <= e[1] /\ e[1] <= k + MaxDelta
          /\ \A i \in idx.keys : i <= e[1] => i <= k
      BY <1>5, <3>1
    <3>3. j \in Nat
      BY <1>1, <1>2, <2>1
    <3>4. QED
      BY <1>1, <1>2, <2>1, <2>3, <3>1, <3>2, <3>3
  <2>4. CASE l # k /\ l # at
    <3>1. l \in idx.keys /\ e \in idx.entries[l] /\ l \in Nat /\ e[1] \in Nat
      BY <1>1, <1>3, <2>4 DEF Halved
    <3>2. l <= e[1] /\ e[1] <= l + MaxDelta /\ \A i \in idx.keys : i <= e[1] => i <= l
      BY <1>4, <3>1
    <3>3. at <= e[1] => at <= l
      <4>1. at <= e[1] => k <= l
        BY <1>2, <3>1, <3>2
      <4>2. l <= at => l <= k
        <5>1. PICK f \in idx.entries[k] : f[1] = at
          BY SplitPoint DEF at, old
        <5>2. QED
          BY <1>4, <3>1, <5>1
      <4>3. QED
        BY <1>2, <2>4, <3>1, <4>1, <4>2
    <3>4. QED
      BY <2>1, <3>2, <3>3
  <2>5. QED
    BY <2>2, <2>3, <2>4
<1>8. \A l \in Values \ new.keys : new.entries[l] = {}
  BY <1>3 DEF Shaped, Halved
<1>9. QED
  <2>1. \A l \in new.keys : \A e \in new.entries[l] :
          l <= e[1] /\ e[1] <= l + MaxDelta /\ \A j \in new.keys : j <= e[1] => j <= l
    BY <1>7
  <2>2. QED
    BY <1>3, <1>8, <2>1 DEF Shaped, new, Halved

\* An addition puts entries where they are found.
LEMMA AddShaped ==
  ASSUME NEW idx, Shaped(idx), NEW v \in Values, NEW id \in Ids
  PROVE  Shaped(AddTo(idx, v, id))
<1> DEFINE k == Covering(idx.keys, v)
<1>1. CASE ~InReach(idx, v)
  BY <1>1, NewShaped DEF AddTo
<1>2. CASE InReach(idx, v)
  <2>1. Shaped(Joins(idx, v, id))
    BY <1>2, JoinShaped
  <2>2. Splits(idx.entries[k]) # {} => Shaped(Split(idx, k, v, id))
    <3>1. idx.keys \subseteq Values /\ AtOrBefore(idx.keys, v) # {} /\ v - k <= MaxDelta
      BY <1>2, Numbers DEF InReach
    <3>2. k \in idx.keys /\ k <= v /\ \A j \in idx.keys : j <= v => j <= k
      BY <3>1, CoveringIs
    <3> HIDE DEF k
    <3>3. k \in Nat /\ v \in Nat /\ MaxDelta \in Nat
      BY <3>1, <3>2, NumericAssumption
    <3>4. v <= k + MaxDelta
      BY <3>1, <3>3
    <3>5. QED
      BY <3>2, <3>4, SplitShaped
  <2>3. QED
    BY <1>2, <2>1, <2>2 DEF AddTo
<1>3. QED
  BY <1>1, <1>2

(***************************************************************************)
(* An addition: the numbers the index holds.                               *)
(***************************************************************************)
LEMMA AddedExact ==
  ASSUME NEW idx, NEW fwd \in [Ids -> Values \cup {None}], Exact(idx, fwd),
         NEW v \in Values, NEW id \in Ids, fwd[id] = None, NEW new,
         \A k \in new.keys : Small(new.entries[k]) /\ new.bitmap[k] = IdsOf(new.entries[k]),
         \A i \in Ids, u \in Values : Holds(new, i, u) <=> Holds(idx, i, u) \/ (i = id /\ u = v)
  PROVE  Exact(new, [fwd EXCEPT ![id] = v])
<1> DEFINE fnew == [fwd EXCEPT ![id] = v]
<1>1. ASSUME NEW i \in Ids, NEW u \in Values
      PROVE  fnew[i] = u <=> Holds(new, i, u)
  <2>1. fwd[i] = u <=> Holds(idx, i, u)
    BY DEF Exact, Holds
  <2>2. None # u
    BY NumericAssumption DEF None
  <2>3. CASE i = id
    BY <2>1, <2>2, <2>3
  <2>4. CASE i # id
    BY <2>1, <2>4
  <2>5. QED
    BY <2>3, <2>4
<1>2. QED
  BY <1>1 DEF Exact, Holds

\* A bucket of few entries is read back as it is stored.
LEMMA SmallKept ==
  ASSUME NEW S, Small(S)
  PROVE  Kept(S) = S
<1>1. Cardinality(S) \in Nat /\ CountMod \in Nat /\ Cardinality(S) < CountMod
  BY FS_CardinalityType, NumericAssumption DEF Small
<1>2. QED
  BY <1>1 DEF Kept

LEMMA NewExact ==
  ASSUME NEW idx, Shaped(idx), NEW fwd \in [Ids -> Values \cup {None}], Exact(idx, fwd),
         NEW v \in Values, NEW id \in Ids, fwd[id] = None, ~InReach(idx, v)
  PROVE  Exact(WithBucket(idx, v, Bucket({<<v, id>>}, {id})), [fwd EXCEPT ![id] = v])
<1> DEFINE b == Bucket({<<v, id>>}, {id})
           new == WithBucket(idx, v, b)
<1>1. idx \in Indices /\ idx.keys \subseteq Values /\ v \notin idx.keys
  BY Numbers, NewShaped
<1>2. Small({<<v, id>>})
  <2>1. IsFiniteSet({<<v, id>>}) /\ Cardinality({<<v, id>>}) = 1
    BY FS_Singleton
  <2>2. 1 < CountMod
    BY NumericAssumption
  <2>3. QED
    BY <2>1, <2>2 DEF Small
<1>3. b.entries = {<<v, id>>} /\ b.bitmap = {id} /\ b.bitmap = IdsOf(b.entries)
  <2>1. b.entries = {<<v, id>>} /\ b.bitmap = {id}
    BY <1>2, SmallKept DEF Bucket
  <2>2. IdsOf({<<v, id>>}) = {id}
    BY DEF IdsOf
  <2>3. QED
    BY <2>1, <2>2
<1> HIDE DEF b
<1>4. /\ new.keys = idx.keys \cup {v} /\ new.entries[v] = b.entries /\ new.bitmap[v] = b.bitmap
      /\ \A j \in Values : j # v => new.entries[j] = idx.entries[j] /\ new.bitmap[j] = idx.bitmap[j]
  <2>1. b.entries \subseteq Values \X Ids /\ b.bitmap \subseteq Ids
    BY <1>3
  <2>2. QED
    BY <1>1, <2>1, WithBucketIs
<1> HIDE DEF new
<1>5. \A k \in new.keys : Small(new.entries[k]) /\ new.bitmap[k] = IdsOf(new.entries[k])
  <2> TAKE k \in new.keys
  <2>1. CASE k = v
    BY <1>2, <1>3, <1>4, <2>1
  <2>2. CASE k # v
    <3>1. k \in idx.keys /\ k \in Values
      BY <1>1, <1>4, <2>2
    <3>2. QED
      BY <1>4, <2>2, <3>1 DEF Exact
  <2>3. QED
    BY <2>1, <2>2
<1>6. \A i \in Ids, u \in Values : Holds(new, i, u) <=> Holds(idx, i, u) \/ (i = id /\ u = v)
  <2> TAKE i \in Ids, u \in Values
  <2>1. <<u, i>> \in b.entries <=> i = id /\ u = v
    BY <1>3
  <2>2. QED
    BY <1>1, <1>4, <2>1 DEF Holds
<1>7. QED
  BY <1>5, <1>6, AddedExact DEF new, b

LEMMA JoinExact ==
  ASSUME NEW idx, Shaped(idx), NEW fwd \in [Ids -> Values \cup {None}], Exact(idx, fwd),
         NEW v \in Values, NEW id \in Ids, fwd[id] = None, InReach(idx, v),
         Cardinality(idx.entries[Covering(idx.keys, v)]) + 1 < CountMod
  PROVE  Exact(Joins(idx, v, id), [fwd EXCEPT ![id] = v])
<1> DEFINE k == Covering(idx.keys, v)
           more == idx.entries[k] \cup {<<v, id>>}
           b == Bucket(more, idx.bitmap[k] \cup {id})
           new == WithBucket(idx, k, b)
<1>1. idx \in Indices /\ idx.keys \subseteq Values
  BY Numbers
<1>2. k \in idx.keys /\ k \in Values
  <2>1. AtOrBefore(idx.keys, v) # {}
    BY DEF InReach
  <2>2. QED
    BY <1>1, <2>1, CoveringIs
<1>3. /\ idx.entries[k] \subseteq Values \X Ids /\ idx.bitmap[k] \subseteq Ids
      /\ IsFiniteSet(idx.entries[k]) /\ idx.bitmap[k] = IdsOf(idx.entries[k])
  BY <1>2, Numbers DEF Exact, Small
<1>4. Joins(idx, v, id) = new
  BY DEF Joins
<1>5. Cardinality(idx.entries[k]) + 1 < CountMod
  OBVIOUS
<1> HIDE DEF k
<1>6. Small(more)
  <2>1. /\ IsFiniteSet(more)
        /\ Cardinality(more) = IF <<v, id>> \in idx.entries[k] THEN Cardinality(idx.entries[k])
                                                               ELSE Cardinality(idx.entries[k]) + 1
    BY <1>3, FS_AddElement
  <2>2. Cardinality(idx.entries[k]) \in Nat /\ CountMod \in Nat
    BY <1>3, FS_CardinalityType, NumericAssumption
  <2> HIDE DEF more
  <2>3. QED
    BY <1>5, <2>1, <2>2 DEF Small
<1>7. IdsOf(more) = idx.bitmap[k] \cup {id}
  <2>1. IdsOf(more) = IdsOf(idx.entries[k]) \cup IdsOf({<<v, id>>})
    BY DEF IdsOf
  <2>2. IdsOf({<<v, id>>}) = {id}
    BY DEF IdsOf
  <2>3. QED
    BY <1>3, <2>1, <2>2
<1>8. more \subseteq Values \X Ids
  BY <1>3
<1>9. \A i \in Ids, u \in Values : <<u, i>> \in more <=> <<u, i>> \in idx.entries[k] \/ (i = id /\ u = v)
  OBVIOUS
<1> HIDE DEF more
<1>10. b.entries = more /\ b.bitmap = IdsOf(more) /\ b.bitmap \subseteq Ids
  BY <1>3, <1>6, <1>7, SmallKept DEF Bucket
<1> HIDE DEF b
<1>11. /\ new.keys = idx.keys \cup {k} /\ new.entries[k] = more /\ new.bitmap[k] = IdsOf(more)
       /\ \A j \in Values : j # k => new.entries[j] = idx.entries[j] /\ new.bitmap[j] = idx.bitmap[j]
  BY <1>1, <1>2, <1>8, <1>10, WithBucketIs
<1> HIDE DEF new
<1>12. \A j \in new.keys : Small(new.entries[j]) /\ new.bitmap[j] = IdsOf(new.entries[j])
  <2> TAKE j \in new.keys
  <2>1. CASE j = k
    BY <1>6, <1>11, <2>1
  <2>2. CASE j # k
    <3>1. j \in idx.keys /\ j \in Values
      BY <1>1, <1>11, <2>2
    <3>2. QED
      BY <1>11, <2>2, <3>1 DEF Exact
  <2>3. QED
    BY <2>1, <2>2
<1>13. \A i \in Ids, u \in Values : Holds(new, i, u) <=> Holds(idx, i, u) \/ (i = id /\ u = v)
  <2> TAKE i \in Ids, u \in Values
  <2>1. <<u, i>> \in more <=> <<u, i>> \in idx.entries[k] \/ (i = id /\ u = v)
    BY <1>9
  <2>2. QED
    BY <1>1, <1>2, <1>11, <2>1 DEF Holds
<1>14. Exact(new, [fwd EXCEPT ![id] = v])
  BY <1>12, <1>13, AddedExact
<1>15. QED
  BY <1>4, <1>14 DEF new

\* Both halves of a split leave some entry to the other: with the new one, none is larger
\* than the bucket was.
LEMMA HalvesSmall ==
  ASSUME NEW old, Small(old), NEW at, NEW v, NEW id,
         \E e \in old : e[1] = at, \E e \in old : e[1] < at, at \in Nat
  PROVE  Small(LeftOf(old, at, v, id)) /\ Small(RightOf(old, at, v, id))
<1>1. IsFiniteSet(old) /\ Cardinality(old) \in Nat /\ CountMod \in Nat /\ Cardinality(old) < CountMod
  BY FS_CardinalityType, NumericAssumption DEF Small
<1>2. ASSUME NEW part, part \subseteq old, NEW f \in old, f \notin part, NEW x
      PROVE  Small(part) /\ Small(part \cup {x})
  <2>1. IsFiniteSet(part) /\ Cardinality(part) <= Cardinality(old) /\ Cardinality(part) # Cardinality(old)
    BY <1>1, <1>2, FS_Subset
  <2>2. Cardinality(part) \in Nat
    BY <2>1, FS_CardinalityType
  <2>3. /\ IsFiniteSet(part \cup {x})
        /\ Cardinality(part \cup {x}) = Cardinality(part) \/ Cardinality(part \cup {x}) = Cardinality(part) + 1
    BY <2>1, FS_AddElement
  <2>4. Cardinality(part \cup {x}) < CountMod /\ Cardinality(part) < CountMod
    BY <1>1, <2>1, <2>2, <2>3
  <2>5. Small(part) /\ Small(part \cup {x})
    BY <2>1, <2>3, <2>4 DEF Small
  <2>6. QED
    BY <2>5
<1>3. Small(LeftOf(old, at, v, id))
  <2>1. PICK f \in old : f[1] = at
    OBVIOUS
  <2>2. f \notin Below(old, at) /\ Below(old, at) \subseteq old
    BY <2>1 DEF Below
  <2>3. Small(Below(old, at)) /\ Small(Below(old, at) \cup {<<v, id>>})
    BY <1>2, <2>1, <2>2
  <2>4. LeftOf(old, at, v, id) \in {Below(old, at), Below(old, at) \cup {<<v, id>>}}
    BY DEF LeftOf
  <2>5. QED
    BY <2>3, <2>4
<1>4. Small(RightOf(old, at, v, id))
  <2> DEFINE part == old \ Below(old, at)
  <2>1. PICK f \in old : f[1] < at
    OBVIOUS
  <2>2. f \notin part /\ part \subseteq old
    BY <2>1 DEF Below
  <2>3. RightOf(old, at, v, id) \in {part, part \cup {<<v, id>>}}
    BY DEF RightOf
  <2> HIDE DEF part
  <2>4. Small(part) /\ Small(part \cup {<<v, id>>})
    BY <1>2, <2>1, <2>2
  <2>5. QED
    BY <2>3, <2>4
<1>5. QED
  BY <1>3, <1>4

LEMMA SplitExact ==
  ASSUME NEW idx, Shaped(idx), NEW fwd \in [Ids -> Values \cup {None}], Exact(idx, fwd),
         NEW v \in Values, NEW id \in Ids, fwd[id] = None,
         NEW k \in idx.keys, Splits(idx.entries[k]) # {}
  PROVE  Exact(Split(idx, k, v, id), [fwd EXCEPT ![id] = v])
<1> DEFINE old == idx.entries[k]
           at == SplitAt(old)
           left == LeftOf(old, at, v, id)
           right == RightOf(old, at, v, id)
           new == Split(idx, k, v, id)
<1>1. idx.keys \subseteq Values /\ k \in Values /\ old \subseteq Values \X Ids /\ Small(old)
  BY Numbers DEF Exact
<1>2. /\ k \in Nat /\ at \in Nat /\ at \in Values /\ k < at /\ at \notin idx.keys
      /\ (\E e \in old : e[1] = at) /\ \E e \in old : e[1] < at
  BY <1>1, SplitPoint, NumericAssumption
<1>3. Halved(idx, k, at, left, right, new)
  BY SplitLeaves
<1> HIDE DEF at, new
<1>4. \A i \in Ids, u \in Values :
        <<u, i>> \in left \/ <<u, i>> \in right <=> <<u, i>> \in old \/ (i = id /\ u = v)
  <2>1. \A e : e \in left \/ e \in right <=> e \in old \/ e = <<v, id>>
    <3>1. v \in Nat /\ at \in Nat
      BY <1>2, NumericAssumption
    <3>2. v < at <=> ~(v >= at)
      BY <3>1
    <3>3. QED
      BY <3>2 DEF LeftOf, RightOf, Below
  <2>2. QED
    BY <2>1
<1>5. Small(left) /\ Small(right)
  BY <1>1, <1>2, HalvesSmall
<1> HIDE DEF left, right
<1>6. Kept(left) = left /\ Kept(right) = right
  BY <1>5, SmallKept
<1>7. \A j \in new.keys : Small(new.entries[j]) /\ new.bitmap[j] = IdsOf(new.entries[j])
  <2> TAKE j \in new.keys
  <2>1. CASE j = k \/ j = at
    BY <1>3, <1>5, <1>6, <2>1 DEF Halved
  <2>2. CASE j # k /\ j # at
    <3>1. j \in idx.keys /\ j \in Values \ {k, at}
      BY <1>1, <1>3, <2>2 DEF Halved
    <3>2. QED
      BY <1>3, <3>1 DEF Exact, Halved
  <2>3. QED
    BY <2>1, <2>2
<1> HIDE DEF old
<1>8. \A i \in Ids, u \in Values : Holds(new, i, u) <=> Holds(idx, i, u) \/ (i = id /\ u = v)
  <2> TAKE i \in Ids, u \in Values
  <2>1. <<u, i>> \in left \/ <<u, i>> \in right <=> <<u, i>> \in old \/ (i = id /\ u = v)
    BY <1>4
  <2>2. ASSUME Holds(new, i, u) PROVE Holds(idx, i, u) \/ (i = id /\ u = v)
    <3>1. PICK j \in new.keys : <<u, i>> \in new.entries[j]
      BY <2>2 DEF Holds
    <3>2. CASE j = k \/ j = at
      BY <1>3, <1>6, <2>1, <3>1, <3>2 DEF Holds, old, Halved
    <3>3. CASE j # k /\ j # at
      <4>1. j \in idx.keys /\ j \in Values \ {k, at}
        BY <1>1, <1>3, <3>3 DEF Halved
      <4>2. QED
        BY <1>3, <3>1, <4>1 DEF Holds, Halved
    <3>4. QED
      BY <3>2, <3>3
  <2>3. ASSUME Holds(idx, i, u) \/ (i = id /\ u = v) PROVE Holds(new, i, u)
    <3>1. CASE <<u, i>> \in old \/ (i = id /\ u = v)
      BY <1>3, <1>6, <2>1, <3>1 DEF Holds, Halved
    <3>2. CASE ~(<<u, i>> \in old \/ (i = id /\ u = v))
      <4>1. PICK j \in idx.keys : <<u, i>> \in idx.entries[j]
        BY <2>3, <3>2 DEF Holds
      <4>2. j # k /\ j # at /\ j \in Values
        BY <1>1, <1>2, <3>2, <4>1 DEF old
      <4>3. j \in new.keys /\ new.entries[j] = idx.entries[j]
        BY <1>3, <4>2 DEF Halved
      <4>4. QED
        BY <4>1, <4>3 DEF Holds
    <3>3. QED
      BY <3>1, <3>2
  <2>4. QED
    BY <2>2, <2>3
<1>9. Exact(new, [fwd EXCEPT ![id] = v])
  BY <1>7, <1>8, AddedExact
<1>10. QED
  BY <1>9 DEF new

\* An addition that overflows no count keeps the index exact.
LEMMA AddExact ==
  ASSUME NEW idx, Shaped(idx), NEW fwd \in [Ids -> Values \cup {None}], Exact(idx, fwd),
         NEW v \in Values, NEW id \in Ids, fwd[id] = None, ~Overflows(idx, v)
  PROVE  Exact(AddTo(idx, v, id), [fwd EXCEPT ![id] = v])
<1> DEFINE k == Covering(idx.keys, v)
<1>1. CASE ~InReach(idx, v)
  BY <1>1, NewExact DEF AddTo
<1>2. CASE InReach(idx, v)
  <2>1. k \in idx.keys
    <3>1. idx.keys \subseteq Values /\ AtOrBefore(idx.keys, v) # {}
      BY <1>2, Numbers DEF InReach
    <3>2. QED
      BY <3>1, CoveringIs
  <2>2. CASE Full(idx.entries[k]) /\ Splits(idx.entries[k]) # {}
    <3>1. AddTo(idx, v, id) = Split(idx, k, v, id)
      BY <1>2, <2>2 DEF AddTo
    <3> HIDE DEF k
    <3>2. Exact(Split(idx, k, v, id), [fwd EXCEPT ![id] = v])
      BY <2>1, <2>2, SplitExact
    <3>3. QED
      BY <3>1, <3>2
  <2>3. CASE ~(Full(idx.entries[k]) /\ Splits(idx.entries[k]) # {})
    <3>1. AddTo(idx, v, id) = Joins(idx, v, id)
      BY <1>2, <2>3 DEF AddTo
    <3>2. Cardinality(idx.entries[k]) \in Nat /\ Cardinality(idx.entries[k]) < CountMod
      BY <2>1, FS_CardinalityType DEF Exact, Small
    <3>3. Splits(idx.entries[k]) = {} => Cardinality(idx.entries[k]) + 1 # CountMod
      BY <1>2 DEF Overflows
    <3>4. Splits(idx.entries[k]) # {} => ~(Cardinality(idx.entries[k]) >= MaxSize)
      BY <2>3 DEF Full
    <3>5. Cardinality(idx.entries[k]) + 1 < CountMod
      <4>1. MaxSize \in Nat /\ CountMod \in Nat /\ MaxSize < CountMod
        BY NumericAssumption
      <4>2. CASE Splits(idx.entries[k]) = {}
        BY <3>2, <3>3, <4>1, <4>2
      <4>3. CASE Splits(idx.entries[k]) # {}
        BY <3>2, <3>4, <4>1, <4>3
      <4>4. QED
        BY <4>2, <4>3
    <3>6. Exact(Joins(idx, v, id), [fwd EXCEPT ![id] = v])
      BY <1>2, <3>5, JoinExact
    <3>7. QED
      BY <3>1, <3>6
  <2>4. QED
    BY <2>2, <2>3
<1>3. QED
  BY <1>1, <1>2

(***************************************************************************)
(* The invariant is inductive.                                             *)
(***************************************************************************)
LEMMA InitInv == NumericInit => Inv
<1> SUFFICES ASSUME NumericInit PROVE Inv
  OBVIOUS
<1>1. forward \in [Ids -> Values \cup {None}] /\ wrapped \in BOOLEAN
  BY DEF NumericInit
<1>2. Shaped(index)
  BY DEF NumericInit, Shaped, Indices
<1>3. Exact(index, forward)
  <2>1. \A v \in Values : None # v
    BY NumericAssumption DEF None
  <2>2. index.keys = {} /\ \A i \in Ids : forward[i] = None
    BY DEF NumericInit
  <2>3. QED
    BY <2>1, <2>2 DEF Exact
<1>4. QED
  BY <1>1, <1>2, <1>3 DEF Inv

\* The index without an id, before its new number is added.
LEMMA ClearedInv ==
  ASSUME Inv, NEW id \in Ids
  PROVE  /\ Shaped(Cleared(id))
         /\ ~wrapped => Exact(Cleared(id), [forward EXCEPT ![id] = None])
<1>1. Shaped(index) /\ forward \in [Ids -> Values \cup {None}] /\ (~wrapped => Exact(index, forward))
  BY DEF Inv
<1>2. CASE forward[id] = None
  <2>1. Cleared(id) = index /\ [forward EXCEPT ![id] = None] = forward
    BY <1>1, <1>2 DEF Cleared
  <2>2. QED
    BY <1>1, <2>1
<1>3. CASE forward[id] # None
  <2>1. forward[id] \in Values
    BY <1>1, <1>3
  <2>2. Cleared(id) = RemoveFrom(index, forward[id], id)
    BY <1>3 DEF Cleared
  <2>3. Shaped(RemoveFrom(index, forward[id], id))
    BY <1>1, <2>1, RemoveShaped
  <2>4. ~wrapped => Exact(RemoveFrom(index, forward[id], id), [forward EXCEPT ![id] = None])
    BY <1>1, <2>1, RemoveExact
  <2>5. QED
    BY <2>2, <2>3, <2>4
<1>4. QED
  BY <1>2, <1>3

LEMMA PutInv ==
  ASSUME Inv, NEW id \in Ids, NEW v \in Values, Put(id, v)
  PROVE  Inv'
<1>1. CASE forward[id] = v
  BY <1>1 DEF Put, numericVars, Inv, Shaped, Exact, Indices, Small, IdsOf
<1>2. CASE forward[id] # v
  <2> DEFINE cleared == Cleared(id)
             none == [forward EXCEPT ![id] = None]
  <2>1. /\ forward' = [forward EXCEPT ![id] = v] /\ index' = AddTo(cleared, v, id)
        /\ wrapped' = (wrapped \/ Overflows(cleared, v))
    BY <1>2 DEF Put
  <2>2. forward \in [Ids -> Values \cup {None}] /\ wrapped \in BOOLEAN
    BY DEF Inv
  <2>3. Shaped(cleared) /\ (~wrapped => Exact(cleared, none))
    BY ClearedInv
  <2>4. none \in [Ids -> Values \cup {None}] /\ none[id] = None /\ [none EXCEPT ![id] = v] = forward'
    BY <2>1, <2>2
  <2> HIDE DEF cleared, none
  <2>5. Shaped(AddTo(cleared, v, id))
    BY <2>3, AddShaped
  <2>6. ~wrapped' => Exact(AddTo(cleared, v, id), [none EXCEPT ![id] = v])
    BY <2>1, <2>3, <2>4, AddExact
  <2>7. Shaped(index') /\ (~wrapped' => Exact(index', forward'))
    BY <2>1, <2>4, <2>5, <2>6
  <2>8. forward' \in [Ids -> Values \cup {None}] /\ wrapped' \in BOOLEAN
    BY <2>1, <2>2 DEF Overflows, InReach
  <2>9. QED
    BY <2>7, <2>8 DEF Inv, Shaped, Exact, Indices, Small, IdsOf
<1>3. QED
  BY <1>1, <1>2

LEMMA RemoveInv ==
  ASSUME Inv, NEW id \in Ids, Remove(id)
  PROVE  Inv'
<1>1. forward' = [forward EXCEPT ![id] = None] /\ index' = Cleared(id) /\ wrapped' = wrapped
  BY DEF Remove
<1>2. forward \in [Ids -> Values \cup {None}] /\ wrapped \in BOOLEAN
  BY DEF Inv
<1>3. Shaped(index') /\ (~wrapped' => Exact(index', forward'))
  BY <1>1, ClearedInv
<1>4. QED
  BY <1>1, <1>2, <1>3 DEF Inv, Shaped, Exact, Indices, Small, IdsOf

LEMMA NextInv == Inv /\ [NumericNext]_numericVars => Inv'
<1> SUFFICES ASSUME Inv, [NumericNext]_numericVars PROVE Inv'
  OBVIOUS
<1>1. CASE NumericNext
  BY <1>1, PutInv, RemoveInv DEF NumericNext
<1>2. CASE UNCHANGED numericVars
  BY <1>2 DEF numericVars, Inv, Shaped, Exact, Indices, Small, IdsOf
<1>3. QED
  BY <1>1, <1>2

\* In every reachable state the index is well shaped, and exact until a count wraps.
THEOREM AlwaysInv == NumericSpec => []Inv
BY InitInv, NextInv, PTL DEF NumericSpec

LEMMA InvTyped == Inv => NumericInv
<1> SUFFICES ASSUME Inv PROVE NumericInv
  OBVIOUS
<1>1. NumericTypeOK
  BY DEF NumericTypeOK, Inv, Shaped, Indices
<1>2. ASSUME ~wrapped
      PROVE  /\ \A k \in Values \ index.keys : index.entries[k] = {}
             /\ \A k \in index.keys : Placed(k) /\ index.bitmap[k] = IdsOf(index.entries[k])
             /\ \A i \in Ids, v \in Values :
                  forward[i] = v <=> \E k \in index.keys : <<v, i>> \in index.entries[k]
  <2>1. Shaped(index) /\ Exact(index, forward)
    BY <1>2 DEF Inv
  <2>2. \A k \in index.keys : Placed(k)
    BY <2>1 DEF Shaped, Placed
  <2>3. QED
    BY <2>1, <2>2 DEF Shaped, Exact
<1>3. QED
  BY <1>1, <1>2 DEF NumericInv

\* The types, and: until a bucket's count wraps, every entry is in the bucket a lookup of its
\* number leads to, and the buckets hold exactly the numbers of the ids.
THEOREM NumericInvHolds == NumericSpec => []NumericInv
BY AlwaysInv, InvTyped, PTL

LEMMA ExactRanges == Inv => RangeExact
<1> SUFFICES ASSUME Inv, ~wrapped, NEW lo \in Values, NEW hi \in Values, lo <= hi
             PROVE  InRange(lo, hi) = {i \in Ids : CheckRange(i, lo, hi)}
  BY DEF RangeExact
<1>1. Shaped(index) /\ Exact(index, forward) /\ forward \in [Ids -> Values \cup {None}]
  BY DEF Inv
<1>2. index.keys \subseteq Values /\ index.keys \subseteq Nat /\ Values \subseteq Nat
  BY <1>1, Numbers, NumericAssumption
<1>3. \A k \in index.keys :
        /\ index.entries[k] \subseteq Values \X Ids
        /\ InBucket(k, lo, hi) = IdsOf({e \in index.entries[k] : lo <= e[1] /\ e[1] <= hi})
  <2> TAKE k \in index.keys
  <2>1. index.entries[k] \subseteq Values \X Ids /\ index.bitmap[k] = IdsOf(index.entries[k])
    BY <1>1, <1>2, Numbers DEF Exact
  <2>2. CASE \A e \in index.entries[k] : lo <= e[1] /\ e[1] <= hi
    <3>1. {e \in index.entries[k] : lo <= e[1] /\ e[1] <= hi} = index.entries[k]
      BY <2>2
    <3>2. InBucket(k, lo, hi) = IF index.entries[k] = {} THEN {} ELSE index.bitmap[k]
      BY <2>2 DEF InBucket
    <3>3. IdsOf({}) = {}
      BY DEF IdsOf
    <3>4. QED
      BY <2>1, <3>1, <3>2, <3>3
  <2>3. CASE ~(\A e \in index.entries[k] : lo <= e[1] /\ e[1] <= hi)
    BY <2>1, <2>3 DEF InBucket
  <2>4. QED
    BY <2>2, <2>3
<1>4. ASSUME NEW i \in InRange(lo, hi)
      PROVE  i \in Ids /\ CheckRange(i, lo, hi)
  <2>1. PICK k \in Scanned(lo, hi) : i \in InBucket(k, lo, hi)
    BY <1>4 DEF InRange
  <2>2. k \in index.keys
    BY <2>1 DEF Scanned
  <2>3. PICK e \in index.entries[k] : lo <= e[1] /\ e[1] <= hi /\ e[2] = i
    BY <1>3, <2>1, <2>2 DEF IdsOf
  <2>4. e[1] \in Values /\ i \in Ids /\ e = <<e[1], i>>
    <3>1. e \in Values \X Ids
      BY <1>3, <2>2, <2>3
    <3>2. QED
      BY <2>3, <3>1
  <2>5. forward[i] = e[1]
    BY <1>1, <2>2, <2>3, <2>4 DEF Exact
  <2>6. forward[i] # None
    BY <1>2, <2>4, <2>5 DEF None
  <2>7. QED
    BY <2>3, <2>4, <2>5, <2>6 DEF CheckRange
<1>5. ASSUME NEW i \in Ids, CheckRange(i, lo, hi)
      PROVE  i \in InRange(lo, hi)
  <2> DEFINE v == forward[i]
  <2>1. v \in Values /\ lo <= v /\ v <= hi
    BY <1>1, <1>5 DEF CheckRange
  <2>2. PICK k \in index.keys : <<v, i>> \in index.entries[k]
    BY <1>1, <2>1 DEF Exact
  <2>3. k <= v /\ \A j \in index.keys : j <= v => j <= k
    BY <1>1, <2>2 DEF Shaped
  <2> HIDE DEF v
  <2>4. i \in InBucket(k, lo, hi)
    <3>1. <<v, i>> \in {e \in index.entries[k] : lo <= e[1] /\ e[1] <= hi}
      BY <2>1, <2>2
    <3>2. QED
      BY <1>3, <3>1 DEF IdsOf
  <2>5. k \in Nat /\ v \in Nat /\ lo \in Nat /\ hi \in Nat
    BY <1>2, <2>1
  <2>6. k <= hi
    BY <2>1, <2>3, <2>5
  <2>7. ~(lo <= k) => k = Covering(index.keys, lo)
    <3> SUFFICES ASSUME ~(lo <= k) PROVE k = Covering(index.keys, lo)
      OBVIOUS
    <3>1. AtOrBefore(index.keys, lo) # {}
      BY <2>5 DEF AtOrBefore
    <3>2. /\ Covering(index.keys, lo) \in index.keys /\ Covering(index.keys, lo) <= lo
          /\ \A j \in index.keys : j <= lo => j <= Covering(index.keys, lo)
      BY <1>2, <3>1, CoveringIs
    <3>3. Covering(index.keys, lo) \in Nat /\ k <= lo
      BY <1>2, <2>5, <3>2
    <3>4. Covering(index.keys, lo) <= v
      BY <2>1, <2>5, <3>2, <3>3
    <3>5. k <= Covering(index.keys, lo) /\ Covering(index.keys, lo) <= k
      BY <2>3, <3>2, <3>3, <3>4
    <3>6. QED
      BY <2>5, <3>3, <3>5
  <2>8. k \in Scanned(lo, hi)
    BY <2>6, <2>7 DEF Scanned
  <2>9. QED
    BY <2>4, <2>8 DEF InRange
<1>6. QED
  BY <1>4, <1>5

\* Until a bucket's count wraps, a range query finds exactly the ids whose number is in the
\* range, whatever puts and removals came before.
THEOREM RangeExactHolds == NumericSpec => []RangeExact
BY AlwaysInv, ExactRanges, PTL

-------------------------------------------------------------------------------
(* The filters.                                                            *)

Kinds == {"Unknown", "Number", "String", "Bool"}

StatesOK ==
  /\ schema \in [Fields -> Kinds] /\ saved \in [Fields -> Kinds]
  /\ \A fld \in Fields :
       schema[fld] = "Number" \/ saved[fld] = "Number" => fld = NumField
  /\ category \in [Fields \X Texts -> SUBSET Ids]
  /\ meta \in [Ids -> Filters \cup {NoFilter}]
  /\ torn \subseteq Ids /\ saveFailed \in BOOLEAN

\* A change removes what the metadata says, or adds what it already says.
ChangeOK ==
  \/ op = NoChange
  \/ /\ op \in [stage : {"remove", "add"}, id : Ids, old : Filters \cup {NoFilter},
                new : Filters \cup {NoFilter}, todo : SUBSET Fields]
     /\ op.stage = "remove" => meta[op.id] = op.old /\ op.todo \subseteq FieldsOf(op.old)
     /\ op.stage = "add" => meta[op.id] = op.new /\ op.todo \subseteq FieldsOf(op.new)

\* The fields done of the filter f are what the indices hold of the id i, those of another
\* type than the field's apart.
Agrees(i, f, done, sch, fwd, cat) ==
  /\ \A fld \in done : sch[fld] # "Unknown"
  /\ fwd[i] = IF NumField \in done /\ f[NumField].type = "Number" /\ sch[NumField] = "Number"
                THEN Sortable(f[NumField]) ELSE None
  /\ \A fld \in Fields, s \in Texts :
       i \in cat[<<fld, s>>] <=>
         fld \in done /\ f[fld].type # "Number" /\ f[fld].type = sch[fld] /\ f[fld].text = s

\* The fields of a vector that are in the indices.
Indexed(i) ==
  IF op.stage = "none" \/ op.id # i THEN FieldsOf(meta[i])
  ELSE IF op.stage = "remove" THEN op.todo
  ELSE FieldsOf(meta[i]) \ op.todo

Entered(i) == Agrees(i, meta[i], Indexed(i), schema, forward, category)

FilterIndexInv ==
  /\ Inv /\ StatesOK /\ ChangeOK
  /\ ~saveFailed => schema = saved /\ \A i \in Ids \ torn : Entered(i)

(***************************************************************************)
(* Filters.                                                                *)
(***************************************************************************)
LEMMA FieldIs ==
  ASSUME NEW f \in Filters \cup {NoFilter}, NEW fld \in FieldsOf(f)
  PROVE  /\ fld \in Fields /\ f[fld].type \in Kinds /\ f[fld].type # "Unknown"
         /\ f[fld].type = "Number" => fld = NumField /\ Sortable(f[fld]) \in Values
         /\ f[fld].type # "Number" => f[fld].text \in Texts
<1>1. f \in Filters /\ fld \in DOMAIN f
  BY DEF FieldsOf
<1>2. /\ fld \in Fields /\ f[fld].type \in {"Number", "String", "Bool"}
      /\ f[fld].type = "Number" => fld = NumField /\ Sortable(f[fld]) \in Values
  BY <1>1, FilterAssumption
<1>3. f[fld].type # "Number" => f[fld].text \in TextsOf(f)
  BY <1>1 DEF TextsOf
<1>4. f[fld].type # "Number" => f[fld].text \in Texts
  BY <1>1, <1>3 DEF Texts
<1>5. QED
  BY <1>2, <1>4 DEF Kinds

LEMMA FieldsAre ==
  ASSUME NEW f \in Filters \cup {NoFilter}
  PROVE  FieldsOf(f) \subseteq Fields
  BY FieldIs

\* A change of other ids, or of the type of a field that is not done, is none for this one.
LEMMA SameAgrees ==
  ASSUME NEW i, NEW f, NEW done, NEW sch, NEW fwd, NEW cat, Agrees(i, f, done, sch, fwd, cat),
         NEW sch2, NEW fwd2, NEW cat2, done \subseteq Fields,
         \A fld \in done : sch2[fld] = sch[fld],
         fwd2[i] = fwd[i],
         \A fld \in Fields, s \in Texts : i \in cat2[<<fld, s>>] <=> i \in cat[<<fld, s>>]
  PROVE  Agrees(i, f, done, sch2, fwd2, cat2)
  BY DEF Agrees

LEMMA EmptyAgrees ==
  ASSUME NEW i, NEW f, NEW g, NEW sch, NEW fwd, NEW cat, Agrees(i, f, {}, sch, fwd, cat)
  PROVE  Agrees(i, g, {}, sch, fwd, cat)
  BY DEF Agrees

(***************************************************************************)
(* The numeric index under one removal or addition.                        *)
(***************************************************************************)
LEMMA PutIs ==
  ASSUME Inv, NEW id \in Ids, NEW v \in Values, Put(id, v)
  PROVE  Inv' /\ forward'[id] = v /\ \A i \in Ids : i # id => forward'[i] = forward[i]
<1>1. forward \in [Ids -> Values \cup {None}]
  BY DEF Inv
<1>2. QED
  BY <1>1, PutInv DEF Put, numericVars

LEMMA RemoveIs ==
  ASSUME Inv, NEW id \in Ids, Remove(id)
  PROVE  Inv' /\ forward'[id] = None /\ \A i \in Ids : i # id => forward'[i] = forward[i]
<1>1. forward \in [Ids -> Values \cup {None}]
  BY DEF Inv
<1>2. QED
  BY <1>1, RemoveInv DEF Remove

LEMMA SameIs ==
  ASSUME Inv, UNCHANGED numericVars
  PROVE  Inv' /\ forward' = forward
  BY NextInv DEF numericVars

(***************************************************************************)
(* Changes under way.                                                      *)
(***************************************************************************)
Changes == [stage : {"remove", "add"}, id : Ids, old : Filters \cup {NoFilter},
            new : Filters \cup {NoFilter}, todo : SUBSET Fields]

LEMMA AddingIs ==
  ASSUME NEW id \in Ids, NEW old \in Filters \cup {NoFilter}, NEW new \in Filters \cup {NoFilter},
         NEW todo, todo \subseteq FieldsOf(new), meta'[id] = new,
         op' = Settle(Change("add", id, old, new, todo))
  PROVE  /\ ChangeOK' /\ Indexed(id)' = FieldsOf(new) \ todo
         /\ \A i \in Ids : i # id => Indexed(i)' = FieldsOf(meta'[i])
<1> DEFINE o == Change("add", id, old, new, todo)
<1>1. todo \in SUBSET Fields
  BY FieldsAre
<1>2. /\ o \in Changes /\ o.stage = "add" /\ o.id = id /\ o.old = old /\ o.new = new
      /\ o.todo = todo
  BY <1>1 DEF Change, Changes
<1> HIDE DEF o
<1>3. CASE todo = {}
  <2>1. op' = NoChange
    BY <1>2, <1>3 DEF Settle, o
  <2>2. op'.stage = "none"
    BY <2>1 DEF NoChange
  <2>3. QED
    BY <1>3, <2>1, <2>2 DEF ChangeOK, Indexed
<1>4. CASE todo # {}
  <2>1. op' = o
    BY <1>2, <1>4 DEF Settle, o
  <2>2. ChangeOK'
    BY <1>2, <2>1 DEF ChangeOK, Changes
  <2>3. QED
    BY <1>2, <2>1, <2>2 DEF Indexed
<1>5. QED
  BY <1>3, <1>4

\* A vector that no change is about has all its fields indexed.
LEMMA OthersIndexed ==
  ASSUME NEW i, op.stage = "none" \/ op.id # i
  PROVE  Indexed(i) = FieldsOf(meta[i])
  BY DEF Indexed

LEMMA NoChangeStage ==
  ASSUME ChangeOK
  PROVE  /\ op.stage = "none" <=> op = NoChange
         /\ op.stage # "none" => op \in Changes
<1>1. NoChange.stage = "none"
  BY DEF NoChange
<1>2. \A o \in Changes : o.stage \in {"remove", "add"}
  BY DEF Changes
<1>3. op = NoChange \/ op \in Changes
  BY DEF ChangeOK, Changes
<1>4. QED
  BY <1>1, <1>2, <1>3

LEMMA IndexedFields ==
  ASSUME StatesOK, ChangeOK, NEW i \in Ids
  PROVE  Indexed(i) \subseteq Fields
<1>1. FieldsOf(meta[i]) \subseteq Fields
  BY FieldsAre DEF StatesOK
<1>2. op.stage = "remove" => op.todo \subseteq Fields
  BY NoChangeStage DEF Changes
<1>3. QED
  BY <1>1, <1>2 DEF Indexed

(***************************************************************************)
(* The operations keep the invariant.                                      *)
(***************************************************************************)
LEMMA InitFilterInv == FilterInit => FilterIndexInv
<1> SUFFICES ASSUME FilterInit PROVE FilterIndexInv
  OBVIOUS
<1>1. Inv
  BY InitInv DEF FilterInit
<1>2. StatesOK
  BY DEF FilterInit, StatesOK, Kinds
<1>3. ChangeOK /\ op.stage = "none"
  BY DEF FilterInit, ChangeOK, NoChange
<1>4. ASSUME NEW i \in Ids
      PROVE  Entered(i)
  <2>1. Indexed(i) = {} /\ meta[i] = NoFilter
    BY <1>3 DEF FilterInit, Indexed, FieldsOf
  <2>2. forward[i] = None /\ \A fld \in Fields, s \in Texts : category[<<fld, s>>] = {}
    BY DEF FilterInit, NumericInit
  <2>3. QED
    BY <2>1, <2>2 DEF Entered, Agrees
<1>5. schema = saved
  BY DEF FilterInit
<1>6. QED
  BY <1>1, <1>2, <1>3, <1>4, <1>5 DEF FilterIndexInv

LEMMA InsertInv ==
  ASSUME FilterIndexInv, NEW id \in Ids, NEW f \in Filters, Insert(id, f)
  PROVE  FilterIndexInv'
<1>1. Inv /\ StatesOK /\ ChangeOK
  BY DEF FilterIndexInv
<1>2. /\ op.stage = "none" /\ meta[id] = NoFilter /\ meta' = [meta EXCEPT ![id] = f]
      /\ op' = Settle(Change("add", id, NoFilter, f, FieldsOf(f)))
      /\ UNCHANGED <<schema, saved, category, torn, saveFailed, numericVars>>
  BY DEF Insert
<1>3. Inv' /\ forward' = forward
  BY <1>1, <1>2, SameIs
<1>4. StatesOK' /\ meta'[id] = f /\ \A i \in Ids : i # id => meta'[i] = meta[i]
  BY <1>1, <1>2 DEF StatesOK
<1>5. /\ ChangeOK' /\ Indexed(id)' = {}
      /\ \A i \in Ids : i # id => Indexed(i)' = FieldsOf(meta[i])
  BY <1>2, <1>4, AddingIs
<1>6. ASSUME ~saveFailed', NEW i \in Ids \ torn'
      PROVE  Entered(i)'
  <2>1. Agrees(i, meta[i], Indexed(i), schema, forward, category)
    BY <1>2, <1>6 DEF FilterIndexInv, Entered
  <2>2. Indexed(i) = FieldsOf(meta[i])
    BY <1>2, OthersIndexed
  <2>3. CASE i = id
    <3>1. Indexed(i) = {} /\ Indexed(i)' = {}
      BY <1>2, <1>5, <2>2, <2>3 DEF FieldsOf
    <3>2. Agrees(i, meta'[i], {}, schema, forward, category)
      BY <2>1, <3>1, EmptyAgrees
    <3>3. QED
      BY <1>2, <1>3, <3>1, <3>2 DEF Entered
  <2>4. CASE i # id
    BY <1>2, <1>3, <1>4, <1>5, <2>1, <2>2, <2>4 DEF Entered
  <2>5. QED
    BY <2>3, <2>4
<1>7. ~saveFailed' => schema' = saved'
  BY <1>2 DEF FilterIndexInv
<1>8. QED
  BY <1>3, <1>4, <1>5, <1>6, <1>7 DEF FilterIndexInv

LEMMA UpdateInv ==
  ASSUME FilterIndexInv, NEW id \in Ids, NEW f \in Filters \cup {NoFilter}, Update(id, f)
  PROVE  FilterIndexInv'
<1>1. Inv /\ StatesOK /\ ChangeOK
  BY DEF FilterIndexInv
<1>2. /\ op.stage = "none" /\ op' = Change("remove", id, meta[id], f, FieldsOf(meta[id]))
      /\ UNCHANGED <<schema, saved, category, meta, torn, saveFailed, numericVars>>
  BY DEF Update
<1>3. Inv' /\ forward' = forward
  BY <1>1, <1>2, SameIs
<1>4. StatesOK'
  BY <1>1, <1>2 DEF StatesOK
<1>5. meta[id] \in Filters \cup {NoFilter}
  BY <1>1 DEF StatesOK
<1>6. /\ op'.stage = "remove" /\ op'.id = id /\ op'.old = meta[id] /\ op'.todo = FieldsOf(meta[id])
      /\ op' \in Changes
  BY <1>2, <1>5, FieldsAre DEF Change, Changes
<1>7. ChangeOK'
  BY <1>2, <1>6 DEF ChangeOK, Changes
<1>8. \A i \in Ids : Indexed(i)' = FieldsOf(meta[i])
  BY <1>2, <1>6 DEF Indexed
<1>9. ASSUME ~saveFailed', NEW i \in Ids \ torn'
      PROVE  Entered(i)'
  <2>1. Agrees(i, meta[i], Indexed(i), schema, forward, category)
    BY <1>2, <1>9 DEF FilterIndexInv, Entered
  <2>2. Indexed(i) = FieldsOf(meta[i])
    BY <1>2, OthersIndexed
  <2>3. QED
    BY <1>2, <1>3, <1>8, <2>1, <2>2 DEF Entered
<1>10. ~saveFailed' => schema' = saved'
  BY <1>2 DEF FilterIndexInv
<1>11. QED
  BY <1>3, <1>4, <1>7, <1>9, <1>10 DEF FilterIndexInv

LEMMA StoreMetaInv ==
  ASSUME FilterIndexInv, StoreMeta
  PROVE  FilterIndexInv'
<1>1. Inv /\ StatesOK /\ ChangeOK
  BY DEF FilterIndexInv
<1>2. op.stage = "remove" /\ op.todo = {} /\ UNCHANGED <<schema, saved, category, torn, saveFailed, numericVars>>
  BY DEF StoreMeta
<1>3. Inv' /\ forward' = forward
  BY <1>1, <1>2, SameIs
<1>4. op.id \in Ids /\ op.old \in Filters \cup {NoFilter} /\ op.new \in Filters \cup {NoFilter}
  BY <1>1, <1>2, NoChangeStage DEF Changes
<1>5. PICK id \in Ids, old \in Filters \cup {NoFilter}, new \in Filters \cup {NoFilter} :
        id = op.id /\ old = op.old /\ new = op.new
  BY <1>4
<1>6. meta' = [meta EXCEPT ![id] = new] /\ op' = Settle(Change("add", id, old, new, FieldsOf(new)))
  BY <1>5 DEF StoreMeta
<1>7. StatesOK' /\ meta'[id] = new /\ \A i \in Ids : i # id => meta'[i] = meta[i]
  <2>1. meta \in [Ids -> Filters \cup {NoFilter}]
    BY <1>1 DEF StatesOK
  <2>2. /\ meta' \in [Ids -> Filters \cup {NoFilter}]
        /\ meta'[id] = new /\ \A i \in Ids : i # id => meta'[i] = meta[i]
    BY <1>6, <2>1
  <2>3. QED
    BY <1>1, <1>2, <2>2 DEF StatesOK
<1>8. /\ ChangeOK' /\ Indexed(id)' = {}
      /\ \A i \in Ids : i # id => Indexed(i)' = FieldsOf(meta[i])
  <2>1. /\ ChangeOK' /\ Indexed(id)' = FieldsOf(new) \ FieldsOf(new)
        /\ \A i \in Ids : i # id => Indexed(i)' = FieldsOf(meta'[i])
    BY <1>6, <1>7, AddingIs
  <2>2. QED
    BY <1>7, <2>1
<1>9. ASSUME ~saveFailed', NEW i \in Ids \ torn'
      PROVE  Entered(i)'
  <2>1. Agrees(i, meta[i], Indexed(i), schema, forward, category)
    BY <1>2, <1>9 DEF FilterIndexInv, Entered
  <2>2. CASE i = id
    <3>1. Indexed(i) = {} /\ Indexed(i)' = {}
      BY <1>2, <1>5, <1>8, <2>2 DEF Indexed
    <3>2. Agrees(i, meta'[i], {}, schema, forward, category)
      BY <2>1, <3>1, EmptyAgrees
    <3>3. QED
      BY <1>2, <1>3, <3>1, <3>2 DEF Entered
  <2>3. CASE i # id
    <3>1. Indexed(i) = FieldsOf(meta[i])
      BY <1>5, <2>3, OthersIndexed
    <3>2. QED
      BY <1>2, <1>3, <1>7, <1>8, <2>1, <2>3, <3>1 DEF Entered
  <2>4. QED
    BY <2>2, <2>3
<1>10. ~saveFailed' => schema' = saved'
  BY <1>2 DEF FilterIndexInv
<1>11. QED
  BY <1>3, <1>7, <1>8, <1>9, <1>10 DEF FilterIndexInv

\* A removal takes the field from the indices, as either type.
LEMMA RemovedAgrees ==
  ASSUME NEW i, NEW f \in Filters \cup {NoFilter}, NEW done, done \subseteq FieldsOf(f), NEW fld \in done,
         NEW sch, NEW fwd, NEW cat, Agrees(i, f, done, sch, fwd, cat), NEW fwd2, NEW cat2,
         f[fld].type = "Number" =>
           fwd2[i] = None /\ \A g \in Fields, s \in Texts : i \in cat2[<<g, s>>] <=> i \in cat[<<g, s>>],
         f[fld].type # "Number" =>
           /\ fwd2[i] = fwd[i]
           /\ \A g \in Fields, s \in Texts :
                i \in cat2[<<g, s>>] <=> i \in cat[<<g, s>>] /\ ~(g = fld /\ s = f[fld].text)
  PROVE  Agrees(i, f, done \ {fld}, sch, fwd2, cat2)
<1>1. f[fld].type = "Number" => fld = NumField
  BY FieldIs
<1>2. \A g \in done \ {fld} : sch[g] # "Unknown"
  BY DEF Agrees
<1>3. fwd2[i] = IF NumField \in done \ {fld} /\ f[NumField].type = "Number" /\ sch[NumField] = "Number"
                  THEN Sortable(f[NumField]) ELSE None
  <2>1. fwd[i] = IF NumField \in done /\ f[NumField].type = "Number" /\ sch[NumField] = "Number"
                  THEN Sortable(f[NumField]) ELSE None
    BY DEF Agrees
  <2>2. CASE f[fld].type = "Number"
    BY <1>1, <2>2
  <2>3. CASE f[fld].type # "Number"
    BY <2>1, <2>3
  <2>4. QED
    BY <2>2, <2>3
<1>4. ASSUME NEW g \in Fields, NEW s \in Texts
      PROVE  i \in cat2[<<g, s>>] <=>
               g \in done \ {fld} /\ f[g].type # "Number" /\ f[g].type = sch[g] /\ f[g].text = s
  <2>1. i \in cat[<<g, s>>] <=>
          g \in done /\ f[g].type # "Number" /\ f[g].type = sch[g] /\ f[g].text = s
    BY DEF Agrees
  <2>2. CASE f[fld].type = "Number"
    BY <2>1, <2>2
  <2>3. CASE f[fld].type # "Number"
    BY <2>1, <2>3
  <2>4. QED
    BY <2>2, <2>3
<1>5. QED
  BY <1>2, <1>3, <1>4 DEF Agrees

LEMMA RemoveFieldInv ==
  ASSUME FilterIndexInv, NEW fld \in Fields, RemoveField(fld)
  PROVE  FilterIndexInv'
<1>1. Inv /\ StatesOK /\ ChangeOK
  BY DEF FilterIndexInv
<1>2. /\ op.stage = "remove" /\ fld \in op.todo /\ op' = [op EXCEPT !.todo = @ \ {fld}]
      /\ UNCHANGED <<schema, saved, meta, torn, saveFailed>>
  BY DEF RemoveField
<1>3. op \in Changes
  BY <1>1, <1>2, NoChangeStage
<1>4. PICK id \in Ids, old \in Filters \cup {NoFilter} :
        id = op.id /\ old = op.old /\ old = meta[id] /\ op.todo \subseteq FieldsOf(old)
  BY <1>1, <1>2, <1>3 DEF Changes, ChangeOK, NoChange
<1>5. /\ op' \in Changes /\ op'.stage = "remove" /\ op'.id = id /\ op'.old = old
      /\ op'.todo = op.todo \ {fld}
  BY <1>2, <1>3, <1>4 DEF Changes
<1>6. ChangeOK'
  BY <1>2, <1>4, <1>5 DEF ChangeOK, Changes
<1>7. /\ old[fld].type = "Number" => Remove(id) /\ category' = category
      /\ old[fld].type # "Number" =>
           /\ category' = [category EXCEPT ![<<fld, old[fld].text>>] = @ \ {id}]
           /\ UNCHANGED numericVars
  BY <1>4 DEF RemoveField
<1>8. fld \in FieldsOf(old)
  BY <1>2, <1>4
<1>9. /\ Inv' /\ \A i \in Ids : i # id => forward'[i] = forward[i]
      /\ forward'[id] = IF old[fld].type = "Number" THEN None ELSE forward[id]
  <2>1. CASE old[fld].type = "Number"
    BY <1>1, <1>7, <2>1, RemoveIs
  <2>2. CASE old[fld].type # "Number"
    BY <1>1, <1>7, <2>2, SameIs
  <2>3. QED
    BY <2>1, <2>2
<1>10. /\ category' \in [Fields \X Texts -> SUBSET Ids]
       /\ \A i \in Ids, g \in Fields, s \in Texts :
            i \in category'[<<g, s>>] <=>
              /\ i \in category[<<g, s>>]
              /\ ~(i = id /\ old[fld].type # "Number" /\ g = fld /\ s = old[fld].text)
  <2>1. category \in [Fields \X Texts -> SUBSET Ids]
    BY <1>1 DEF StatesOK
  <2>2. CASE old[fld].type = "Number"
    BY <1>7, <2>1, <2>2
  <2>3. CASE old[fld].type # "Number"
    <3>1. old[fld].text \in Texts
      BY <1>8, <2>3, FieldIs
    <3>2. category' = [category EXCEPT ![<<fld, old[fld].text>>] = category[<<fld, old[fld].text>>] \ {id}]
      BY <1>7, <2>3
    <3>3. QED
      BY <2>1, <2>3, <3>1, <3>2
  <2>4. QED
    BY <2>2, <2>3
<1>11. StatesOK'
  BY <1>1, <1>2, <1>10 DEF StatesOK
<1>12. ASSUME ~saveFailed', NEW i \in Ids \ torn'
       PROVE  Entered(i)'
  <2>1. Agrees(i, meta[i], Indexed(i), schema, forward, category)
    BY <1>2, <1>12 DEF FilterIndexInv, Entered
  <2>2. CASE i = id
    <3>1. Indexed(i) = op.todo /\ Indexed(i)' = op.todo \ {fld} /\ meta[i] = old
      BY <1>2, <1>4, <1>5, <2>2 DEF Indexed
    <3>2. Agrees(i, old, op.todo, schema, forward, category)
      BY <2>1, <3>1
    <3>3. Agrees(i, old, op.todo \ {fld}, schema, forward', category')
      BY <1>2, <1>4, <1>9, <1>10, <2>2, <3>2, RemovedAgrees
    <3>4. QED
      BY <1>2, <3>1, <3>3 DEF Entered
  <2>3. CASE i # id
    <3>1. Indexed(i) = FieldsOf(meta[i]) /\ Indexed(i)' = FieldsOf(meta[i])
      BY <1>2, <1>4, <1>5, <2>3 DEF Indexed
    <3>2. FieldsOf(meta[i]) \subseteq Fields
      BY <1>1, FieldsAre DEF StatesOK
    <3>3. Agrees(i, meta[i], FieldsOf(meta[i]), schema, forward', category')
      BY <1>9, <1>10, <2>1, <2>3, <3>1, <3>2, SameAgrees
    <3>4. QED
      BY <1>2, <3>1, <3>3 DEF Entered
  <2>4. QED
    BY <2>2, <2>3
<1>13. ~saveFailed' => schema' = saved'
  BY <1>2 DEF FilterIndexInv
<1>14. QED
  BY <1>6, <1>9, <1>11, <1>12, <1>13 DEF FilterIndexInv

\* The first type binds a field, in the database too unless that fails.
LEMMA RegisterIs ==
  ASSUME StatesOK, NEW fld \in Fields, NEW type \in Kinds \ {"Unknown"},
         type = "Number" => fld = NumField, Register(fld, type)
  PROVE  /\ schema' \in [Fields -> Kinds] /\ saved' \in [Fields -> Kinds] /\ saveFailed' \in BOOLEAN
         /\ \A g \in Fields : schema'[g] = "Number" \/ saved'[g] = "Number" => g = NumField
         /\ schema'[fld] # "Unknown"
         /\ \A g \in Fields : schema[g] # "Unknown" => schema'[g] = schema[g]
         /\ ~saveFailed' => ~saveFailed /\ (schema = saved => schema' = saved')
<1>1. /\ schema \in [Fields -> Kinds] /\ saved \in [Fields -> Kinds] /\ saveFailed \in BOOLEAN
      /\ \A g \in Fields : schema[g] = "Number" \/ saved[g] = "Number" => g = NumField
  BY DEF StatesOK
<1>2. CASE schema[fld] # "Unknown"
  BY <1>1, <1>2 DEF Register
<1>3. CASE schema[fld] = "Unknown"
  <2>1. /\ schema' = [schema EXCEPT ![fld] = type]
        /\ \/ saved' = schema' /\ saveFailed' = saveFailed
           \/ saveFailed' = TRUE /\ saved' = saved
    BY <1>3 DEF Register
  <2>2. /\ schema' \in [Fields -> Kinds] /\ schema'[fld] = type
        /\ \A g \in Fields : g # fld => schema'[g] = schema[g]
    BY <1>1, <2>1
  <2>3. \A g \in Fields : schema'[g] = "Number" => g = NumField
    BY <1>1, <2>2
  <2>4. CASE saved' = schema' /\ saveFailed' = saveFailed
    BY <1>1, <1>3, <2>2, <2>3, <2>4
  <2>5. CASE saveFailed' = TRUE /\ saved' = saved
    BY <1>1, <1>3, <2>2, <2>3, <2>5
  <2>6. QED
    BY <2>1, <2>4, <2>5
<1>4. QED
  BY <1>2, <1>3

\* An addition puts the field in the index of its type, if that is the field's.
LEMMA AddedAgrees ==
  ASSUME NEW i, NEW f \in Filters \cup {NoFilter}, NEW done, done \subseteq FieldsOf(f),
         NEW fld \in FieldsOf(f) \ done,
         NEW sch, NEW fwd, NEW cat, Agrees(i, f, done, sch, fwd, cat), NEW fwd2, NEW cat2,
         sch[fld] # "Unknown",
         fwd2[i] = IF sch[fld] = f[fld].type /\ f[fld].type = "Number" THEN Sortable(f[fld]) ELSE fwd[i],
         \A g \in Fields, s \in Texts :
           i \in cat2[<<g, s>>] <=>
             \/ i \in cat[<<g, s>>]
             \/ g = fld /\ sch[fld] = f[fld].type /\ f[fld].type # "Number" /\ s = f[fld].text
  PROVE  Agrees(i, f, done \cup {fld}, sch, fwd2, cat2)
<1>1. f[fld].type = "Number" => fld = NumField
  BY FieldIs
<1>2. \A g \in done \cup {fld} : sch[g] # "Unknown"
  BY DEF Agrees
<1>3. fwd2[i] = IF NumField \in done \cup {fld} /\ f[NumField].type = "Number" /\ sch[NumField] = "Number"
                  THEN Sortable(f[NumField]) ELSE None
  <2>1. fwd[i] = IF NumField \in done /\ f[NumField].type = "Number" /\ sch[NumField] = "Number"
                  THEN Sortable(f[NumField]) ELSE None
    BY DEF Agrees
  <2>2. CASE fld = NumField
    BY <2>1, <2>2
  <2>3. CASE fld # NumField
    BY <1>1, <2>1, <2>3
  <2>4. QED
    BY <2>2, <2>3
<1>4. ASSUME NEW g \in Fields, NEW s \in Texts
      PROVE  i \in cat2[<<g, s>>] <=>
               g \in done \cup {fld} /\ f[g].type # "Number" /\ f[g].type = sch[g] /\ f[g].text = s
  <2>1. i \in cat[<<g, s>>] <=>
          g \in done /\ f[g].type # "Number" /\ f[g].type = sch[g] /\ f[g].text = s
    BY DEF Agrees
  <2>2. CASE g = fld
    BY <2>1, <2>2
  <2>3. CASE g # fld
    BY <2>1, <2>3
  <2>4. QED
    BY <2>2, <2>3
<1>5. QED
  BY <1>2, <1>3, <1>4 DEF Agrees

LEMMA AddFieldInv ==
  ASSUME FilterIndexInv, NEW fld \in Fields, AddField(fld)
  PROVE  FilterIndexInv'
<1>1. Inv /\ StatesOK /\ ChangeOK
  BY DEF FilterIndexInv
<1>2. /\ op.stage = "add" /\ fld \in op.todo /\ op' = Settle([op EXCEPT !.todo = @ \ {fld}])
      /\ UNCHANGED <<meta, torn>>
  BY DEF AddField
<1>3. op \in Changes
  BY <1>1, <1>2, NoChangeStage
<1>4. PICK id \in Ids, old \in Filters \cup {NoFilter}, new \in Filters \cup {NoFilter},
           todo \in SUBSET Fields :
        /\ id = op.id /\ old = op.old /\ new = op.new /\ todo = op.todo
        /\ new = meta[id] /\ todo \subseteq FieldsOf(new)
  BY <1>1, <1>2, <1>3 DEF Changes, ChangeOK, NoChange
<1>5. op' = Settle(Change("add", id, old, new, todo \ {fld}))
  <2>1. op = [stage |-> "add", id |-> id, old |-> old, new |-> new, todo |-> todo]
    BY <1>2, <1>3, <1>4 DEF Changes
  <2>2. [op EXCEPT !.todo = @ \ {fld}] =
          [stage |-> "add", id |-> id, old |-> old, new |-> new, todo |-> todo \ {fld}]
    BY <2>1
  <2>3. QED
    BY <1>2, <2>2 DEF Change
<1>6. fld \in FieldsOf(new) /\ fld \in todo
  BY <1>2, <1>4
<1>7. /\ ChangeOK' /\ Indexed(id)' = FieldsOf(new) \ (todo \ {fld})
      /\ \A i \in Ids : i # id => Indexed(i)' = FieldsOf(meta[i])
  <2>1. todo \ {fld} \subseteq FieldsOf(new) /\ meta' = meta /\ meta'[id] = new
    BY <1>2, <1>4
  <2>2. QED
    BY <1>5, <2>1, AddingIs
<1>8. /\ new[fld].type \in Kinds \ {"Unknown"} /\ (new[fld].type = "Number" => fld = NumField)
      /\ new[fld].type = "Number" => Sortable(new[fld]) \in Values
      /\ new[fld].type # "Number" => new[fld].text \in Texts
  BY <1>6, FieldIs
<1>9. Register(fld, new[fld].type)
  BY <1>4 DEF AddField
<1>10. /\ schema' \in [Fields -> Kinds] /\ saved' \in [Fields -> Kinds] /\ saveFailed' \in BOOLEAN
       /\ \A g \in Fields : schema'[g] = "Number" \/ saved'[g] = "Number" => g = NumField
       /\ schema'[fld] # "Unknown"
       /\ \A g \in Fields : schema[g] # "Unknown" => schema'[g] = schema[g]
       /\ ~saveFailed' => ~saveFailed /\ (schema = saved => schema' = saved')
  BY <1>1, <1>8, <1>9, RegisterIs
<1>11. IF schema'[fld] # new[fld].type THEN UNCHANGED <<category, numericVars>>
       ELSE IF new[fld].type = "Number" THEN Put(id, Sortable(new[fld])) /\ UNCHANGED category
       ELSE /\ category' = [category EXCEPT ![<<fld, new[fld].text>>] = @ \cup {id}]
            /\ UNCHANGED numericVars
  BY <1>4 DEF AddField
<1>12. /\ Inv' /\ \A i \in Ids : i # id => forward'[i] = forward[i]
       /\ forward'[id] = IF schema'[fld] = new[fld].type /\ new[fld].type = "Number"
                           THEN Sortable(new[fld]) ELSE forward[id]
  <2>1. CASE schema'[fld] = new[fld].type /\ new[fld].type = "Number"
    <3>1. Put(id, Sortable(new[fld])) /\ Sortable(new[fld]) \in Values
      BY <1>8, <1>11, <2>1
    <3>2. QED
      BY <1>1, <2>1, <3>1, PutIs
  <2>2. CASE ~(schema'[fld] = new[fld].type /\ new[fld].type = "Number")
    <3>1. UNCHANGED numericVars
      BY <1>11, <2>2
    <3>2. QED
      BY <1>1, <2>2, <3>1, SameIs
  <2>3. QED
    BY <2>1, <2>2
<1>13. /\ category' \in [Fields \X Texts -> SUBSET Ids]
       /\ \A i \in Ids, g \in Fields, s \in Texts :
            i \in category'[<<g, s>>] <=>
              \/ i \in category[<<g, s>>]
              \/ /\ i = id /\ g = fld /\ schema'[fld] = new[fld].type
                 /\ new[fld].type # "Number" /\ s = new[fld].text
  <2>1. category \in [Fields \X Texts -> SUBSET Ids]
    BY <1>1 DEF StatesOK
  <2>2. CASE schema'[fld] = new[fld].type /\ new[fld].type # "Number"
    <3>1. category' = [category EXCEPT ![<<fld, new[fld].text>>] = category[<<fld, new[fld].text>>] \cup {id}]
      BY <1>11, <2>2
    <3>2. QED
      BY <1>8, <2>1, <2>2, <3>1
  <2>3. CASE ~(schema'[fld] = new[fld].type /\ new[fld].type # "Number")
    <3>1. category' = category
      BY <1>11, <2>3
    <3>2. QED
      BY <2>1, <2>3, <3>1
  <2>4. QED
    BY <2>2, <2>3
<1>14. StatesOK'
  BY <1>1, <1>2, <1>10, <1>13 DEF StatesOK
<1>15. ASSUME ~saveFailed', NEW i \in Ids \ torn'
       PROVE  Entered(i)'
  <2>1. Agrees(i, meta[i], Indexed(i), schema, forward, category)
    BY <1>2, <1>10, <1>15 DEF FilterIndexInv, Entered
  <2>2. Indexed(i) \subseteq Fields /\ \A g \in Indexed(i) : schema[g] # "Unknown"
    BY <1>1, <2>1, IndexedFields DEF Agrees
  <2>3. Agrees(i, meta[i], Indexed(i), schema', forward, category)
    BY <1>10, <2>1, <2>2, SameAgrees
  <2>4. CASE i = id
    <3>1. /\ Indexed(i) = FieldsOf(new) \ todo /\ meta[i] = new
          /\ Indexed(i)' = (FieldsOf(new) \ todo) \cup {fld}
      BY <1>2, <1>4, <1>6, <1>7, <2>4 DEF Indexed
    <3>2. fld \in FieldsOf(new) \ (FieldsOf(new) \ todo)
      BY <1>6
    <3>3. Agrees(i, new, FieldsOf(new) \ todo, schema', forward, category)
      BY <2>3, <3>1
    <3>4. forward'[i] = IF schema'[fld] = new[fld].type /\ new[fld].type = "Number"
                          THEN Sortable(new[fld]) ELSE forward[i]
      BY <1>12, <2>4
    <3>5. \A g \in Fields, s \in Texts :
            i \in category'[<<g, s>>] <=>
              \/ i \in category[<<g, s>>]
              \/ g = fld /\ schema'[fld] = new[fld].type /\ new[fld].type # "Number" /\ s = new[fld].text
      BY <1>13, <2>4
    <3>6. Agrees(i, new, (FieldsOf(new) \ todo) \cup {fld}, schema', forward', category')
      BY <1>10, <3>2, <3>3, <3>4, <3>5, AddedAgrees
    <3>7. QED
      BY <1>2, <3>1, <3>6 DEF Entered
  <2>5. CASE i # id
    <3>1. Indexed(i) = FieldsOf(meta[i]) /\ Indexed(i)' = FieldsOf(meta[i])
      BY <1>2, <1>4, <1>7, <2>5 DEF Indexed
    <3>2. Agrees(i, meta[i], FieldsOf(meta[i]), schema', forward', category')
      BY <1>12, <1>13, <2>2, <2>3, <2>5, <3>1, SameAgrees
    <3>3. QED
      BY <1>2, <3>1, <3>2 DEF Entered
  <2>6. QED
    BY <2>4, <2>5
<1>16. ~saveFailed' => schema' = saved'
  BY <1>10 DEF FilterIndexInv
<1>17. QED
  BY <1>7, <1>12, <1>14, <1>15, <1>16 DEF FilterIndexInv

\* A change cut short, by an error or by the end of the process: its vector is set apart.
LEMMA CutInv ==
  ASSUME FilterIndexInv, op' = NoChange, torn' = CutShort,
         UNCHANGED <<saved, category, meta, saveFailed, numericVars>>,
         schema' = schema \/ schema' = saved
  PROVE  FilterIndexInv'
<1>1. Inv /\ StatesOK /\ ChangeOK
  BY DEF FilterIndexInv
<1>2. Inv' /\ forward' = forward
  BY <1>1, SameIs
<1>3. torn \subseteq torn' /\ torn' \subseteq Ids /\ (op.stage # "none" => op.id \in torn')
  BY <1>1, NoChangeStage DEF CutShort, StatesOK, Changes
<1>4. StatesOK'
  BY <1>1, <1>3 DEF StatesOK
<1>5. ChangeOK' /\ op'.stage = "none"
  BY DEF ChangeOK, NoChange
<1>6. ASSUME ~saveFailed', NEW i \in Ids \ torn'
      PROVE  Entered(i)'
  <2>1. Agrees(i, meta[i], Indexed(i), schema, forward, category) /\ schema' = schema
    BY <1>3, <1>6 DEF FilterIndexInv, Entered
  <2>2. Indexed(i) = FieldsOf(meta[i]) /\ Indexed(i)' = FieldsOf(meta[i])
    BY <1>3, <1>5, <1>6 DEF Indexed
  <2>3. QED
    BY <1>2, <2>1, <2>2 DEF Entered
<1>7. ~saveFailed' => schema' = saved'
  BY DEF FilterIndexInv
<1>8. QED
  BY <1>2, <1>4, <1>5, <1>6, <1>7 DEF FilterIndexInv

LEMMA SameFilterInv ==
  ASSUME FilterIndexInv, UNCHANGED allVars
  PROVE  FilterIndexInv'
<1>1. UNCHANGED numericVars /\ UNCHANGED filterVars
  BY DEF allVars
<1>2. Inv' /\ forward' = forward
  BY <1>1, SameIs DEF FilterIndexInv
<1>3. QED
  BY <1>1, <1>2 DEF FilterIndexInv, filterVars, StatesOK, ChangeOK, Entered, Indexed

LEMMA NextFilterInv == FilterIndexInv /\ [FilterNext]_allVars => FilterIndexInv'
<1> SUFFICES ASSUME FilterIndexInv, [FilterNext]_allVars PROVE FilterIndexInv'
  OBVIOUS
<1>1. ASSUME NEW id \in Ids, NEW f \in Filters, Insert(id, f) PROVE FilterIndexInv'
  BY <1>1, InsertInv
<1>2. ASSUME NEW id \in Ids, NEW f \in Filters \cup {NoFilter}, Update(id, f) PROVE FilterIndexInv'
  BY <1>2, UpdateInv
<1>3. ASSUME NEW fld \in Fields, RemoveField(fld) PROVE FilterIndexInv'
  BY <1>3, RemoveFieldInv
<1>4. ASSUME NEW fld \in Fields, AddField(fld) PROVE FilterIndexInv'
  BY <1>4, AddFieldInv
<1>5. CASE StoreMeta
  BY <1>5, StoreMetaInv
<1>6. CASE GiveUp
  BY <1>6, CutInv DEF GiveUp
<1>7. CASE Restart
  BY <1>7, CutInv DEF Restart
<1>8. CASE UNCHANGED allVars
  BY <1>8, SameFilterInv
<1>9. QED
  BY <1>1, <1>2, <1>3, <1>4, <1>5, <1>6, <1>7, <1>8 DEF FilterNext

\* In every reachable state both indices hold of every vector what they should.
THEOREM AlwaysFilterInv == FilterSpec => []FilterIndexInv
BY InitFilterInv, NextFilterInv, PTL DEF FilterSpec

LEMMA FilterTyped == FilterIndexInv => FilterInv
<1> SUFFICES ASSUME FilterIndexInv PROVE FilterInv
  OBVIOUS
<1>1. NumericInv
  BY InvTyped DEF FilterIndexInv
<1>2. FilterTypeOK
  BY <1>1 DEF FilterIndexInv, StatesOK, Kinds, FilterTypeOK, NumericInv
<1>3. QED
  BY <1>1, <1>2 DEF FilterInv

\* The types, and the invariant of the numeric index under the changes of filters: each of
\* their steps is a step of the numeric index or leaves it alone.
THEOREM FilterInvHolds == FilterSpec => []FilterInv
BY AlwaysFilterInv, FilterTyped, PTL

LEMMA StepNumeric ==
  ASSUME FilterIndexInv, [FilterNext]_allVars
  PROVE  [NumericNext]_numericVars
<1>1. ChangeOK
  BY DEF FilterIndexInv
<1>2. ASSUME NEW fld \in Fields, RemoveField(fld)
      PROVE  [NumericNext]_numericVars
  <2>1. op.id \in Ids
    BY <1>1, <1>2, NoChangeStage DEF RemoveField, Changes
  <2>2. Remove(op.id) \/ UNCHANGED numericVars
    BY <1>2 DEF RemoveField
  <2>3. QED
    BY <2>1, <2>2 DEF NumericNext
<1>3. ASSUME NEW fld \in Fields, AddField(fld)
      PROVE  [NumericNext]_numericVars
  <2>1. op.stage = "add" /\ fld \in op.todo
    BY <1>3 DEF AddField
  <2>2. op \in Changes /\ op.id \in Ids /\ op.new \in Filters \cup {NoFilter}
    BY <1>1, <2>1, NoChangeStage DEF Changes
  <2>3. fld \in FieldsOf(op.new)
    BY <1>1, <2>1 DEF ChangeOK, NoChange
  <2>4. op.new[fld].type = "Number" => Sortable(op.new[fld]) \in Values
    BY <2>2, <2>3, FieldIs
  <2>5. \/ op.new[fld].type = "Number" /\ Put(op.id, Sortable(op.new[fld]))
        \/ UNCHANGED numericVars
    BY <1>3 DEF AddField
  <2>6. QED
    BY <2>2, <2>4, <2>5 DEF NumericNext
<1>4. CASE UNCHANGED numericVars
  BY <1>4
<1>5. QED
  BY <1>2, <1>3, <1>4 DEF FilterNext, Insert, Update, StoreMeta, GiveUp, Restart, allVars

\* Changes of filters change the numeric index by puts and removals of an id only: whatever
\* is proved of the numeric index holds under them.
THEOREM ImplementsNumeric == FilterSpec => NumericSpec
<1>1. FilterInit => NumericInit
  BY DEF FilterInit
<1>2. FilterIndexInv /\ [FilterNext]_allVars => [NumericNext]_numericVars
  BY StepNumeric
<1>3. QED
  BY <1>1, <1>2, AlwaysFilterInv, PTL DEF FilterSpec, NumericSpec

\* A range query agrees with the numbers of the ids under the changes of filters.
THEOREM FilterRangeExact == FilterSpec => []RangeExact
BY ImplementsNumeric, RangeExactHolds, PTL

\* A number of a vector is found by the ranges it is in.
LEMMA RangeFinds ==
  ASSUME RangeExact, ~wrapped, NEW lo \in Values, NEW hi \in Values, lo <= hi, NEW i \in Ids
  PROVE  i \in InRange(lo, hi) <=> forward[i] # None /\ lo <= forward[i] /\ forward[i] <= hi
  BY DEF RangeExact, CheckRange

LEMMA ExactFilters == FilterIndexInv => FilterExact
<1> SUFFICES ASSUME FilterIndexInv, ~wrapped, ~saveFailed, NEW c \in Conditions, NEW i \in Settled
             PROVE  i \in Matches(c) <=> Satisfies(meta[i], c)
  BY DEF FilterExact
<1> DEFINE f == meta[i]
           fld == c.field
<1>1. Inv /\ StatesOK /\ ChangeOK /\ RangeExact
  BY ExactRanges DEF FilterIndexInv
<1>2. i \in Ids \ torn /\ (op.stage = "none" \/ op.id # i)
  BY DEF Settled
<1>3. f \in Filters \cup {NoFilter} /\ fld \in Fields
  BY <1>1, <1>2, FilterAssumption DEF StatesOK
<1>4. Agrees(i, f, FieldsOf(f), schema, forward, category)
  BY <1>2, OthersIndexed DEF FilterIndexInv, Entered
<1>5. fld \in FieldsOf(f) <=> f # NoFilter /\ fld \in DOMAIN f
  BY DEF FieldsOf
<1>6. CASE schema[fld] # "Number"
  <2>1. i \in Matches(c) <=> \E s \in c.texts \cap Texts : i \in category[<<fld, s>>]
    BY <1>6 DEF Matches
  <2>2. \A s \in Texts : i \in category[<<fld, s>>] <=>
          fld \in FieldsOf(f) /\ f[fld].type # "Number" /\ f[fld].type = schema[fld] /\ f[fld].text = s
    BY <1>3, <1>4 DEF Agrees
  <2>3. fld \in FieldsOf(f) /\ f[fld].type # "Number" => f[fld].text \in Texts
    BY <1>3, FieldIs
  <2>4. Satisfies(f, c) <=> fld \in FieldsOf(f) /\ f[fld].type = schema[fld] /\ f[fld].text \in c.texts
    BY <1>5, <1>6 DEF Satisfies
  <2> HIDE DEF f, fld
  <2>5. QED
    BY <1>6, <2>1, <2>2, <2>3, <2>4 DEF f
<1>7. CASE schema[fld] = "Number"
  <2> DEFINE v == Sortable(f[fld])
             there == fld \in FieldsOf(f) /\ f[fld].type = "Number"
  <2>1. fld = NumField
    BY <1>1, <1>3, <1>7 DEF StatesOK
  <2>2. forward[i] = IF there THEN v ELSE None
    BY <1>4, <1>7, <2>1 DEF Agrees
  <2>3. there => v \in Values /\ v # None
    <3>1. there => v \in Values
      BY <1>3, FieldIs
    <3>2. \A u \in Values : u # None
      BY NumericAssumption DEF None
    <3>3. QED
      BY <3>1, <3>2
  <2>4. forward[i] # None <=> there
    BY <2>2, <2>3
  <2>5. \A lo, hi \in Values :
          lo <= hi => (i \in InRange(lo, hi) <=> there /\ lo <= v /\ v <= hi)
    <3> HIDE DEF v, there
    <3>1. \A lo, hi \in Values :
            lo <= hi => (i \in InRange(lo, hi) <=> forward[i] # None /\ lo <= forward[i] /\ forward[i] <= hi)
      BY <1>1, <1>2, RangeFinds
    <3>2. QED
      BY <2>2, <2>4, <3>1
  <2>6. CASE c.op = "range"
    <3>1. i \in Matches(c) <=> i \in InRange(Sortable(c.lo), Sortable(c.hi))
      BY <1>7, <2>6 DEF Matches
    <3>2. Sortable(c.lo) \in Values /\ Sortable(c.hi) \in Values /\ Sortable(c.lo) <= Sortable(c.hi)
      BY <2>6, FilterAssumption
    <3>3. Satisfies(f, c) <=> there /\ Sortable(c.lo) <= v /\ v <= Sortable(c.hi)
      BY <1>5, <1>7, <2>6 DEF Satisfies
    <3> HIDE DEF f, v, there
    <3>4. QED
      BY <2>5, <3>1, <3>2, <3>3 DEF f
  <2>7. CASE c.op # "range"
    <3>1. i \in Matches(c) <=> \E x \in c.numbers : i \in InRange(Sortable(x), Sortable(x))
      BY <1>7, <2>7 DEF Matches
    <3>2. \A x \in c.numbers : Sortable(x) \in Values
      BY <2>7, FilterAssumption
    <3>3. Satisfies(f, c) <=> there /\ \E x \in c.numbers : v = Sortable(x)
      BY <1>5, <1>7, <2>7 DEF Satisfies
    <3> HIDE DEF f, v, there, fld
    <3>4. \A x \in c.numbers : i \in InRange(Sortable(x), Sortable(x)) <=> there /\ v = Sortable(x)
      <4>1. Values \subseteq Nat
        BY NumericAssumption
      <4>2. \A u \in Values : i \in InRange(u, u) <=> there /\ u <= v /\ v <= u
        BY <2>5, <4>1
      <4>3. ASSUME there, NEW u \in Values
            PROVE  u <= v /\ v <= u <=> v = u
        <5>1. u \in Nat /\ v \in Nat
          BY <2>3, <4>1, <4>3
        <5>2. QED
          BY <5>1
      <4>4. QED
        BY <3>2, <4>2, <4>3
    <3>5. QED
      BY <3>1, <3>3, <3>4 DEF f
  <2>8. QED
    BY <2>6, <2>7
<1>8. QED
  BY <1>6, <1>7

\* A condition finds exactly the vectors whose stored filter satisfies it, for any filters,
\* conditions and buckets: while another vector's filter is changed, after changes cut short
\* and across restarts, until a count wraps or a schema cannot be saved.
THEOREM FilterExactHolds == FilterSpec => []FilterExact
BY AlwaysFilterInv, ExactFilters, PTL

LEMMA TypeStays ==
  ASSUME FilterIndexInv, [FilterNext]_allVars
  PROVE  \A f \in Fields : schema[f] # "Unknown" /\ ~saveFailed' => schema'[f] = schema[f]
<1>1. CASE schema' = schema
  BY <1>1
<1>2. CASE \E fld \in Fields : AddField(fld)
  <2>1. PICK fld \in Fields : AddField(fld)
    BY <1>2
  <2>2. Register(fld, op.new[fld].type)
    BY <2>1 DEF AddField
  <2>3. schema' = schema \/ (schema[fld] = "Unknown" /\ schema' = [schema EXCEPT ![fld] = op.new[fld].type])
    BY <2>2 DEF Register
  <2>4. schema \in [Fields -> Kinds]
    BY DEF FilterIndexInv, StatesOK
  <2>5. QED
    BY <2>3, <2>4
<1>3. CASE Restart
  <2>1. schema' = saved /\ saveFailed' = saveFailed
    BY <1>3 DEF Restart
  <2>2. QED
    BY <2>1 DEF FilterIndexInv
<1>4. QED
  BY <1>1, <1>2, <1>3 DEF FilterNext, Insert, Update, RemoveField, StoreMeta, GiveUp, allVars, filterVars

\* The type a field is bound to outlives every change and restart, unless it was not saved.
THEOREM TypesBoundHolds == FilterSpec => TypesBound
<1>1. FilterIndexInv /\ [FilterNext]_allVars =>
        [\A f \in Fields : schema[f] # "Unknown" /\ ~saveFailed' => schema'[f] = schema[f]]_allVars
  BY TypeStays
<1>2. QED
  BY <1>1, AlwaysFilterInv, PTL DEF FilterSpec, TypesBound
=============================================================================
