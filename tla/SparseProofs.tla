----------------------------- MODULE SparseProofs -----------------------------
(***************************************************************************)
(* Proofs about the sparse vectors.  Of what is stored: the postings and   *)
(* headers that merging, removal, tombstones, compaction and quantization  *)
(* leave are exactly those of the stored vectors, and term_info_ and the   *)
(* count of vectors are true when nothing failed.  Of the search of the    *)
(* posting lists: the answer is the best k although lists are pruned and   *)
(* tombstones passed, for any lists.                                       *)
(***************************************************************************)
EXTENDS SparseIndex, SparseSearch, SumProofs

\* A batch of documents, and so every row, is finite; so are the blocks.
LEMMA DocsFinite == \A S \in SUBSET Docs : IsFiniteSet(S) /\ S \subseteq Nat
  BY SparseAssumption, FS_Subset

LEMMA BlocksFinite == IsFiniteSet(BlockNrs) /\ \A d \in Docs : BlockNr(d) \in BlockNrs
<1> DEFINE f == [d \in Docs |-> BlockNr(d)]
<1>1. IsFiniteSet({f[d] : d \in Docs})
  BY SparseAssumption, ImageFinite
<1>2. {f[d] : d \in Docs} = BlockNrs
  BY DEF BlockNrs
<1>3. QED
  BY <1>1, <1>2 DEF BlockNrs

-----------------------------------------------------------------------------
(***************************************************************************)
(* Quantization.                                                           *)
(***************************************************************************)
\* Dividing is monotone where quantization needs it.
LEMMA DivFull == ASSUME NEW l \in Nat \ {0}, NEW t \in Nat PROVE (l * t) \div l = t
OBVIOUS

LEMMA DivPart ==
  ASSUME NEW l \in Nat \ {0}, NEW t \in Nat, NEW c \in 0 .. l
  PROVE  (c * t) \div l \in Nat /\ (c * t) \div l <= t
OBVIOUS

LEMMA DivRound ==
  ASSUME NEW l \in Nat \ {0}, NEW t \in Nat \ {0}, NEW w \in Nat, w < t
  PROVE  (2 * w * l + t) \div (2 * t) \in 0 .. l
OBVIOUS

\* The larger of 1 and a natural.
LEMMA AtLeastOne ==
  ASSUME NEW n \in Nat
  PROVE  Max({1, n}) = IF n = 0 THEN 1 ELSE n
<1>1. CASE n = 0
  BY <1>1, MaxIs
<1>2. CASE n # 0
  BY <1>2, MaxIs
<1>3. QED
  BY <1>1, <1>2

\* A code of a weight up to the block's largest is a byte, 0 only for a dead weight, and
\* the largest weight's code is the largest.
LEMMA QuantizeFits ==
  ASSUME NEW most \in Nat, NEW w \in 0 .. most
  PROVE  /\ Quantize(w, most) \in 0 .. Levels
         /\ Quantize(w, most) = 0 <=> w = 0
         /\ w = most /\ most # 0 => Quantize(w, most) = Levels
<1> USE SparseAssumption
<1>1. CASE most = 0 \/ w = 0
  BY <1>1 DEF Quantize
<1>2. CASE most # 0 /\ w # 0 /\ w >= most
  BY <1>2 DEF Quantize
<1>3. CASE most # 0 /\ w # 0 /\ w < most
  <2> DEFINE q == (2 * w * Levels + most) \div (2 * most)
  <2>1. q \in 0 .. Levels
    BY <1>3, DivRound
  <2> HIDE DEF q
  <2>2. Quantize(w, most) = Max({1, q})
    BY <1>3 DEF Quantize, q
  <2>3. Max({1, q}) = IF q = 0 THEN 1 ELSE q
    BY <2>1, AtLeastOne
  <2>4. Quantize(w, most) \in 1 .. Levels
    BY <2>1, <2>2, <2>3
  <2>5. QED
    BY <1>3, <2>4
<1>4. QED
  BY <1>1, <1>2, <1>3

\* What a code is read as is at most the block's largest weight, positive exactly when the
\* code is live, and the largest weight itself for the largest code.
LEMMA DequantizeFits ==
  ASSUME NEW most \in Nat, NEW code \in 0 .. Levels
  PROVE  /\ Dequantize(code, most) \in 0 .. most
         /\ Dequantize(code, most) > 0 <=> code # 0 /\ most # 0
         /\ code = Levels => Dequantize(code, most) = most
<1> USE SparseAssumption
<1>1. CASE code = 0 \/ most = 0
  BY <1>1 DEF Dequantize
<1>2. CASE code # 0 /\ most # 0
  <2> DEFINE q == (code * most) \div Levels
  <2>1. q \in Nat /\ q <= most
    BY DivPart
  <2>2. code = Levels => q = most
    BY DivFull
  <2> HIDE DEF q
  <2>3. Dequantize(code, most) = Max({1, q})
    BY <1>2 DEF Dequantize, q
  <2>4. Max({1, q}) = IF q = 0 THEN 1 ELSE q
    BY <2>1, AtLeastOne
  <2>5. Dequantize(code, most) \in 1 .. most
    BY <1>2, <2>1, <2>3, <2>4
  <2>6. QED
    BY <1>2, <2>2, <2>3, <2>4, <2>5
<1>3. QED
  BY <1>1, <1>2

-----------------------------------------------------------------------------
(***************************************************************************)
(* Rows.                                                                   *)
(***************************************************************************)
\* A row of block b, whose live count and largest weight are those of what it is read as.
RowExact(row) ==
  /\ row.live = Cardinality(LiveIn(Load(row)))
  /\ \A d \in DOMAIN row.codes : Load(row)[d] <= row.max
  /\ row.max > 0 => \E d \in DOMAIN row.codes : Load(row)[d] = row.max

RowOK(row, b) ==
  row \in RowType /\ (\A d \in DOMAIN row.codes : BlockNr(d) = b) /\ RowExact(row)

\* A row is read as natural weights of the same documents.
LEMMA LoadFits ==
  ASSUME NEW row \in RowType
  PROVE  /\ DOMAIN row.codes \in SUBSET Docs /\ row.live \in Nat /\ row.max \in Nat
         /\ Load(row) \in [DOMAIN row.codes -> Nat]
         /\ \A d \in DOMAIN row.codes : row.codes[d] \in 0 .. Levels
<1>1. PICK S \in SUBSET Docs : row.codes \in [S -> 0 .. Levels]
  BY Zenon DEF RowType
<1>2. row.live \in Nat /\ row.max \in Nat
  BY DEF RowType
<1>3. ASSUME NEW d \in DOMAIN row.codes PROVE Dequantize(row.codes[d], row.max) \in Nat
  BY <1>1, <1>2, <1>3, DequantizeFits
<1>4. QED
  BY <1>1, <1>2, <1>3 DEF Load

\* What is saved of the weights of a block is an exact row: no weight dies or comes to life
\* by being rounded, and the largest is read as it was.
LEMMA SaveExact ==
  ASSUME NEW S \in SUBSET Docs, NEW weights \in [S -> Nat], NEW b \in BlockNrs,
         \A d \in S : BlockNr(d) = b
  PROVE  /\ RowOK(Save(weights), b)
         /\ DOMAIN Save(weights).codes = S
         /\ LiveIn(Load(Save(weights))) = LiveIn(weights)
<1> DEFINE tops == {0} \cup {weights[d] : d \in DOMAIN weights}
           most == Max(tops)
           row == Save(weights)
<1>1. most \in tops /\ most \in Nat /\ \A x \in tops : x <= most
  <2>1. IsFiniteSet({weights[d] : d \in S})
    BY DocsFinite, ImageFinite
  <2>2. tops \in SUBSET Nat /\ tops # {} /\ tops = {0} \cup {weights[d] : d \in S}
    OBVIOUS
  <2>3. IsFiniteSet(tops)
    BY <2>1, <2>2, FS_Singleton, FS_Union
  <2> HIDE DEF tops
  <2>4. QED
    BY <2>2, <2>3, MaxOf
<1>2. \A d \in S : weights[d] \in 0 .. most
  BY <1>1
<1>3. /\ row.codes = [d \in S |-> Quantize(weights[d], most)]
      /\ row.live = Cardinality(LiveIn(weights)) /\ row.max = most
      /\ row = [codes |-> row.codes, live |-> row.live, max |-> row.max]
  BY DEF Save
<1>4. most > 0 => \E d \in S : weights[d] = most
  BY <1>1
<1> HIDE DEF most, row
<1>5. ASSUME NEW d \in S
      PROVE  /\ row.codes[d] \in 0 .. Levels
             /\ row.codes[d] = 0 <=> weights[d] = 0
             /\ weights[d] = most /\ most # 0 => row.codes[d] = Levels
  BY <1>1, <1>2, <1>3, QuantizeFits
<1>6. IsFiniteSet(LiveIn(weights)) /\ Cardinality(LiveIn(weights)) \in Nat
  BY DocsFinite, FS_CardinalityType DEF LiveIn
<1>7. row \in RowType
  <2>1. row.codes \in [S -> 0 .. Levels]
    BY <1>3, <1>5
  <2>2. row.codes \in UNION {[R -> 0 .. Levels] : R \in SUBSET Docs}
    BY <2>1
  <2>3. row.live \in Nat /\ row.max \in Nat
    BY <1>1, <1>3, <1>6
  <2>4. QED
    BY <1>3, <2>2, <2>3, Zenon DEF RowType
<1>8. DOMAIN row.codes = S
  BY <1>3
<1>9. \A d \in S : Load(row)[d] = Dequantize(row.codes[d], most)
  BY <1>3, <1>8 DEF Load
<1>10. ASSUME NEW d \in S
       PROVE  /\ Load(row)[d] \in 0 .. most
              /\ Load(row)[d] > 0 <=> weights[d] > 0
              /\ weights[d] = most => Load(row)[d] = most
  <2>1. Load(row)[d] = Dequantize(row.codes[d], most) /\ row.codes[d] \in 0 .. Levels
    BY <1>5, <1>9
  <2>2. /\ Load(row)[d] \in 0 .. most
        /\ Load(row)[d] > 0 <=> row.codes[d] # 0 /\ most # 0
        /\ row.codes[d] = Levels => Load(row)[d] = most
    BY <1>1, <2>1, DequantizeFits
  <2>3. weights[d] \in 0 .. most
    BY <1>2
  <2>4. QED
    BY <1>1, <1>5, <2>2, <2>3
<1>11. DOMAIN Load(row) = S
  BY <1>8 DEF Load
<1>12. LiveIn(Load(row)) = LiveIn(weights)
  BY <1>10, <1>11 DEF LiveIn
<1>13. RowExact(row)
  BY <1>1, <1>3, <1>4, <1>8, <1>10, <1>12 DEF RowExact
<1>14. QED
  BY <1>7, <1>8, <1>12, <1>13 DEF RowOK, row

-----------------------------------------------------------------------------
(***************************************************************************)
(* A term: its rows and its header.                                        *)
(***************************************************************************)
\* Exact rows of the right blocks.
RowsOK(rows) == rows \in [BlockNrs -> RowType] /\ \A b \in BlockNrs : RowOK(rows[b], b)

\* most is the largest weight of the rows, 0 if they have none.
IsTop(rows, most) ==
  /\ \A b \in BlockNrs : rows[b].max <= most
  /\ most > 0 => \E b \in BlockNrs : rows[b].max = most

\* A header that says what the rows hold.
HeaderOK(header, rows) ==
  /\ header.nr = Total(rows) /\ header.live = TotalLive(rows)
  /\ header.max \in Nat /\ IsTop(rows, header.max)

PartOK(part) == RowsOK(part.rows) /\ HeaderOK(part.header, part.rows)

\* What the two sums of a header are.
LEMMA TotalFits ==
  ASSUME NEW rows, RowsOK(rows)
  PROVE  /\ Total(rows) \in Nat
         /\ \A b \in BlockNrs : DOMAIN rows[b].codes # {} => Total(rows) > 0
<1> DEFINE f == [b \in BlockNrs |-> Cardinality(DOMAIN rows[b].codes)]
<1>1. \A b \in BlockNrs : /\ IsFiniteSet(DOMAIN rows[b].codes)
                          /\ Cardinality(DOMAIN rows[b].codes) \in Nat
  BY LoadFits, DocsFinite, FS_CardinalityType DEF RowsOK
<1>2. f \in [BlockNrs -> Nat] /\ Total(rows) = SumFunction(f)
  BY <1>1 DEF Total, RowsOK
<1> HIDE DEF f
<1>3. SumFunction(f) \in Nat /\ \A b \in BlockNrs : f[b] <= SumFunction(f)
  BY <1>2, BlocksFinite, SumOfFunction
<1>4. ASSUME NEW b \in BlockNrs, DOMAIN rows[b].codes # {} PROVE f[b] \in Nat \ {0}
  BY <1>1, <1>4, FS_EmptySet DEF f
<1>5. QED
  BY <1>2, <1>3, <1>4

LEMMA TotalLiveFits ==
  ASSUME NEW rows, RowsOK(rows)
  PROVE  /\ TotalLive(rows) \in Nat
         /\ \A b \in BlockNrs : rows[b].live \in Nat /\ rows[b].live <= TotalLive(rows)
         /\ (\A b \in BlockNrs : rows[b].live = 0) => TotalLive(rows) = 0
<1> DEFINE f == [b \in BlockNrs |-> rows[b].live]
<1>1. f \in [BlockNrs -> Nat] /\ TotalLive(rows) = SumFunction(f)
  BY LoadFits DEF TotalLive, RowsOK
<1>2. \A b \in BlockNrs : f[b] = rows[b].live
  OBVIOUS
<1> HIDE DEF f
<1>3. QED
  BY <1>1, <1>2, BlocksFinite, SumOfFunction

\* A row without a live posting has no weight; one without entries none that is live.
LEMMA DeadRow ==
  ASSUME NEW b \in BlockNrs, NEW row, RowOK(row, b)
  PROVE  /\ row.live = 0 => row.max = 0
         /\ DOMAIN row.codes = {} => row.live = 0
<1>1. /\ DOMAIN row.codes \in SUBSET Docs /\ row.live \in Nat /\ row.max \in Nat
      /\ Load(row) \in [DOMAIN row.codes -> Nat]
  BY LoadFits DEF RowOK
<1>2. IsFiniteSet(LiveIn(Load(row)))
  BY <1>1, DocsFinite DEF LiveIn
<1>3. row.live = 0 => LiveIn(Load(row)) = {}
  BY <1>2, FS_EmptySet DEF RowOK, RowExact
<1>4. row.max > 0 => LiveIn(Load(row)) # {}
  BY <1>1 DEF RowOK, RowExact, LiveIn
<1>5. DOMAIN row.codes = {} => LiveIn(Load(row)) = {}
  BY <1>1 DEF LiveIn
<1>6. QED
  BY <1>1, <1>3, <1>4, <1>5, FS_EmptySet DEF RowOK, RowExact

\* The header after some rows were saved says what the new rows hold: adding differences
\* and reading the largest weights only when MustRecompute says so loses nothing.
LEMMA HeaderAfterExact ==
  ASSUME NEW part, PartOK(part), NEW new, RowsOK(new)
  PROVE  HeaderOK(HeaderAfter(part.header, part.rows, new), new)
<1> DEFINE header == part.header
           old == part.rows
           tops == {new[b].max : b \in DOMAIN new}
           most == IF MustRecompute(header, old, new) THEN Max(tops)
                  ELSE Max(tops \cup {header.max})
           after == HeaderAfter(header, old, new)
<1>1. /\ RowsOK(old) /\ header.nr = Total(old) /\ header.live = TotalLive(old)
      /\ header.max \in Nat /\ IsTop(old, header.max)
  BY DEF PartOK, HeaderOK
<1>2. /\ Total(new) \in Nat /\ Total(old) \in Nat
      /\ TotalLive(new) \in Nat /\ TotalLive(old) \in Nat
  BY <1>1, TotalFits, TotalLiveFits
<1>3. \A n \in Nat : Max({0, n}) = n
  BY MaxIs
<1>4. /\ Max({0, header.nr + Total(new) - Total(old)}) = Total(new)
      /\ Max({0, header.live + TotalLive(new) - TotalLive(old)}) = TotalLive(new)
  BY <1>1, <1>2, <1>3
<1>5. DOMAIN new = BlockNrs /\ DOMAIN old = BlockNrs
  BY <1>1 DEF RowsOK
<1>6. \A b \in BlockNrs : new[b].max \in Nat /\ old[b].max \in Nat
  BY <1>1, LoadFits DEF RowsOK
<1>7. IsFiniteSet(tops) /\ tops \in SUBSET Nat
  <2> DEFINE f == [b \in BlockNrs |-> new[b].max]
  <2>1. IsFiniteSet({f[b] : b \in BlockNrs})
    BY BlocksFinite, ImageFinite
  <2>2. {f[b] : b \in BlockNrs} = tops
    BY <1>5
  <2>3. tops \in SUBSET Nat
    BY <1>5, <1>6
  <2>4. QED
    BY <2>1, <2>2, <2>3
<1>8. after = IF Total(new) = 0 THEN NoHeader
              ELSE [nr |-> Total(new), live |-> TotalLive(new),
                    max |-> IF TotalLive(new) = 0 THEN 0 ELSE most]
  BY <1>4 DEF HeaderAfter
<1>9. ASSUME TotalLive(new) = 0 PROVE IsTop(new, 0)
  <2>1. \A b \in BlockNrs : new[b].live = 0
    BY <1>9, TotalLiveFits
  <2>2. \A b \in BlockNrs : new[b].max = 0
    BY <2>1, DeadRow DEF RowsOK
  <2>3. QED
    BY <2>2 DEF IsTop
<1>10. CASE Total(new) = 0
  <2>1. \A b \in BlockNrs : DOMAIN new[b].codes = {}
    BY <1>10, TotalFits
  <2>2. \A b \in BlockNrs : new[b].live = 0
    BY <2>1, DeadRow DEF RowsOK
  <2>3. TotalLive(new) = 0
    BY <2>2, TotalLiveFits
  <2>4. after = NoHeader
    BY <1>8, <1>10
  <2> HIDE DEF after
  <2>5. HeaderOK(after, new)
    BY <1>9, <1>10, <2>3, <2>4 DEF HeaderOK, NoHeader
  <2>6. QED
    BY <2>5 DEF after
<1>11. CASE Total(new) # 0 /\ TotalLive(new) = 0
  <2>1. after = [nr |-> Total(new), live |-> TotalLive(new), max |-> 0]
    BY <1>8, <1>11
  <2> HIDE DEF after
  <2>2. HeaderOK(after, new)
    BY <1>9, <1>11, <2>1 DEF HeaderOK
  <2>3. QED
    BY <2>2 DEF after
<1>12. CASE Total(new) # 0 /\ TotalLive(new) # 0
  <2>1. after = [nr |-> Total(new), live |-> TotalLive(new), max |-> most]
    BY <1>8, <1>12
  <2>2. most \in Nat /\ IsTop(new, most)
    <3>1. CASE MustRecompute(header, old, new)
      <4>1. tops # {}
        BY <3>1, <1>5 DEF MustRecompute
      <4> HIDE DEF tops
      <4>2. most \in tops /\ most \in Nat /\ \A x \in tops : x <= most
        BY <3>1, <4>1, <1>7, MaxOf
      <4> HIDE DEF most
      <4>3. QED
        BY <4>2, <1>5 DEF IsTop, tops
    <3>2. CASE ~MustRecompute(header, old, new)
      <4> DEFINE all == tops \cup {header.max}
      <4> HIDE DEF tops
      <4>1. IsFiniteSet(all) /\ all \in SUBSET Nat /\ all # {}
        BY <1>1, <1>7, FS_Singleton, FS_Union
      <4>2. most = Max(all)
        BY <3>2
      <4> HIDE DEF most, all
      <4>3. most \in all /\ most \in Nat /\ \A x \in all : x <= most
        BY <4>1, <4>2, MaxOf
      <4>4. \A b \in BlockNrs : new[b].max <= most
        BY <4>3, <1>5 DEF all, tops
      <4>5. CASE most \in tops
        BY <4>3, <4>4, <4>5, <1>5 DEF IsTop, tops
      <4>6. CASE most \notin tops
        <5>1. most = header.max
          BY <4>3, <4>6 DEF all
        <5>2. ASSUME NEW b \in BlockNrs, old[b].max = header.max, most > 0 PROVE FALSE
          <6>1. new[b].max \in tops
            BY <1>5 DEF tops
          <6>2. new[b].max < header.max
            BY <6>1, <5>1, <4>4, <4>6, <1>6, <4>3
          <6>3. MustRecompute(header, old, new)
            BY <5>1, <5>2, <6>2, <1>5 DEF MustRecompute
          <6>4. QED
            BY <6>3, <3>2
        <5>3. ~(most > 0)
          BY <5>1, <5>2, <1>1 DEF IsTop
        <5>4. QED
          BY <4>3, <4>4, <5>3 DEF IsTop
      <4>7. QED
        BY <4>3, <4>5, <4>6
    <3>3. QED
      BY <3>1, <3>2
  <2> HIDE DEF after, most
  <2>3. HeaderOK(after, new)
    BY <1>12, <2>1, <2>2 DEF HeaderOK
  <2>4. QED
    BY <2>3 DEF after
<1>13. QED
  BY <1>10, <1>11, <1>12

LEMMA WithRowsExact ==
  ASSUME NEW part, PartOK(part), NEW new, RowsOK(new)
  PROVE  PartOK(WithRows(part, new)) /\ WithRows(part, new).rows = new
  BY HeaderAfterExact DEF PartOK, WithRows

\* What HeadersExact asks of a term.
LEMMA CountedOK ==
  ASSUME NEW part, PartOK(part)
  PROVE  Counted(part)
<1> DEFINE rows == {part.rows[b] : b \in BlockNrs}
           weights == {0} \cup UNION {Range(Load(row)) : row \in rows}
<1>1. /\ RowsOK(part.rows) /\ part.header.max \in Nat /\ IsTop(part.rows, part.header.max)
      /\ part.header.nr = Total(part.rows) /\ part.header.live = TotalLive(part.rows)
  BY DEF PartOK, HeaderOK
<1>2. ASSUME NEW b \in BlockNrs
      PROVE  LET row == part.rows[b] IN
             /\ row.max \in Nat /\ row.max <= part.header.max /\ RowExact(row)
             /\ Range(Load(row)) \in SUBSET Nat
             /\ \A x \in Range(Load(row)) : x <= row.max
             /\ row.max > 0 => row.max \in Range(Load(row))
  BY <1>1, LoadFits DEF RowsOK, RowOK, RowExact, IsTop, Range
<1>3. weights \in SUBSET Int
  BY <1>2
<1>4. \A x \in weights : x <= part.header.max
  BY <1>1, <1>2
<1>5. part.header.max \in weights
  BY <1>1, <1>2 DEF IsTop
<1> HIDE DEF weights
<1>6. part.header.max = Max(weights)
  BY <1>3, <1>4, <1>5, MaxIs
<1>7. \A row \in rows : row.live = Cardinality(LiveIn(Load(row)))
  BY <1>2 DEF RowExact
<1>8. QED
  BY <1>1, <1>6, <1>7 DEF Counted, weights

-----------------------------------------------------------------------------
\* A row after the weights in "mine" were merged into it.
Merged(row, mine) ==
  [d \in DOMAIN mine \cup DOMAIN Load(row) |-> IF d \in DOMAIN mine THEN mine[d] ELSE Load(row)[d]]

LEMMA MergeExact ==
  ASSUME NEW b \in BlockNrs, NEW row, RowOK(row, b),
         NEW S \in SUBSET Docs, NEW mine \in [S -> Nat], \A d \in S : BlockNr(d) = b
  PROVE  /\ RowOK(Save(Merged(row, mine)), b)
         /\ LiveIn(Load(Save(Merged(row, mine)))) = LiveIn(mine) \cup (LiveIn(Load(row)) \ S)
<1> DEFINE T == DOMAIN row.codes  w == Merged(row, mine)
<1>1. T \in SUBSET Docs /\ Load(row) \in [T -> Nat] /\ \A d \in T : BlockNr(d) = b
  BY LoadFits DEF RowOK
<1>2. /\ w \in [S \cup T -> Nat] /\ S \cup T \in SUBSET Docs
      /\ \A d \in S \cup T : BlockNr(d) = b
  BY <1>1 DEF Merged
<1>3. LiveIn(w) = LiveIn(mine) \cup (LiveIn(Load(row)) \ S)
  BY <1>1 DEF LiveIn, Merged
<1> HIDE DEF w
<1>4. QED
  BY <1>2, <1>3, SaveExact DEF w

\* addDocumentsBatchInternal leaves a term exact; the documents of the batch are alive
\* where their weight is, the others as they were.
LEMMA AddTermExact ==
  ASSUME NEW part, PartOK(part), NEW U \in SUBSET Docs, NEW updates \in [U -> Nat]
  PROVE  /\ PartOK(AddTerm(part, updates))
         /\ Alive(AddTerm(part, updates)) = LiveIn(updates) \cup (Alive(part) \ U)
<1> DEFINE here(b) == {d \in U : BlockNr(d) = b}
           mine(b) == Restrict(updates, here(b))
           new == [b \in BlockNrs |-> IF here(b) = {} THEN part.rows[b]
                                      ELSE Save(Merged(part.rows[b], mine(b)))]
<1>1. AddTerm(part, updates) = WithRows(part, new)
  <2>1. \A b \in BlockNrs : DOMAIN mine(b) = here(b)
    BY DEF Restrict
  <2>2. QED
    BY <2>1 DEF AddTerm, Merged
<1>2. \A b \in BlockNrs : RowOK(part.rows[b], b)
  BY DEF PartOK, RowsOK
<1>3. ASSUME NEW b \in BlockNrs
      PROVE  /\ RowOK(new[b], b)
             /\ LiveIn(Load(new[b])) =
                  {d \in here(b) : updates[d] > 0} \cup (LiveIn(Load(part.rows[b])) \ here(b))
  <2>1. CASE here(b) = {}
    BY <2>1, <1>2
  <2>2. CASE here(b) # {}
    <3>1. /\ here(b) \in SUBSET Docs /\ mine(b) \in [here(b) -> Nat]
          /\ \A d \in here(b) : BlockNr(d) = b
      BY DEF Restrict
    <3>2. LiveIn(mine(b)) = {d \in here(b) : updates[d] > 0}
      BY DEF LiveIn, Restrict
    <3>3. new[b] = Save(Merged(part.rows[b], mine(b)))
      BY <2>2
    <3> HIDE DEF here, mine, new
    <3>4. QED
      BY <3>1, <3>2, <3>3, <1>2, MergeExact
  <2>3. QED
    BY <2>1, <2>2
<1>4. RowsOK(new)
  BY <1>3 DEF RowsOK, RowOK
<1>5. DOMAIN updates = U
  OBVIOUS
<1> HIDE DEF new
<1>6. PartOK(WithRows(part, new)) /\ WithRows(part, new).rows = new
  BY <1>4, WithRowsExact
<1>7. ASSUME NEW d \in Docs
      PROVE  d \in LiveIn(Load(new[BlockNr(d)])) <=>
               \/ d \in LiveIn(updates)
               \/ d \in LiveIn(Load(part.rows[BlockNr(d)])) /\ d \notin U
  <2>1. BlockNr(d) \in BlockNrs
    BY BlocksFinite
  <2>2. d \in here(BlockNr(d)) <=> d \in U
    OBVIOUS
  <2> HIDE DEF here
  <2>3. QED
    BY <2>1, <2>2, <1>3, <1>5 DEF LiveIn
<1>8. Alive(WithRows(part, new)) = LiveIn(updates) \cup (Alive(part) \ U)
  BY <1>5, <1>6, <1>7 DEF Alive, LiveIn
<1>9. QED
  BY <1>1, <1>6, <1>8

\* A removal finds a posting exactly if it is alive: a term with a live posting has a header.
LEMMA HasLiveExact ==
  ASSUME NEW part, PartOK(part), NEW d \in Docs
  PROVE  HasLive(part, d) <=> d \in Alive(part)
<1> DEFINE row == part.rows[BlockNr(d)]
<1>1. BlockNr(d) \in BlockNrs /\ RowsOK(part.rows) /\ part.header.nr = Total(part.rows)
  BY BlocksFinite DEF PartOK, HeaderOK
<1>2. row \in RowType
  BY <1>1 DEF RowsOK
<1>3. Load(row) \in [DOMAIN row.codes -> Nat]
  BY <1>2, LoadFits
<1>4. d \in LiveIn(Load(row)) => DOMAIN row.codes # {}
  BY <1>3 DEF LiveIn
<1>5. d \in LiveIn(Load(row)) => part.header.nr > 0
  BY <1>1, <1>4, TotalFits
<1>6. QED
  BY <1>5 DEF HasLive, Alive

\* removeDocumentInternal leaves a term exact, with or without compaction; the document is
\* no longer alive, the others are as they were.
LEMMA RemoveTermExact ==
  ASSUME NEW part, PartOK(part), NEW d \in Docs, HasLive(part, d)
  PROVE  /\ PartOK(RemoveTerm(part, d))
         /\ Alive(RemoveTerm(part, d)) = Alive(part) \ {d}
<1> DEFINE n == BlockNr(d)
           row == part.rows[n]
           old == [Load(row) EXCEPT ![d] = 0]
           dead == Cardinality(DOMAIN old) - Max({0, row.live - 1})
           kept == IF dead * TombDen >= TombNum * Cardinality(DOMAIN old)
                     THEN Restrict(old, LiveIn(old)) ELSE old
           new == [part.rows EXCEPT ![n] = Save(kept)]
<1>1. RemoveTerm(part, d) = WithRows(part, new)
  BY DEF RemoveTerm
<1>2. n \in BlockNrs /\ part.rows \in [BlockNrs -> RowType]
      /\ \A b \in BlockNrs : RowOK(part.rows[b], b)
  BY BlocksFinite DEF PartOK, RowsOK
<1>3. /\ DOMAIN row.codes \in SUBSET Docs /\ Load(row) \in [DOMAIN row.codes -> Nat]
      /\ \A e \in DOMAIN row.codes : BlockNr(e) = n
  BY <1>2, LoadFits DEF RowOK
<1> DEFINE D == DOMAIN row.codes
<1> HIDE DEF n, row
<1>4. old \in [D -> Nat] /\ LiveIn(old) = LiveIn(Load(row)) \ {d} /\ DOMAIN old = D
  <2> DEFINE w == Load(row)
  <2>1. w \in [D -> Nat] /\ old = [w EXCEPT ![d] = 0]
    BY <1>3
  <2> HIDE DEF w, old, D
  <2>2. old \in [D -> Nat] /\ DOMAIN old = D
    BY <2>1
  <2>3. \A e \in D : old[e] = IF e = d THEN 0 ELSE w[e]
    BY <2>1
  <2>4. LiveIn(old) = LiveIn(w) \ {d}
    BY <2>1, <2>2, <2>3 DEF LiveIn
  <2>5. QED
    BY <2>2, <2>4 DEF w
<1>5. kept \in {old, Restrict(old, LiveIn(old))}
  OBVIOUS
<1>6. PICK S \in SUBSET D : kept \in [S -> Nat] /\ LiveIn(kept) = LiveIn(old)
  <2> HIDE DEF kept, old
  <2>1. CASE kept = old
    BY <2>1, <1>4
  <2>2. CASE kept = Restrict(old, LiveIn(old))
    <3>1. /\ LiveIn(old) \in SUBSET D /\ kept \in [LiveIn(old) -> Nat]
          /\ LiveIn(kept) = LiveIn(old)
      BY <2>2, <1>4 DEF LiveIn, Restrict
    <3>2. QED
      BY <3>1
  <2>3. QED
    BY <2>1, <2>2, <1>5
<1>7. S \in SUBSET Docs /\ \A e \in S : BlockNr(e) = n
  BY <1>3, <1>6
<1> HIDE DEF kept, old
<1>8. /\ RowOK(Save(kept), n)
      /\ LiveIn(Load(Save(kept))) = LiveIn(Load(row)) \ {d}
  BY <1>2, <1>4, <1>6, <1>7, SaveExact
<1>9. RowsOK(new)
  BY <1>2, <1>8 DEF RowsOK, RowOK
<1>10. PartOK(WithRows(part, new)) /\ WithRows(part, new).rows = new
  BY <1>9, WithRowsExact
<1>11. ASSUME NEW e \in Docs
       PROVE  e \in LiveIn(Load(new[BlockNr(e)])) <=>
                e \in LiveIn(Load(part.rows[BlockNr(e)])) /\ e # d
  <2>1. BlockNr(e) \in BlockNrs
    BY BlocksFinite
  <2>2. CASE BlockNr(e) = n
    <3>1. new[BlockNr(e)] = Save(kept)
      BY <1>2, <2>2
    <3>2. part.rows[BlockNr(e)] = row
      BY <2>2 DEF row
    <3>3. QED
      BY <1>8, <3>1, <3>2
  <2>3. CASE BlockNr(e) # n
    <3>1. e # d
      BY <2>3 DEF n
    <3>2. new[BlockNr(e)] = part.rows[BlockNr(e)]
      BY <1>2, <2>1, <2>3
    <3>3. QED
      BY <3>1, <3>2
  <2>4. QED
    BY <2>2, <2>3
<1> HIDE DEF new
<1>12. Alive(WithRows(part, new)) = Alive(part) \ {d}
  BY <1>10, <1>11 DEF Alive
<1>13. QED
  BY <1>1, <1>10, <1>12

-----------------------------------------------------------------------------
(***************************************************************************)
(* The whole index: vectors and postings together.                         *)
(***************************************************************************)
DocsOK(docs) ==
  DOMAIN docs \in SUBSET Docs /\ \A d \in DOMAIN docs : DOMAIN docs[d] \in SUBSET Terms

\* A document is alive for a term exactly if its vector says so, or if it is a stray.
AliveRight(view, more) ==
  \A t \in Terms, d \in Docs :
    d \in Alive(view.postings[t]) <=> <<t, d>> \in Pairs(view.docs) \/ <<t, d>> \in more

ViewExact(view, more) ==
  /\ DocsOK(view.docs) /\ \A t \in Terms : PartOK(view.postings[t])
  /\ more \in SUBSET (Terms \X Docs) /\ AliveRight(view, more)

\* The inductive invariant: both views are exact.
SparseInv ==
  /\ ViewExact(db, stray.db) /\ ViewExact(work, stray.work)
  /\ stray = [db |-> stray.db, work |-> stray.work]
  /\ writing \in {"none", "store", "delete"}
  /\ writing = "none" => work = db /\ stray.work = stray.db
  /\ info \in [Terms -> Nat] /\ count \in Int /\ adds \in Nat

LEMMA PairsOf ==
  ASSUME NEW docs
  PROVE  /\ \A t, d : <<t, d>> \in Pairs(docs) <=>
              d \in DOMAIN docs /\ t \in DOMAIN docs[d] /\ docs[d][t] > 0
         /\ \A t, d : <<t, d>> \in Named(docs) <=> d \in DOMAIN docs /\ t \in DOMAIN docs[d]
  BY DEF Pairs, Named

LEMMA PairsTyped ==
  ASSUME NEW docs, DocsOK(docs)
  PROVE  Pairs(docs) \in SUBSET (Terms \X Docs)
  BY DEF Pairs, DocsOK

\* The terms read back of a vector are some of those it was stored with, at their weights.
LEMMA PackedPart ==
  ASSUME NEW v
  PROVE  /\ DOMAIN Packed(v) \in SUBSET DOMAIN v
         /\ \A t \in DOMAIN Packed(v) : Packed(v)[t] = v[t]
  BY DEF Packed, Restrict

\* Weights of a batch.
LEMMA BatchFits ==
  ASSUME NEW batch \in Batches
  PROVE  /\ DOMAIN batch \in SUBSET Docs
         /\ \A d \in DOMAIN batch : DOMAIN batch[d] \in SUBSET Terms
         /\ \A d \in DOMAIN batch : \A t \in DOMAIN batch[d] : batch[d][t] \in Nat
  BY SparseAssumption

\* Every posting of the batch lives as its weight does; the others are as before.
LEMMA AddDocumentsExact ==
  ASSUME \A t \in Terms : PartOK(work.postings[t]), NEW batch \in Batches, NEW t \in Terms
  PROVE  /\ PartOK(AddDocuments(batch)[t])
         /\ \A d \in Docs :
              d \in Alive(AddDocuments(batch)[t]) <=>
                IF <<t, d>> \in Named(batch) THEN <<t, d>> \in Pairs(batch)
                ELSE d \in Alive(work.postings[t])
<1> DEFINE U == {e \in DOMAIN batch : t \in DOMAIN batch[e]}
           updates == UpdatesOf(batch, t)
           part == work.postings[t]
<1>1. U \in SUBSET Docs /\ updates \in [U -> Nat] /\ \A d \in U : updates[d] = batch[d][t]
  BY BatchFits DEF UpdatesOf
<1>2. \A d : /\ <<t, d>> \in Named(batch) <=> d \in U
             /\ <<t, d>> \in Pairs(batch) <=> d \in U /\ updates[d] > 0
  BY <1>1, PairsOf
<1>3. CASE t \in TermsOf(batch)
  <2>1. AddDocuments(batch)[t] = AddTerm(part, updates)
    BY <1>3 DEF AddDocuments
  <2> HIDE DEF U, updates, part
  <2>2. PartOK(part)
    BY DEF part
  <2>3. PartOK(AddTerm(part, updates))
    BY <1>1, <2>2, AddTermExact
  <2>4. Alive(AddTerm(part, updates)) = LiveIn(updates) \cup (Alive(part) \ U)
    BY <1>1, <2>2, AddTermExact
  <2>5. LiveIn(updates) = {d \in U : updates[d] > 0}
    BY <1>1 DEF LiveIn
  <2>6. QED
    BY <1>2, <2>1, <2>3, <2>4, <2>5 DEF part
<1>4. CASE t \notin TermsOf(batch)
  <2>1. AddDocuments(batch)[t] = part
    BY <1>4 DEF AddDocuments
  <2>2. \A d : <<t, d>> \notin Named(batch)
    BY <1>4, PairsOf DEF TermsOf
  <2>3. QED
    BY <2>1, <2>2
<1>5. QED
  BY <1>3, <1>4

\* No posting of the removed document lives on in the terms its vector names.
LEMMA RemoveDocumentExact ==
  ASSUME \A t \in Terms : PartOK(work.postings[t]), DocsOK(work.docs),
         NEW d \in DOMAIN work.docs, NEW t \in Terms
  PROVE  /\ PartOK(RemoveDocument(d)[t])
         /\ \A e \in Docs :
              e \in Alive(RemoveDocument(d)[t]) <=>
                e \in Alive(work.postings[t]) /\ ~(e = d /\ t \in DOMAIN work.docs[d])
<1> DEFINE part == work.postings[t]
<1>1. d \in Docs /\ PartOK(part)
  BY DEF DocsOK
<1>2. HasLive(part, d) <=> d \in Alive(part)
  BY <1>1, HasLiveExact
<1>3. t \in LiveTerms(d) <=> t \in DOMAIN work.docs[d] /\ HasLive(part, d)
  BY DEF LiveTerms
<1>4. RemoveDocument(d)[t] = IF t \in LiveTerms(d) THEN RemoveTerm(part, d) ELSE part
  BY DEF RemoveDocument
<1> HIDE DEF part
<1>5. CASE t \in LiveTerms(d)
  <2>1. PartOK(RemoveTerm(part, d)) /\ Alive(RemoveTerm(part, d)) = Alive(part) \ {d}
    BY <1>1, <1>3, <1>5, RemoveTermExact
  <2>2. QED
    BY <1>3, <1>4, <1>5, <2>1 DEF part
<1>6. CASE t \notin LiveTerms(d)
  BY <1>1, <1>2, <1>3, <1>4, <1>6 DEF part
<1>7. QED
  BY <1>5, <1>6

\* A stored batch leaves the open transaction's view exact.
LEMMA StoreExact ==
  ASSUME SparseInv, NEW batch \in Batches, StoreBatch(batch)
  PROVE  /\ ViewExact(work', stray.work')
         /\ stray' = [db |-> stray.db, work |-> stray'.work]
<1> DEFINE stored == StoredIn(batch)
           docs == [d \in DOMAIN work.docs \cup DOMAIN batch |->
                      IF d \in DOMAIN batch THEN stored[d] ELSE work.docs[d]]
           over == Restrict(work.docs, DOMAIN batch \cap DOMAIN work.docs)
           more == ((stray.work \cup Pairs(over)) \ Named(batch))
                     \cup (Pairs(batch) \ Pairs(stored))
<1>1. work' = [docs |-> docs, postings |-> AddDocuments(batch)]
  BY DEF StoreBatch
<1>2. stray' = [db |-> stray.db, work |-> more]
  BY DEF StoreBatch, SparseInv
<1>3. /\ DocsOK(work.docs) /\ stray.work \in SUBSET (Terms \X Docs)
      /\ \A t \in Terms : PartOK(work.postings[t])
      /\ AliveRight(work, stray.work)
  BY DEF SparseInv, ViewExact
<1>4. \A d \in DOMAIN batch :
        /\ DOMAIN stored[d] \in SUBSET DOMAIN batch[d]
        /\ \A t \in DOMAIN stored[d] : stored[d][t] = batch[d][t]
  BY PackedPart DEF StoredIn
<1>5. DOMAIN stored = DOMAIN batch
  BY DEF StoredIn
<1>6. \A d \in DOMAIN over : over[d] = work.docs[d]
  BY DEF Restrict
<1>7. DOMAIN over = DOMAIN batch \cap DOMAIN work.docs
  BY DEF Restrict
<1> HIDE DEF stored, over
<1>8. DocsOK(docs) /\ DocsOK(over) /\ DocsOK(batch)
  BY <1>3, <1>4, <1>6, <1>7, BatchFits DEF DocsOK
<1>9. more \in SUBSET (Terms \X Docs)
  BY <1>3, <1>8, PairsTyped
<1>10. ASSUME NEW t \in Terms, NEW d \in Docs
       PROVE  d \in Alive(AddDocuments(batch)[t]) <=>
                <<t, d>> \in Pairs(docs) \/ <<t, d>> \in more
  <2>1. d \in Alive(AddDocuments(batch)[t]) <=>
          IF <<t, d>> \in Named(batch) THEN <<t, d>> \in Pairs(batch)
          ELSE d \in Alive(work.postings[t])
    BY <1>3, AddDocumentsExact
  <2>2. d \in Alive(work.postings[t]) <=>
          <<t, d>> \in Pairs(work.docs) \/ <<t, d>> \in stray.work
    BY <1>3 DEF AliveRight
  <2>3. <<t, d>> \in Named(batch) <=> d \in DOMAIN batch /\ t \in DOMAIN batch[d]
    BY PairsOf
  <2>4. <<t, d>> \in Pairs(batch) <=> d \in DOMAIN batch /\ t \in DOMAIN batch[d] /\ batch[d][t] > 0
    BY PairsOf
  <2>5. <<t, d>> \in Pairs(stored) => <<t, d>> \in Pairs(batch)
    BY <1>4, <1>5, PairsOf
  <2>6. <<t, d>> \in Pairs(over) <=> d \in DOMAIN batch /\ <<t, d>> \in Pairs(work.docs)
    BY <1>6, <1>7, PairsOf
  <2>7. <<t, d>> \in Pairs(docs) <=>
          IF d \in DOMAIN batch THEN <<t, d>> \in Pairs(stored) ELSE <<t, d>> \in Pairs(work.docs)
    BY <1>5, PairsOf
  <2>8. <<t, d>> \in more <=>
          \/ (<<t, d>> \in stray.work \/ <<t, d>> \in Pairs(over)) /\ <<t, d>> \notin Named(batch)
          \/ <<t, d>> \in Pairs(batch) /\ <<t, d>> \notin Pairs(stored)
    OBVIOUS
  <2> HIDE DEF docs, more
  <2>9. QED
    BY <2>1, <2>2, <2>3, <2>4, <2>5, <2>6, <2>7, <2>8
<1>11. \A t \in Terms : PartOK(AddDocuments(batch)[t])
  BY <1>3, AddDocumentsExact
<1> HIDE DEF docs, more
<1>12. ViewExact(work', more)
  BY <1>1, <1>8, <1>9, <1>10, <1>11 DEF ViewExact, AliveRight
<1>13. QED
  BY <1>2, <1>12

\* A removal leaves the open transaction's view exact.
LEMMA DeleteExact ==
  ASSUME SparseInv, NEW d \in Docs, DeleteVector(d)
  PROVE  /\ ViewExact(work', stray.work')
         /\ stray' = [db |-> stray.db, work |-> stray'.work]
<1> DEFINE docs == Restrict(work.docs, DOMAIN work.docs \ {d})
           more == stray.work \ {<<t, d>> : t \in DOMAIN work.docs[d]}
<1>1. d \in DOMAIN work.docs /\ work' = [docs |-> docs, postings |-> RemoveDocument(d)]
  BY DEF DeleteVector
<1>2. stray' = [db |-> stray.db, work |-> more]
  BY DEF DeleteVector, SparseInv
<1>3. /\ DocsOK(work.docs) /\ stray.work \in SUBSET (Terms \X Docs)
      /\ \A t \in Terms : PartOK(work.postings[t])
      /\ AliveRight(work, stray.work)
  BY DEF SparseInv, ViewExact
<1>4. DOMAIN docs = DOMAIN work.docs \ {d} /\ \A e \in DOMAIN docs : docs[e] = work.docs[e]
  BY DEF Restrict
<1> HIDE DEF docs
<1>5. DocsOK(docs) /\ more \in SUBSET (Terms \X Docs)
  BY <1>3, <1>4 DEF DocsOK
<1>6. ASSUME NEW t \in Terms, NEW e \in Docs
      PROVE  e \in Alive(RemoveDocument(d)[t]) <=>
               <<t, e>> \in Pairs(docs) \/ <<t, e>> \in more
  <2>1. e \in Alive(RemoveDocument(d)[t]) <=>
          e \in Alive(work.postings[t]) /\ ~(e = d /\ t \in DOMAIN work.docs[d])
    BY <1>1, <1>3, RemoveDocumentExact
  <2>2. e \in Alive(work.postings[t]) <=>
          <<t, e>> \in Pairs(work.docs) \/ <<t, e>> \in stray.work
    BY <1>3 DEF AliveRight
  <2>3. <<t, e>> \in Pairs(docs) <=> e # d /\ <<t, e>> \in Pairs(work.docs)
    BY <1>4, PairsOf
  <2>4. <<t, e>> \in Pairs(work.docs) => t \in DOMAIN work.docs[e]
    BY PairsOf
  <2>5. <<t, e>> \in more <=> <<t, e>> \in stray.work /\ ~(e = d /\ t \in DOMAIN work.docs[d])
    OBVIOUS
  <2> HIDE DEF more
  <2>6. QED
    BY <2>1, <2>2, <2>3, <2>4, <2>5
<1>7. \A t \in Terms : PartOK(RemoveDocument(d)[t])
  BY <1>1, <1>3, RemoveDocumentExact
<1> HIDE DEF more
<1>8. ViewExact(work', more)
  BY <1>1, <1>5, <1>6, <1>7 DEF ViewExact, AliveRight
<1>9. QED
  BY <1>2, <1>8

-----------------------------------------------------------------------------
\* An index without vectors is exact.
LEMMA EmptyPartExact ==
  ASSUME NEW part, part = [rows |-> [b \in BlockNrs |-> NoRow], header |-> NoHeader]
  PROVE  PartOK(part) /\ Alive(part) = {}
<1>1. NoRow \in RowType /\ DOMAIN NoRow.codes = {} /\ NoRow.live = 0 /\ NoRow.max = 0
  <2>1. NoMap \in [{} -> 0 .. Levels]
    BY DEF NoMap
  <2>2. NoMap \in UNION {[S -> 0 .. Levels] : S \in SUBSET Docs}
    BY <2>1
  <2>3. QED
    BY <2>2 DEF NoRow, RowType, NoMap
<1>2. LiveIn(Load(NoRow)) = {}
  BY <1>1 DEF LiveIn, Load
<1>3. \A b \in BlockNrs : RowOK(NoRow, b)
  BY <1>1, <1>2, FS_EmptySet DEF RowOK, RowExact
<1>4. RowsOK(part.rows)
  BY <1>1, <1>3 DEF RowsOK
<1>5. \A b \in BlockNrs : part.rows[b] = NoRow
  OBVIOUS
<1>6. TotalLive(part.rows) = 0
  BY <1>1, <1>4, <1>5, TotalLiveFits
<1>7. Total(part.rows) = 0
  <2> DEFINE f == [b \in BlockNrs |-> Cardinality(DOMAIN part.rows[b].codes)]
  <2>1. f \in [BlockNrs -> Nat] /\ \A b \in BlockNrs : f[b] = 0
    BY <1>1, <1>5, FS_EmptySet
  <2>2. Total(part.rows) = SumFunction(f)
    BY DEF Total
  <2> HIDE DEF f
  <2>3. QED
    BY <2>1, <2>2, BlocksFinite, SumOfFunction
<1>8. HeaderOK(part.header, part.rows)
  BY <1>1, <1>5, <1>6, <1>7 DEF HeaderOK, NoHeader, IsTop
<1>9. Alive(part) = {}
  BY <1>2, <1>5, BlocksFinite DEF Alive
<1>10. QED
  BY <1>4, <1>8, <1>9 DEF PartOK

LEMMA SparseInvInit == SparseInit => SparseInv
<1> SUFFICES ASSUME SparseInit PROVE SparseInv
  OBVIOUS
<1>1. DOMAIN db.docs = {} /\ work = db
  BY DEF SparseInit, NoMap
<1>2. \A t \in Terms :
        db.postings[t] = [rows |-> [b \in BlockNrs |-> NoRow], header |-> NoHeader]
  BY DEF SparseInit
<1>3. \A t \in Terms : PartOK(db.postings[t]) /\ Alive(db.postings[t]) = {}
  BY <1>2, EmptyPartExact
<1>4. stray = [db |-> {}, work |-> {}]
  BY DEF SparseInit
<1>5. AliveRight(db, {})
  BY <1>1, <1>3, PairsOf DEF AliveRight
<1>6. ViewExact(db, {})
  BY <1>1, <1>3, <1>5 DEF ViewExact, DocsOK
<1>7. QED
  BY <1>1, <1>4, <1>6 DEF SparseInit, SparseInv

\* term_info_ has naturals.
LEMMA InfoTyped ==
  ASSUME NEW postings, \A t \in Terms : PartOK(postings[t]), info \in [Terms -> Nat], NEW done
  PROVE  InfoAfter(postings, done) \in [Terms -> Nat] /\ LoadTermInfo(postings) \in [Terms -> Nat]
<1>1. \A t \in Terms : InfoOf(postings[t].header) \in Nat
  BY DEF PartOK, HeaderOK, InfoOf
<1>2. QED
  BY <1>1 DEF InfoAfter, LoadTermInfo

\* The step lemma: every operation, and its failure, leaves both views exact.
LEMMA SparseInvNext == SparseInv /\ [SparseNext]_sparseVars => SparseInv'
<1> SUFFICES ASSUME SparseInv, [SparseNext]_sparseVars PROVE SparseInv'
  OBVIOUS
<1>1. ASSUME NEW batch \in Batches, StoreBatch(batch) PROVE SparseInv'
  <2>1. ViewExact(work', stray.work') /\ stray' = [db |-> stray.db, work |-> stray'.work]
    BY <1>1, StoreExact
  <2>2. \A t \in Terms : PartOK(AddDocuments(batch)[t])
    BY <1>1, AddDocumentsExact DEF SparseInv, ViewExact
  <2>3. info' \in [Terms -> Nat]
    BY <1>1, <2>2, InfoTyped DEF StoreBatch, SparseInv
  <2>4. adds' \in Nat
    BY <1>1, BatchFits, DocsFinite, FS_CardinalityType DEF StoreBatch
  <2>5. ViewExact(db', stray.db') /\ count' \in Int /\ writing' = "store"
    BY <1>1, <2>1 DEF StoreBatch, SparseInv
  <2>6. QED
    BY <2>1, <2>3, <2>4, <2>5 DEF SparseInv
<1>2. ASSUME NEW batch \in Batches, NEW done \in SUBSET Terms, StoreFails(batch, done)
      PROVE  SparseInv'
  <2>1. \A t \in Terms : PartOK(AddDocuments(batch)[t])
    BY AddDocumentsExact DEF SparseInv, ViewExact
  <2>2. info' \in [Terms -> Nat]
    BY <1>2, <2>1, InfoTyped DEF StoreFails, SparseInv
  <2>3. QED
    BY <1>2, <2>2 DEF StoreFails, SparseInv
<1>3. ASSUME NEW d \in Docs, DeleteVector(d) PROVE SparseInv'
  <2>1. ViewExact(work', stray.work') /\ stray' = [db |-> stray.db, work |-> stray'.work]
    BY <1>3, DeleteExact
  <2>2. \A t \in Terms : PartOK(RemoveDocument(d)[t])
    BY <1>3, RemoveDocumentExact DEF DeleteVector, SparseInv, ViewExact
  <2>3. info' \in [Terms -> Nat]
    BY <1>3, <2>2, InfoTyped DEF DeleteVector, SparseInv
  <2>4. ViewExact(db', stray.db') /\ count' \in Int /\ writing' = "delete" /\ adds' \in Nat
    BY <1>3, <2>1 DEF DeleteVector, SparseInv
  <2>5. QED
    BY <2>1, <2>3, <2>4 DEF SparseInv
<1>4. ASSUME NEW d \in Docs, NEW done \in SUBSET Terms, DeleteFails(d, done)
      PROVE  SparseInv'
  <2>1. \A t \in Terms : PartOK(RemoveDocument(d)[t])
    BY <1>4, RemoveDocumentExact DEF DeleteFails, SparseInv, ViewExact
  <2>2. info' \in [Terms -> Nat]
    BY <1>4, <2>1, InfoTyped DEF DeleteFails, SparseInv
  <2>3. QED
    BY <1>4, <2>2 DEF DeleteFails, SparseInv
<1>5. ASSUME Commit PROVE SparseInv'
  <2>1. stray' = [db |-> stray.work, work |-> stray.work] /\ db' = work /\ work' = work
    BY <1>5 DEF Commit, SparseInv
  <2>2. count' \in Int
    BY <1>5 DEF Commit, SparseInv
  <2>3. QED
    BY <1>5, <2>1, <2>2 DEF Commit, SparseInv
<1>6. ASSUME CommitFails PROVE SparseInv'
  <2>1. stray' = [db |-> stray.db, work |-> stray.db] /\ db' = db /\ work' = db
    BY <1>6 DEF CommitFails, SparseInv
  <2>2. QED
    BY <1>6, <2>1 DEF CommitFails, SparseInv
<1>7. ASSUME Reopen PROVE SparseInv'
  <2>1. stray' = [db |-> stray.db, work |-> stray.db] /\ db' = db /\ work' = db
    BY <1>7 DEF Reopen, SparseInv
  <2>2. info' \in [Terms -> Nat]
    BY <1>7, InfoTyped DEF Reopen, SparseInv, ViewExact
  <2>3. count' \in Int
    BY <1>7, DocsFinite, FS_CardinalityType DEF Reopen, StoredCount, SparseInv, ViewExact, DocsOK
  <2>4. QED
    BY <1>7, <2>1, <2>2, <2>3 DEF Reopen, SparseInv
<1>8. CASE UNCHANGED sparseVars
  BY <1>8 DEF sparseVars, SparseInv
<1>9. QED
  BY <1>1, <1>2, <1>3, <1>4, <1>5, <1>6, <1>7, <1>8 DEF SparseNext

LEMMA SparseInvHolds == SparseSpec => []SparseInv
  BY SparseInvInit, SparseInvNext, PTL DEF SparseSpec

\* PostingsExact: in every state, whatever was stored, stored over, removed, compacted,
\* given up or reopened, and however weights were rounded to bytes, the live postings are
\* those of the stored vectors, and the strays the code is known to leave.
THEOREM PostingsStayExact == SparseSpec => []PostingsExact
<1>1. SparseInv => PostingsExact
  <2>1. ASSUME NEW view, NEW more, ViewExact(view, more)
        PROVE  LivePostings(view) = Pairs(view.docs) \cup more
    <3>1. Pairs(view.docs) \in SUBSET (Terms \X Docs) /\ more \in SUBSET (Terms \X Docs)
      BY <2>1, PairsTyped DEF ViewExact
    <3>2. ASSUME NEW p \in Terms \X Docs
          PROVE  p \in LivePostings(view) <=> p \in Pairs(view.docs) \cup more
      <4>1. PICK t \in Terms, d \in Docs : p = <<t, d>>
        OBVIOUS
      <4>2. p \in LivePostings(view) <=> d \in Alive(view.postings[t])
        BY <4>1 DEF LivePostings
      <4>3. QED
        BY <2>1, <4>1, <4>2 DEF ViewExact, AliveRight
    <3>3. QED
      BY <3>1, <3>2 DEF LivePostings
  <2>2. QED
    BY <2>1 DEF SparseInv, PostingsExact
<1>2. QED
  BY <1>1, SparseInvHolds, PTL

\* HeadersExact: in every state the types hold and every term's header says of its rows how
\* many entries they have, how many are live, and the largest weight a search decodes.
THEOREM HeadersStayExact == SparseSpec => []HeadersExact
<1>1. SparseInv => HeadersExact
  <2> SUFFICES ASSUME SparseInv PROVE HeadersExact
    OBVIOUS
  <2>1. ASSUME NEW view, NEW more, ViewExact(view, more) PROVE ViewOK(view)
    BY <2>1 DEF ViewExact, ViewOK, DocsOK, PartOK, RowsOK, RowOK
  <2>2. SparseTypeOK
    BY <2>1 DEF SparseInv, SparseTypeOK
  <2>3. \A t \in Terms : Counted(db.postings[t]) /\ Counted(work.postings[t])
    BY CountedOK DEF SparseInv, ViewExact
  <2>4. QED
    BY <2>2, <2>3 DEF HeadersExact
<1>2. QED
  BY <1>1, SparseInvHolds, PTL

-----------------------------------------------------------------------------
(***************************************************************************)
(* What is kept in memory.                                                 *)
(***************************************************************************)
\* InfoFresh: unless a transaction was given up since the index was opened, term_info_ is
\* the open transaction's largest weights, term by term.
THEOREM InfoStaysFresh == SparseSpec => []InfoFresh
<1>1. SparseInit => InfoFresh
  <2> SUFFICES ASSUME SparseInit PROVE info = LoadTermInfo(work.postings)
    BY DEF InfoFresh
  <2>1. \A t \in Terms : work.postings[t].header = NoHeader
    BY DEF SparseInit
  <2>2. QED
    BY <2>1 DEF SparseInit, LoadTermInfo, InfoOf, NoHeader
<1>2. SparseInv /\ InfoFresh /\ [SparseNext]_sparseVars => InfoFresh'
  <2> SUFFICES ASSUME SparseInv, InfoFresh, [SparseNext]_sparseVars, ~stale'
               PROVE  info' = LoadTermInfo(work.postings')
    BY DEF InfoFresh
  <2>1. ASSUME NEW batch \in Batches, StoreBatch(batch)
        PROVE  info' = LoadTermInfo(work.postings')
    <3>1. info = LoadTermInfo(work.postings)
      BY <2>1 DEF StoreBatch, InfoFresh
    <3>2. work.postings' = AddDocuments(batch) /\ info' = InfoAfter(AddDocuments(batch), TermsOf(batch))
      BY <2>1 DEF StoreBatch
    <3>3. \A t \in Terms \ TermsOf(batch) : AddDocuments(batch)[t] = work.postings[t]
      BY DEF AddDocuments
    <3>4. \A t \in Terms \ TermsOf(batch) : info[t] = InfoOf(AddDocuments(batch)[t].header)
      BY <3>1, <3>3 DEF LoadTermInfo
    <3>5. QED
      BY <3>2, <3>4 DEF InfoAfter, LoadTermInfo
  <2>2. ASSUME NEW d \in Docs, DeleteVector(d)
        PROVE  info' = LoadTermInfo(work.postings')
    <3>1. info = LoadTermInfo(work.postings)
      BY <2>2 DEF DeleteVector, InfoFresh
    <3>2. work.postings' = RemoveDocument(d) /\ info' = InfoAfter(RemoveDocument(d), LiveTerms(d))
      BY <2>2 DEF DeleteVector
    <3>3. \A t \in Terms \ LiveTerms(d) : RemoveDocument(d)[t] = work.postings[t]
      BY DEF RemoveDocument
    <3>4. \A t \in Terms \ LiveTerms(d) : info[t] = InfoOf(RemoveDocument(d)[t].header)
      BY <3>1, <3>3 DEF LoadTermInfo
    <3>5. QED
      BY <3>2, <3>4 DEF InfoAfter, LoadTermInfo
  <2>3. CASE Commit
    BY <2>3 DEF Commit, InfoFresh
  <2>4. CASE Reopen
    BY <2>4 DEF Reopen
  <2>5. CASE UNCHANGED sparseVars
    BY <2>5 DEF sparseVars, InfoFresh
  <2>6. ~CommitFails /\ \A batch \in Batches, done \in SUBSET Terms : ~StoreFails(batch, done)
    BY DEF CommitFails, StoreFails
  <2>7. \A d \in Docs, done \in SUBSET Terms : ~DeleteFails(d, done)
    BY DEF DeleteFails
  <2>8. QED
    BY <2>1, <2>2, <2>3, <2>4, <2>5, <2>6, <2>7 DEF SparseNext
<1>3. QED
  BY <1>1, <1>2, SparseInvHolds, PTL DEF SparseSpec

\* How many vectors the open transaction has more than the committed ones.
CountInv ==
  ~stale /\ ~rewritten =>
    LET before == Cardinality(DOMAIN db.docs)
        gone == IF writing = "delete" THEN 1 ELSE 0
    IN  /\ count = before - gone
        /\ Cardinality(DOMAIN work.docs) =
             before - gone + (IF writing = "store" THEN adds ELSE 0)

\* CountExact: with no failure and no vector stored over since the index was opened,
\* vector_count_ is the number of committed vectors, less one under a removal.
THEOREM CountStaysExact == SparseSpec => []CountExact
<1>1. SparseInit => CountInv
  BY FS_EmptySet DEF SparseInit, CountInv, NoMap
<1>2. SparseInv /\ CountInv /\ [SparseNext]_sparseVars => CountInv'
  <2> SUFFICES ASSUME SparseInv, CountInv, [SparseNext]_sparseVars, ~stale', ~rewritten'
               PROVE  LET before == Cardinality(DOMAIN db'.docs)
                          gone == IF writing' = "delete" THEN 1 ELSE 0
                      IN  /\ count' = before - gone
                          /\ Cardinality(DOMAIN work'.docs) =
                               before - gone + (IF writing' = "store" THEN adds' ELSE 0)
    BY DEF CountInv
  <2>1. /\ DOMAIN db.docs \in SUBSET Docs /\ DOMAIN work.docs \in SUBSET Docs
        /\ Cardinality(DOMAIN db.docs) \in Nat /\ Cardinality(DOMAIN work.docs) \in Nat
        /\ IsFiniteSet(DOMAIN work.docs)
        /\ adds \in Nat /\ count \in Int
        /\ writing = "none" => work = db
    BY DocsFinite, FS_CardinalityType DEF SparseInv, ViewExact, DocsOK
  <2>2. ASSUME NEW batch \in Batches, StoreBatch(batch)
        PROVE  /\ count' = Cardinality(DOMAIN db'.docs) /\ writing' = "store"
               /\ Cardinality(DOMAIN work'.docs) = Cardinality(DOMAIN db'.docs) + adds'
    <3>1. ~stale /\ ~rewritten /\ work = db /\ writing = "none"
      BY <2>1, <2>2 DEF StoreBatch
    <3>2. DOMAIN batch \cap DOMAIN work.docs = {}
      BY <2>2 DEF StoreBatch, Restrict
    <3>3. DOMAIN work'.docs = DOMAIN work.docs \cup DOMAIN batch
      BY <2>2 DEF StoreBatch
    <3>4. IsFiniteSet(DOMAIN batch) /\ Cardinality(DOMAIN batch) \in Nat
      BY BatchFits, DocsFinite, FS_CardinalityType
    <3>5. Cardinality(DOMAIN work'.docs) = Cardinality(DOMAIN work.docs) + Cardinality(DOMAIN batch)
      <4>1. Cardinality(DOMAIN work.docs \cup DOMAIN batch) =
              Cardinality(DOMAIN work.docs) + Cardinality(DOMAIN batch)
                - Cardinality(DOMAIN work.docs \cap DOMAIN batch)
        BY <2>1, <3>4, FS_Union
      <4>2. DOMAIN work.docs \cap DOMAIN batch = {}
        BY <3>2
      <4>3. Cardinality(DOMAIN work.docs \cap DOMAIN batch) = 0
        BY <4>2, FS_EmptySet
      <4>4. QED
        BY <2>1, <3>3, <3>4, <4>1, <4>3
    <3>6. count = Cardinality(DOMAIN db.docs)
      BY <2>1, <3>1 DEF CountInv
    <3>7. count' = count /\ adds' = Cardinality(DOMAIN batch) /\ db' = db /\ writing' = "store"
      BY <2>2 DEF StoreBatch
    <3>8. QED
      BY <3>1, <3>5, <3>6, <3>7
  <2>3. ASSUME NEW d \in Docs, DeleteVector(d)
        PROVE  /\ count' = Cardinality(DOMAIN db'.docs) - 1 /\ writing' = "delete"
               /\ Cardinality(DOMAIN work'.docs) = Cardinality(DOMAIN db'.docs) - 1
    <3>1. ~stale /\ ~rewritten /\ work = db /\ writing = "none" /\ d \in DOMAIN work.docs
      BY <2>1, <2>3 DEF DeleteVector
    <3>2. DOMAIN work'.docs = DOMAIN work.docs \ {d}
      BY <2>3 DEF DeleteVector, Restrict
    <3>3. Cardinality(DOMAIN work'.docs) = Cardinality(DOMAIN work.docs) - 1
      <4>1. Cardinality(DOMAIN work.docs \ {d}) =
              IF d \in DOMAIN work.docs THEN Cardinality(DOMAIN work.docs) - 1
              ELSE Cardinality(DOMAIN work.docs)
        BY <2>1, FS_RemoveElement, Zenon
      <4>2. QED
        BY <3>1, <3>2, <4>1
    <3>4. count = Cardinality(DOMAIN db.docs)
      BY <2>1, <3>1 DEF CountInv
    <3>5. count' = count - 1 /\ db' = db /\ writing' = "delete"
      BY <2>3 DEF DeleteVector
    <3>6. QED
      BY <3>1, <3>3, <3>4, <3>5
  <2>4. CASE Commit
    <3>1. /\ db' = work /\ work' = work /\ writing' = "none"
          /\ count' = IF writing = "store" THEN count + adds ELSE count
          /\ ~stale /\ ~rewritten /\ writing \in {"store", "delete"}
      BY <2>4 DEF Commit, SparseInv
    <3>2. /\ count = Cardinality(DOMAIN db.docs) - (IF writing = "delete" THEN 1 ELSE 0)
          /\ Cardinality(DOMAIN work.docs) =
               Cardinality(DOMAIN db.docs) - (IF writing = "delete" THEN 1 ELSE 0)
                 + (IF writing = "store" THEN adds ELSE 0)
      BY <3>1 DEF CountInv
    <3>3. count' = Cardinality(DOMAIN work.docs)
      BY <2>1, <3>1, <3>2
    <3>4. QED
      BY <2>1, <3>1, <3>3
  <2>5. CASE Reopen
    BY <2>1, <2>5 DEF Reopen, StoredCount
  <2>6. CASE UNCHANGED sparseVars
    BY <2>6 DEF sparseVars, CountInv
  <2>7. ~CommitFails /\ \A batch \in Batches, done \in SUBSET Terms : ~StoreFails(batch, done)
    BY DEF CommitFails, StoreFails
  <2>8. \A d \in Docs, done \in SUBSET Terms : ~DeleteFails(d, done)
    BY DEF DeleteFails
  <2>9. ASSUME NEW batch \in Batches, StoreBatch(batch) PROVE adds' \in Nat /\ Cardinality(DOMAIN db'.docs) \in Nat
    BY <2>1, <2>9, BatchFits, DocsFinite, FS_CardinalityType DEF StoreBatch
  <2>10. ASSUME NEW d \in Docs, DeleteVector(d) PROVE Cardinality(DOMAIN db'.docs) \in Nat
    BY <2>1, <2>10 DEF DeleteVector
  <2>11. QED
    BY <2>2, <2>3, <2>4, <2>5, <2>6, <2>7, <2>8, <2>9, <2>10 DEF SparseNext
<1>3. CountInv => CountExact
  BY DEF CountInv, CountExact
<1>4. QED
  BY <1>1, <1>2, <1>3, SparseInvHolds, PTL DEF SparseSpec

-----------------------------------------------------------------------------
(***************************************************************************)
(* The search of the posting lists.                                        *)
(***************************************************************************)
\* The documents that postings name.
Documents == 0 .. (Exhausted - 1)

\* What a term adds to the score of a document.
Gain(t, d) == IF d \in DOMAIN List(t) THEN List(t)[d] * search.weight[t] ELSE 0

\* The terms that have a document in their list.
ListsWith(d) == {t \in DOMAIN search.lists : d \in DOMAIN List(t)}

-----------------------------------------------------------------------------
(***************************************************************************)
(* Arithmetic: comparing blocks and then offsets compares documents.       *)
(***************************************************************************)
LEMMA Divided ==
  ASSUME NEW b \in Nat \ {0}, NEW d \in Nat
  PROVE  /\ d \div b \in Nat /\ d % b \in 0 .. (b - 1)
         /\ d = b * (d \div b) + (d % b)
OBVIOUS

LEMMA SmallerBlock ==
  ASSUME NEW b \in Nat \ {0}, NEW p \in Nat, NEW q \in Nat, p < q,
         NEW i \in 0 .. (b - 1), NEW j \in Nat
  PROVE  b * p + i < b * q + j
<1>1. b * q = b * p + b * (q - p)
  OBVIOUS
<1>2. b * (q - p) >= b
  OBVIOUS
<1>3. QED
  BY <1>1, <1>2

\* Finitely many documents.
LEMMA DocumentsFinite == IsFiniteSet(Documents)
<1>1. Exhausted \in Nat
  BY SearchAssumption
<1>2. QED
  BY <1>1, FS_Interval DEF Documents

LEMMA UpToIs ==
  ASSUME NEW d \in Nat, NEW last \in Nat
  PROVE  /\ UpTo(d, last) <=> d <= last
         /\ From(d, last) <=> d >= last
<1> DEFINE b == BlockCap  p == d \div b  q == last \div b  i == d % b  j == last % b
<1>1. b \in Nat \ {0}
  BY BlockAssumption
<1>2. /\ p \in Nat /\ i \in 0 .. (b - 1) /\ d = b * p + i
      /\ q \in Nat /\ j \in 0 .. (b - 1) /\ last = b * q + j
  BY <1>1, Divided
<1>3. UpTo(d, last) <=> (p < q \/ (p = q /\ i <= j))
  BY DEF UpTo, BlockNr, Offset
<1>4. From(d, last) <=> (p > q \/ (p = q /\ i >= j))
  BY DEF From, BlockNr, Offset
<1> HIDE DEF b, p, q, i, j
<1>5. CASE p < q
  <2>1. d < last
    BY <1>1, <1>2, <1>5, SmallerBlock
  <2>2. QED
    BY <1>2, <1>3, <1>4, <1>5, <2>1
<1>6. CASE p > q
  <2>1. last < d
    BY <1>1, <1>2, <1>6, SmallerBlock
  <2>2. QED
    BY <1>2, <1>3, <1>4, <1>6, <2>1
<1>7. CASE p = q
  <2>1. b * p = b * q /\ b * p \in Nat
    BY <1>1, <1>2, <1>7
  <2>2. d <= last <=> i <= j
    BY <1>2, <2>1
  <2>3. d >= last <=> i >= j
    BY <1>2, <2>1
  <2>4. QED
    BY <1>2, <1>3, <1>4, <1>7, <2>2, <2>3
<1>8. QED
  BY <1>2, <1>5, <1>6, <1>7

-----------------------------------------------------------------------------
(***************************************************************************)
(* Scores.                                                                 *)
(***************************************************************************)
\* What the assumption says of the search at hand.
LEMMA Lists ==
  ASSUME search \in Searches
  PROVE  /\ IsFiniteSet(DOMAIN search.lists) /\ search.k \in Nat
         /\ DOMAIN search.weight = DOMAIN search.lists
         /\ \A t \in DOMAIN search.lists :
              /\ search.weight[t] \in Nat
              /\ DOMAIN List(t) \subseteq Documents
              /\ \A d \in DOMAIN List(t) : List(t)[d] \in Nat
  BY SearchAssumption DEF List, Documents

LEMMA GainIs ==
  ASSUME search \in Searches, NEW t \in DOMAIN search.lists, NEW d
  PROVE  Gain(t, d) \in Nat
<1>1. search.weight[t] \in Nat /\ \A e \in DOMAIN List(t) : List(t)[e] \in Nat
  BY Lists
<1>2. QED
  BY <1>1 DEF Gain

\* The sum over some of the terms that have the document.
LEMMA AddedIs ==
  ASSUME search \in Searches, NEW d, NEW terms \in SUBSET ListsWith(d)
  PROVE  LET f == [t \in ListsWith(d) |-> Gain(t, d)] IN
         /\ IsFiniteSet(ListsWith(d)) /\ f \in [ListsWith(d) -> Nat]
         /\ Added(terms, d) = Sums(f)[terms]
<1> DEFINE f == [t \in ListsWith(d) |-> Gain(t, d)]
           h == [t \in terms |-> List(t)[d] * search.weight[t]]
<1>1. IsFiniteSet(ListsWith(d))
  BY Lists, FS_Subset DEF ListsWith
<1>2. f \in [ListsWith(d) -> Nat]
  BY GainIs DEF ListsWith
<1>3. \A t \in terms : h[t] = f[t]
  BY DEF ListsWith, Gain
<1>4. h \in [terms -> Nat]
  BY <1>2, <1>3
<1>5. Added(terms, d) = SumFunction(h)
  BY DEF Added
<1> HIDE DEF f, h
<1>6. SumFunction(h) = Sums(f)[terms]
  BY <1>1, <1>2, <1>3, <1>4, SumOfPart
<1>7. QED
  BY <1>1, <1>2, <1>5, <1>6 DEF f

\* A score is the sum over those terms that add to it.
LEMMA ScoreIs ==
  ASSUME search \in Searches, NEW d, NEW terms \in SUBSET ListsWith(d),
         \A t \in ListsWith(d) \ terms : Gain(t, d) = 0
  PROVE  Added(terms, d) = Score(d) /\ Score(d) \in Nat
<1> DEFINE f == [t \in ListsWith(d) |-> Gain(t, d)]
<1>1. IsFiniteSet(ListsWith(d)) /\ f \in [ListsWith(d) -> Nat] /\ Added(terms, d) = Sums(f)[terms]
  BY AddedIs
<1>2. Added(ListsWith(d), d) = Sums(f)[ListsWith(d)]
  BY AddedIs
<1>3. Score(d) = Added(ListsWith(d), d)
  BY DEF Score, ListsWith
<1>4. \A t \in ListsWith(d) \ terms : f[t] = 0
  OBVIOUS
<1> HIDE DEF f
<1>5. Sums(f)[ListsWith(d)] = Sums(f)[terms]
  BY <1>1, <1>4, SumZeros
<1>6. Sums(f)[ListsWith(d)] \in Nat
  BY <1>1, SumsTyped
<1>7. QED
  BY <1>1, <1>2, <1>3, <1>5, <1>6

LEMMA ScoreIsNat ==
  ASSUME search \in Searches, NEW d
  PROVE  Score(d) \in Nat
  BY ScoreIs DEF ListsWith

\* Without a term that adds to it a score is 0.
LEMMA NoScore ==
  ASSUME search \in Searches, NEW d, \A t \in ListsWith(d) : Gain(t, d) = 0
  PROVE  Score(d) = 0
<1> DEFINE f == [t \in ListsWith(d) |-> Gain(t, d)]
<1>1. Added({}, d) = Score(d)
  BY ScoreIs
<1>2. Added({}, d) = Sums(f)[{}] /\ IsFiniteSet(ListsWith(d)) /\ f \in [ListsWith(d) -> Nat]
  BY AddedIs
<1> HIDE DEF f
<1>3. Sums(f)[{}] = SumOver(Sums(f), f, {})
  BY <1>2, SumsTyped
<1>4. QED
  BY <1>1, <1>2, <1>3 DEF SumOver

\* With one such term it is what the term adds.
LEMMA OneScore ==
  ASSUME search \in Searches, NEW d, NEW u \in ListsWith(d),
         \A t \in ListsWith(d) \ {u} : Gain(t, d) = 0
  PROVE  Score(d) = Gain(u, d)
<1> DEFINE f == [t \in ListsWith(d) |-> Gain(t, d)]
<1>1. Added({u}, d) = Score(d)
  BY ScoreIs
<1>2. Added({u}, d) = Sums(f)[{u}] /\ IsFiniteSet(ListsWith(d)) /\ f \in [ListsWith(d) -> Nat]
  BY AddedIs
<1>3. f[u] = Gain(u, d) /\ f[u] \in Nat
  BY <1>2
<1> HIDE DEF f
<1>4. Sums(f)[{u}] = f[u] + Sums(f)[{u} \ {u}]
  <2>1. PICK s \in SUBSET ListsWith(d) : s = {u}
    OBVIOUS
  <2>2. u \in s
    BY <2>1
  <2>3. Sums(f)[s] = f[u] + Sums(f)[s \ {u}]
    BY <1>2, <2>2, SumWithout
  <2>4. QED
    BY <2>1, <2>3
<1>5. {u} \ {u} = {}
  OBVIOUS
<1>6. Sums(f)[{}] = 0
  <2>1. Sums(f)[{}] = SumOver(Sums(f), f, {})
    BY <1>2, SumsTyped
  <2>2. QED
    BY <2>1 DEF SumOver
<1>7. Sums(f)[{u}] = f[u] + 0
  BY <1>4, <1>5, <1>6
<1>8. QED
  BY <1>1, <1>2, <1>3, <1>7

\* What matches is a document, and these are finitely many.
LEMMA MatchingIs ==
  ASSUME search \in Searches
  PROVE  /\ Matching \subseteq Documents
         /\ \A D \in SUBSET Matching : IsFiniteSet(D) /\ Cardinality(D) \in Nat
<1>1. ASSUME NEW d \in Matching PROVE d \in Documents
  <2>1. Score(d) # 0
    BY <1>1, ScoreIsNat DEF Matching
  <2>2. PICK t \in ListsWith(d) : TRUE
    BY <2>1, NoScore
  <2>3. QED
    BY <2>2, Lists DEF ListsWith
<1>2. QED
  BY <1>1, DocumentsFinite, FS_Subset, FS_CardinalityType

-----------------------------------------------------------------------------
(***************************************************************************)
(* Iterators.                                                              *)
(***************************************************************************)
\* No live posting is passed by.
LEMMA NextLiveIs ==
  ASSUME search \in Searches, NEW t \in DOMAIN search.lists, NEW entries \in SUBSET DOMAIN List(t)
  PROVE  /\ NextLive(t, entries) \in 0 .. Exhausted
         /\ NextLive(t, entries) \in entries \cup {Exhausted}
         /\ \A d \in entries : Gain(t, d) > 0 => NextLive(t, entries) <= d
<1> DEFINE L == Live(List(t), entries) \cup {Exhausted}
<1>1. entries \subseteq Documents /\ Exhausted \in Nat
  BY Lists, SearchAssumption
<1>2. L \in SUBSET Nat /\ L # {} /\ L \subseteq 0 .. Exhausted /\ L \subseteq entries \cup {Exhausted}
  <2>1. Documents \subseteq 0 .. Exhausted /\ 0 .. Exhausted \subseteq Nat /\ Exhausted \in 0 .. Exhausted
    BY <1>1 DEF Documents
  <2>2. L \subseteq entries \cup {Exhausted} /\ L # {}
    BY DEF Live
  <2>3. QED
    BY <1>1, <2>1, <2>2
<1>3. NextLive(t, entries) = Min(L)
  BY DEF NextLive
<1>4. ASSUME NEW d \in entries, Gain(t, d) > 0 PROVE d \in L
  <2>1. List(t)[d] \in Nat /\ search.weight[t] \in Nat /\ Gain(t, d) = List(t)[d] * search.weight[t]
    BY Lists DEF Gain
  <2>2. List(t)[d] # 0
    BY <1>4, <2>1
  <2>3. List(t)[d] > 0
    BY <2>1, <2>2
  <2>4. QED
    BY <2>3 DEF Live
<1> HIDE DEF L
<1>5. Min(L) \in L /\ \A x \in L : Min(L) <= x
  BY <1>2, MinOf
<1>6. QED
  BY <1>2, <1>3, <1>4, <1>5

\* The first document that one of these terms is at.
LEMMA MinCurIs ==
  ASSUME NEW at, NEW terms, \A t \in terms : at[t] \in 0 .. Exhausted
  PROVE  /\ MinCur(at, terms) \in 0 .. Exhausted
         /\ \A t \in terms : MinCur(at, terms) <= at[t]
         /\ MinCur(at, terms) = Exhausted \/ \E t \in terms : MinCur(at, terms) = at[t]
<1> DEFINE L == {at[t] : t \in terms} \cup {Exhausted}
<1>1. Exhausted \in Nat
  BY SearchAssumption
<1>2. L \in SUBSET Nat /\ L # {} /\ L \subseteq 0 .. Exhausted
  BY <1>1
<1>3. MinCur(at, terms) = Min(L)
  BY DEF MinCur
<1>4. \A t \in terms : at[t] \in L
  OBVIOUS
<1>5. \A x \in L : x = Exhausted \/ \E t \in terms : x = at[t]
  OBVIOUS
<1> HIDE DEF L
<1>6. Min(L) \in L /\ \A x \in L : Min(L) <= x
  BY <1>2, MinOf
<1>7. QED
  BY <1>2, <1>3, <1>4, <1>5, <1>6

\* No posting of a term adds more than its upper bound.
LEMMA TimesGrows ==
  ASSUME NEW a \in Nat, NEW b \in Nat, NEW w \in Nat, a <= b
  PROVE  a * w <= b * w
OBVIOUS

LEMMA UpperBoundIs ==
  ASSUME search \in Searches, NEW t \in DOMAIN search.lists, NEW d
  PROVE  UpperBound(t) \in Nat /\ Gain(t, d) <= UpperBound(t)
<1> DEFINE R == Range(List(t)) \cup {0}
<1>1. /\ search.weight[t] \in Nat /\ DOMAIN List(t) \subseteq Documents
      /\ \A e \in DOMAIN List(t) : List(t)[e] \in Nat
  BY Lists
<1>2. IsFiniteSet(DOMAIN List(t))
  BY <1>1, DocumentsFinite, FS_Subset
<1>3. Range(List(t)) = {List(t)[e] : e \in DOMAIN List(t)}
  BY DEF Range
<1>4. IsFiniteSet(Range(List(t)))
  BY <1>2, <1>3, ImageFinite
<1>5. IsFiniteSet(R) /\ R \in SUBSET Nat /\ R # {}
  BY <1>1, <1>3, <1>4, FS_AddElement
<1>6. \A e \in DOMAIN List(t) : List(t)[e] \in R
  BY <1>3
<1> HIDE DEF R
<1>7. Max(R) \in R /\ \A x \in R : x <= Max(R)
  BY <1>5, MaxOf
<1>8. Max(R) \in Nat
  BY <1>5, <1>7
<1>9. UpperBound(t) = Max(R) * search.weight[t]
  BY DEF UpperBound, R
<1>10. UpperBound(t) \in Nat
  BY <1>1, <1>8, <1>9
<1>11. CASE d \in DOMAIN List(t)
  <2>1. List(t)[d] \in Nat /\ List(t)[d] <= Max(R)
    BY <1>1, <1>6, <1>7, <1>11
  <2>2. List(t)[d] * search.weight[t] <= Max(R) * search.weight[t]
    BY <1>1, <1>8, <2>1, TimesGrows
  <2>3. QED
    BY <1>9, <1>10, <1>11, <2>2 DEF Gain
<1>12. CASE d \notin DOMAIN List(t)
  BY <1>10, <1>12 DEF Gain
<1>13. QED
  BY <1>11, <1>12

-----------------------------------------------------------------------------
(***************************************************************************)
(* The queue.                                                              *)
(***************************************************************************)
\* BestOf, of any queue.
Best(q, docs) ==
  /\ DOMAIN q \subseteq docs
  /\ \A d \in DOMAIN q : q[d] = Score(d)
  /\ Cardinality(DOMAIN q) = Min({search.k, Cardinality(docs)})
  /\ \A d \in docs \ DOMAIN q, e \in DOMAIN q : Score(d) <= q[e]

\* The threshold a queue has when it is full.
Threshold(q, bound) ==
  /\ Cardinality(DOMAIN q) < search.k => bound = 0
  /\ Cardinality(DOMAIN q) = search.k => bound = Min(Range(q))

LEMMA MinOfTwo ==
  ASSUME NEW a \in Nat, NEW b \in Nat
  PROVE  Min({a, b}) = IF a <= b THEN a ELSE b
<1>1. Min({a, b}) \in {a, b} /\ \A x \in {a, b} : Min({a, b}) <= x
  <2>1. {a, b} \in SUBSET Nat /\ {a, b} # {}
    OBVIOUS
  <2>2. QED
    BY <2>1, MinOf
<1>2. QED
  BY <1>1

\* A queue of the best is of known size, and full or complete.
LEMMA BestIs ==
  ASSUME search \in Searches, NEW docs \in SUBSET Matching, NEW q, Best(q, docs)
  PROVE  /\ IsFiniteSet(DOMAIN q) /\ Cardinality(DOMAIN q) \in Nat
         /\ Cardinality(DOMAIN q) <= search.k
         /\ Cardinality(DOMAIN q) <= Cardinality(docs)
         /\ Cardinality(DOMAIN q) < search.k => DOMAIN q = docs
<1>1. /\ IsFiniteSet(docs) /\ Cardinality(docs) \in Nat /\ search.k \in Nat
      /\ IsFiniteSet(DOMAIN q) /\ Cardinality(DOMAIN q) \in Nat
  <2>1. DOMAIN q \in SUBSET Matching
    BY DEF Best
  <2>2. QED
    BY <2>1, MatchingIs, Lists
<1>2. Cardinality(DOMAIN q) = IF search.k <= Cardinality(docs) THEN search.k ELSE Cardinality(docs)
  BY <1>1, MinOfTwo DEF Best
<1>3. ASSUME Cardinality(DOMAIN q) < search.k PROVE DOMAIN q = docs
  <2>1. Cardinality(DOMAIN q) = Cardinality(docs)
    BY <1>1, <1>2, <1>3
  <2>2. DOMAIN q \subseteq docs
    BY DEF Best
  <2>3. QED
    BY <1>1, <2>1, <2>2, FS_Subset
<1>4. QED
  BY <1>1, <1>2, <1>3

\* What does not match may be passed.
LEMMA SameBest ==
  ASSUME NEW docs, NEW more, more = docs, NEW q, Best(q, docs)
  PROVE  Best(q, more)
OBVIOUS

\* The values of a queue that is not empty have a smallest one.
LEMMA LowestOf ==
  ASSUME search \in Searches, NEW docs \in SUBSET Matching, NEW q, Best(q, docs), DOMAIN q # {}
  PROVE  /\ Min(Range(q)) \in Nat
         /\ \A d \in DOMAIN q : Min(Range(q)) <= q[d]
         /\ \E d \in DOMAIN q : Min(Range(q)) = q[d]
<1>1. \A d \in DOMAIN q : q[d] \in Nat
  BY ScoreIsNat DEF Best
<1>2. Range(q) \in SUBSET Nat /\ Range(q) # {}
  BY <1>1 DEF Range
<1>3. Min(Range(q)) \in Range(q) /\ \A x \in Range(q) : Min(Range(q)) <= x
  BY <1>2, MinOf
<1>4. QED
  BY <1>2, <1>3 DEF Range

\* Documents that score no more than a full queue's threshold may be passed.
LEMMA PassBest ==
  ASSUME search \in Searches, search.k > 0, NEW docs \in SUBSET Matching, NEW q, Best(q, docs),
         NEW bound, Threshold(q, bound), NEW more \in SUBSET Matching, docs \subseteq more,
         \A d \in more \ docs : Score(d) <= bound
  PROVE  Best(q, more)
<1>1. CASE more = docs
  BY <1>1
<1>2. CASE more # docs
  <2>1. PICK d \in more : d \notin docs
    BY <1>2
  <2>2. search.k \in Nat /\ Score(d) \in Nat /\ Score(d) > 0
    BY <2>1, Lists, ScoreIsNat DEF Matching
  <2>3. /\ Cardinality(DOMAIN q) \in Nat /\ Cardinality(DOMAIN q) <= search.k
        /\ Cardinality(DOMAIN q) <= Cardinality(docs)
    BY BestIs
  <2>4. bound # 0
    BY <2>1, <2>2
  <2>5. Cardinality(DOMAIN q) = search.k
    BY <2>2, <2>3, <2>4 DEF Threshold
  <2>6. bound = Min(Range(q)) /\ DOMAIN q # {}
    <3>1. DOMAIN q # {}
      BY <2>5, <2>2, FS_EmptySet
    <3>2. QED
      BY <2>5, <3>1 DEF Threshold
  <2>7. bound \in Nat /\ \A e \in DOMAIN q : bound <= q[e] /\ q[e] \in Nat
    BY <2>6, LowestOf, ScoreIsNat DEF Best
  <2>8. Cardinality(docs) <= Cardinality(more) /\ Cardinality(docs) \in Nat /\ Cardinality(more) \in Nat
    <3>1. IsFiniteSet(more) /\ Cardinality(docs) \in Nat /\ Cardinality(more) \in Nat
      BY MatchingIs
    <3>2. QED
      BY <3>1, FS_Subset
  <2>9. Cardinality(DOMAIN q) = Min({search.k, Cardinality(more)})
    BY <2>2, <2>3, <2>5, <2>8, MinOfTwo
  <2>10. ASSUME NEW c \in more \ DOMAIN q, NEW e \in DOMAIN q PROVE Score(c) <= q[e]
    <3>1. CASE c \in docs
      BY <3>1 DEF Best
    <3>2. CASE c \notin docs
      <4>1. Score(c) <= bound /\ Score(c) \in Nat
        BY <3>2, ScoreIsNat
      <4>2. QED
        BY <2>7, <4>1
    <3>3. QED
      BY <3>1, <3>2
  <2>11. DOMAIN q \subseteq more
    BY DEF Best
  <2>12. QED
    BY <2>9, <2>10, <2>11 DEF Best
<1>3. QED
  BY <1>1, <1>2

\* A queue that is not full takes the next document that matches.
LEMMA JoinBest ==
  ASSUME search \in Searches, NEW docs \in SUBSET Matching, NEW q, Best(q, docs),
         Cardinality(DOMAIN q) < search.k, NEW d \in Matching, d \notin docs,
         NEW p, DOMAIN p = DOMAIN q \cup {d}, \A e \in DOMAIN q : p[e] = q[e], p[d] = Score(d)
  PROVE  Best(p, docs \cup {d})
<1>1. /\ DOMAIN q = docs /\ search.k \in Nat /\ IsFiniteSet(docs) /\ Cardinality(docs) \in Nat
  BY BestIs, MatchingIs, Lists
<1>2. Cardinality(docs \cup {d}) = Cardinality(docs) + 1
  BY <1>1, FS_AddElement
<1>3. Cardinality(docs) + 1 <= search.k /\ Cardinality(docs) + 1 \in Nat
  BY <1>1
<1>4. Cardinality(DOMAIN p) = Min({search.k, Cardinality(docs \cup {d})})
  <2>1. Cardinality(DOMAIN p) = Cardinality(docs) + 1
    BY <1>1, <1>2
  <2>2. Min({search.k, Cardinality(docs) + 1}) = Cardinality(docs) + 1
    BY <1>1, <1>3, MinOfTwo
  <2>3. QED
    BY <1>2, <2>1, <2>2
<1>5. DOMAIN p = docs \cup {d}
  BY <1>1
<1>6. \A e \in DOMAIN p : p[e] = Score(e)
  BY DEF Best
<1>7. QED
  BY <1>4, <1>5, <1>6 DEF Best

\* A full queue gives up a lowest document for one that scores higher.
LEMMA SwapBest ==
  ASSUME search \in Searches, NEW docs \in SUBSET Matching, NEW q, Best(q, docs),
         search.k > 0, Cardinality(DOMAIN q) = search.k,
         NEW d \in Matching, d \notin docs, Score(d) > Min(Range(q)),
         NEW l \in Lowest(q), NEW p, DOMAIN p = (DOMAIN q \ {l}) \cup {d},
         \A e \in DOMAIN q \ {l} : p[e] = q[e], p[d] = Score(d)
  PROVE  Best(p, docs \cup {d})
<1>1. /\ IsFiniteSet(docs) /\ Cardinality(docs) \in Nat /\ search.k \in Nat
      /\ IsFiniteSet(DOMAIN q) /\ Cardinality(DOMAIN q) <= Cardinality(docs)
      /\ DOMAIN q \subseteq docs
  BY BestIs, MatchingIs, Lists DEF Best
<1>2. l \in DOMAIN q /\ q[l] = Min(Range(q)) /\ DOMAIN q # {}
  BY DEF Lowest
<1>3. q[l] \in Nat /\ Score(d) \in Nat /\ Score(d) > q[l] /\ \A e \in DOMAIN q : q[l] <= q[e] /\ q[e] \in Nat
  BY <1>2, LowestOf, ScoreIsNat DEF Best
<1>4. Cardinality(DOMAIN p) = search.k
  <2>1. Cardinality(DOMAIN q \ {l}) = search.k - 1 /\ IsFiniteSet(DOMAIN q \ {l})
    BY <1>1, <1>2, FS_RemoveElement, FS_Subset
  <2>2. d \notin DOMAIN q \ {l}
    BY <1>1
  <2>3. Cardinality(DOMAIN p) = (search.k - 1) + 1
    BY <2>1, <2>2, FS_AddElement
  <2>4. QED
    BY <1>1, <2>3
<1>5. Cardinality(docs \cup {d}) = Cardinality(docs) + 1
  BY <1>1, FS_AddElement
<1>6. Cardinality(DOMAIN p) = Min({search.k, Cardinality(docs \cup {d})})
  <2>1. search.k <= Cardinality(docs) + 1 /\ Cardinality(docs) + 1 \in Nat
    BY <1>1
  <2>2. QED
    BY <1>1, <1>4, <1>5, <2>1, MinOfTwo
<1>7. DOMAIN p \subseteq docs \cup {d} /\ \A e \in DOMAIN p : p[e] = Score(e)
  BY <1>1 DEF Best
<1>8. ASSUME NEW c \in (docs \cup {d}) \ DOMAIN p, NEW e \in DOMAIN p PROVE Score(c) <= p[e]
  <2>1. c \in docs /\ c \notin DOMAIN q \ {l} /\ Score(c) \in Nat
    BY <1>8, ScoreIsNat
  <2>2. Score(c) <= q[l]
    <3>1. CASE c = l
      BY <1>2, <1>3, <3>1 DEF Best
    <3>2. CASE c # l
      BY <1>2, <2>1, <3>2 DEF Best
    <3>3. QED
      BY <3>1, <3>2
  <2>3. CASE e = d
    BY <1>3, <2>1, <2>2, <2>3
  <2>4. CASE e # d
    <3>1. e \in DOMAIN q /\ p[e] = q[e]
      BY <2>4
    <3>2. QED
      BY <1>3, <2>1, <2>2, <3>1
  <2>5. QED
    BY <2>3, <2>4
<1>9. QED
  BY <1>6, <1>7, <1>8 DEF Best

-----------------------------------------------------------------------------
(***************************************************************************)
(* The invariant.                                                          *)
(***************************************************************************)
\* The documents behind this one that match.
Behind(low) == {d \in Matching : d < low}

\* From here on no iterator has passed a posting that adds to a score.
AheadAll(low) ==
  \A t \in DOMAIN search.lists, d \in Documents :
    d >= low /\ Gain(t, d) > 0 => t \in DOMAIN cur /\ cur[t] <= d

Iterators ==
  /\ DOMAIN cur \subseteq DOMAIN search.lists
  /\ cur \in [DOMAIN cur -> 0 .. Exhausted]

WindowSound ==
  phase = "window" => Best(top, Behind(minId)) /\ AheadAll(minId)

\* While a window is looked through: what is behind is settled, the window's scores are whole, and
\* the iterators are behind it.
ScanSound ==
  phase = "scan" =>
    /\ local \in Nat /\ window[2] \in 0 .. Exhausted /\ local <= window[2] + 1
    /\ Best(top, Behind(local))
    /\ \A d \in local .. window[2] : scores[d] = Score(d)
    /\ AheadAll(window[2] + 1)
    /\ \A t \in DOMAIN cur : cur[t] = Exhausted \/ cur[t] > window[2]

SearchInv ==
  /\ search \in Searches /\ phase \in {"window", "scan", "done"}
  /\ Iterators /\ minId \in 0 .. Exhausted
  /\ phase # "done" => search.k > 0
  /\ phase # "done" => Threshold(top, threshold)
  /\ WindowSound /\ ScanSound
  /\ phase = "done" => Best(top, Matching)

LEMMA BehindIs ==
  ASSUME NEW low
  PROVE  Behind(low) \in SUBSET Matching
  BY DEF Behind

\* It implies what the run checks.
LEMMA InvGivesTopK == SearchInv => TopK
<1> SUFFICES ASSUME SearchInv PROVE TopK
  OBVIOUS
<1>1. \A docs : BestOf(docs) <=> Best(top, docs)
  BY DEF BestOf, Best
<1>2. phase = "window" => BestOf({d \in Matching : d < minId})
  BY <1>1 DEF SearchInv, WindowSound, Behind
<1>3. phase = "done" => BestOf(Matching)
  BY <1>1 DEF SearchInv
<1>4. Cardinality(DOMAIN top) <= search.k
  <2>1. PICK docs \in SUBSET Matching : Best(top, docs)
    BY BehindIs DEF SearchInv, WindowSound, ScanSound
  <2>2. QED
    BY <2>1, BestIs DEF SearchInv
<1>5. SearchTypeOK
  BY <1>4 DEF SearchInv, Iterators, SearchTypeOK
<1>6. QED
  BY <1>2, <1>3, <1>5 DEF TopK

\* The query and its lists do not change, so neither do the scores.
LEMMA SearchStays ==
  ASSUME search' = search
  PROVE  /\ \A t : List(t)' = List(t)
         /\ \A t, d : Gain(t, d)' = Gain(t, d)
         /\ \A d : Score(d)' = Score(d)
         /\ Matching' = Matching
<1>1. \A t : List(t)' = List(t)
  BY DEF List
<1>2. \A t, d : Gain(t, d)' = Gain(t, d)
  BY <1>1 DEF Gain
<1>3. \A d : Score(d)' = Score(d)
  BY <1>1 DEF Score, Added
<1>4. Matching' = Matching
  BY <1>3 DEF Matching
<1>5. QED
  BY <1>1, <1>2, <1>3, <1>4

LEMMA BestNext ==
  ASSUME search' = search
  PROVE  /\ \A low : low = minId' /\ Best(top', Behind(low)) => Best(top, Behind(minId))'
         /\ \A low : low = local' /\ Best(top', Behind(low)) => Best(top, Behind(local))'
         /\ Best(top', Matching) => Best(top, Matching)'
  BY SearchStays DEF Best, Behind

\* Who adds to the score of a document that matches.
LEMMA MatchHasGain ==
  ASSUME search \in Searches, NEW d \in Matching
  PROVE  /\ d \in Documents
         /\ \E t \in DOMAIN search.lists : Gain(t, d) > 0
<1>1. Score(d) > 0 /\ Score(d) \in Nat
  BY ScoreIsNat DEF Matching
<1>2. PICK t \in ListsWith(d) : Gain(t, d) # 0
  BY <1>1, NoScore
<1>3. Gain(t, d) \in Nat /\ t \in DOMAIN search.lists
  BY <1>2, GainIs DEF ListsWith
<1>4. QED
  BY <1>2, <1>3, MatchingIs

-----------------------------------------------------------------------------
\* The first iterators are at the first live postings.
LEMMA InitSearchInv == SearchInit => SearchInv
<1> SUFFICES ASSUME SearchInit PROVE SearchInv
  OBVIOUS
<1>1. PICK s \in Searches : Begin(s)
  BY DEF SearchInit
<1> DEFINE used == Used(s)  first == [t \in used |-> FirstLive(s.lists[t])]
<1>2. /\ search = s /\ phase = IF s.k = 0 \/ used = {} THEN "done" ELSE "window"
      /\ cur = first /\ minId = Min(Range(first) \cup {Exhausted})
  BY <1>1 DEF Begin
<1>3. search \in Searches /\ search.k \in Nat /\ Exhausted \in Nat
  BY <1>1, <1>2, Lists, SearchAssumption
<1>4. ASSUME NEW t \in used
      PROVE  /\ t \in DOMAIN search.lists
             /\ first[t] \in 0 .. Exhausted
             /\ \A d \in DOMAIN List(t) : Gain(t, d) > 0 => first[t] <= d
  <2> DEFINE L == Live(s.lists[t], DOMAIN s.lists[t])
  <2>1. t \in DOMAIN search.lists /\ L # {} /\ first[t] = Min(L)
    BY <1>2 DEF Used, FirstLive
  <2>2. DOMAIN List(t) \subseteq Documents /\ List(t) = s.lists[t]
        /\ search.weight[t] \in Nat /\ \A d \in DOMAIN List(t) : List(t)[d] \in Nat
    BY <1>2, <1>3, <2>1, Lists DEF List
  <2>3. L \in SUBSET Nat /\ L \subseteq 0 .. Exhausted
    BY <1>3, <2>2 DEF Live, Documents
  <2>4. ASSUME NEW d \in DOMAIN List(t), Gain(t, d) > 0 PROVE d \in L
    <3>1. Gain(t, d) = List(t)[d] * search.weight[t]
      BY DEF Gain
    <3>2. List(t)[d] # 0 /\ List(t)[d] \in Nat
      BY <2>2, <2>4, <3>1
    <3>3. QED
      BY <2>2, <3>2 DEF Live
  <2> HIDE DEF L, first
  <2>5. Min(L) \in L /\ \A x \in L : Min(L) <= x
    BY <2>1, <2>3, MinOf
  <2>6. QED
    BY <2>1, <2>3, <2>4, <2>5
<1>5. ASSUME NEW t \in DOMAIN search.lists, NEW d, Gain(t, d) > 0
      PROVE  t \in used /\ d \in DOMAIN List(t) /\ first[t] <= d /\ minId <= first[t]
  <2>1. d \in DOMAIN List(t) /\ Gain(t, d) = List(t)[d] * search.weight[t]
    BY <1>5 DEF Gain
  <2>2. List(t)[d] \in Nat /\ search.weight[t] \in Nat
    BY <1>3, <2>1, Lists
  <2>3. List(t)[d] > 0 /\ search.weight[t] > 0
    BY <1>5, <2>1, <2>2
  <2>4. t \in used
    BY <1>2, <2>1, <2>3 DEF Used, Live, List
  <2>5. first[t] <= d
    BY <1>4, <1>5, <2>1, <2>4
  <2>6. minId <= first[t]
    <3> DEFINE R == Range(first) \cup {Exhausted}
    <3>1. R \in SUBSET Nat /\ R # {} /\ first[t] \in R
      BY <1>3, <1>4, <2>4 DEF Range
    <3>2. minId = Min(R)
      BY <1>2
    <3> HIDE DEF R
    <3>3. QED
      BY <3>1, <3>2, MinOf
  <2>7. QED
    BY <2>1, <2>4, <2>5, <2>6
<1>6. minId \in 0 .. Exhausted
  <2> DEFINE R == Range(first) \cup {Exhausted}
  <2>1. R \in SUBSET Nat /\ R # {} /\ R \subseteq 0 .. Exhausted
    BY <1>3, <1>4 DEF Range
  <2>2. minId = Min(R)
    BY <1>2
  <2> HIDE DEF R
  <2>3. QED
    BY <2>1, <2>2, MinOf
<1>7. Iterators
  <2>1. DOMAIN cur = used
    BY <1>2
  <2>2. cur = [t \in used |-> first[t]]
    BY <1>2
  <2> HIDE DEF used, first
  <2>3. QED
    BY <1>4, <2>1, <2>2 DEF Iterators
<1>8. AheadAll(minId)
  <2>1. DOMAIN cur = used /\ \A t \in used : cur[t] = first[t]
    BY <1>2
  <2> HIDE DEF used, first
  <2>2. QED
    BY <1>5, <2>1 DEF AheadAll
<1>9. DOMAIN top = {} /\ Cardinality(DOMAIN top) = 0 /\ threshold = 0
  BY FS_EmptySet DEF SearchInit
<1>10. Behind(minId) = {}
  <2>1. ASSUME NEW d \in Behind(minId) PROVE FALSE
    <3>1. d \in Matching /\ d < minId
      BY DEF Behind
    <3>2. d \in Nat
      BY <1>3, <3>1, MatchHasGain DEF Documents
    <3>3. PICK t \in DOMAIN search.lists : Gain(t, d) > 0
      BY <1>3, <3>1, MatchHasGain
    <3>4. t \in used /\ first[t] <= d /\ minId <= first[t]
      BY <1>5, <3>3
    <3>5. first[t] \in Nat
      BY <1>4, <3>4
    <3> HIDE DEF first, used
    <3>6. QED
      BY <1>6, <3>1, <3>2, <3>4, <3>5
  <2>2. QED
    BY <2>1
<1>11. Best(top, Behind(minId))
  <2>1. Min({search.k, 0}) = 0
    BY <1>3, MinOfTwo
  <2>2. Cardinality(Behind(minId)) = 0
    BY <1>10, FS_EmptySet
  <2>3. QED
    BY <1>9, <2>1, <2>2 DEF Best
<1>12. ASSUME phase = "done" PROVE Best(top, Matching)
  <2>1. search.k = 0 \/ used = {}
    BY <1>2, <1>12
  <2>2. CASE search.k = 0
    <3>1. Cardinality(Matching) \in Nat
      BY <1>3, MatchingIs
    <3>2. Min({search.k, Cardinality(Matching)}) = 0
      BY <2>2, <3>1, MinOfTwo
    <3>3. QED
      BY <1>9, <3>2 DEF Best
  <2>3. CASE used = {}
    <3>1. ASSUME NEW d \in Matching PROVE FALSE
      <4>1. PICK t \in DOMAIN search.lists : Gain(t, d) > 0
        BY <1>3, MatchHasGain
      <4>2. QED
        BY <1>5, <2>3, <4>1
    <3>2. Matching = Behind(minId)
      BY <3>1, <1>10
    <3>3. QED
      BY <1>11, <3>2
  <2>4. QED
    BY <2>1, <2>2, <2>3
<1>13. phase # "done" => search.k > 0
  BY <1>2, <1>3
<1>14. Threshold(top, threshold) \/ phase = "done"
  BY <1>9, <1>13 DEF Threshold
<1>15. phase \in {"window", "done"}
  BY <1>2
<1>16. QED
  BY <1>3, <1>6, <1>7, <1>8, <1>11, <1>12, <1>13, <1>14, <1>15
     DEF SearchInv, WindowSound, ScanSound

-----------------------------------------------------------------------------
\* A window ends no earlier than it begins, although the sum may wrap.
LEMMA WindowEnds ==
  ASSUME NEW m \in 0 .. (Exhausted - 1)
  PROVE  LET sum  == (m + BatchSz - 1) % (Exhausted + 1)
             last == IF sum < m THEN Exhausted - 1 ELSE sum
         IN  last \in m .. Exhausted
<1>1. Exhausted + 1 \in Nat \ {0} /\ m + BatchSz - 1 \in Nat /\ Exhausted \in Nat
  BY SearchAssumption
<1>2. (m + BatchSz - 1) % (Exhausted + 1) \in 0 .. ((Exhausted + 1) - 1)
  BY <1>1, Divided
<1>3. QED
  BY <1>1, <1>2

\* The scores of a window are whole, and the iterators go on behind it.
LEMMA WindowKeeps == SearchInv /\ Window => SearchInv'
<1> SUFFICES ASSUME SearchInv, Window PROVE SearchInv'
  OBVIOUS
<1> DEFINE sum == (minId + BatchSz - 1) % (Exhausted + 1)
           last == IF sum < minId THEN Exhausted - 1 ELSE sum
           taken == [t \in DOMAIN cur |->
                       IF cur[t] > last THEN {} ELSE {d \in Ahead(t) : UpTo(d, last)}]
<1>1. /\ phase = "window" /\ minId # Exhausted /\ window' = <<minId, last>> /\ local' = minId
      /\ scores' = [d \in minId .. last |-> Added({t \in DOMAIN cur : d \in taken[t]}, d)]
      /\ cur' = [t \in DOMAIN cur |->
                   IF cur[t] > last THEN cur[t] ELSE NextLive(t, Ahead(t) \ taken[t])]
      /\ phase' = "scan"
      /\ search' = search /\ minId' = minId /\ top' = top /\ threshold' = threshold
  BY DEF Window
<1>2. /\ search \in Searches /\ Iterators /\ minId \in 0 .. Exhausted /\ search.k > 0
      /\ Threshold(top, threshold) /\ Best(top, Behind(minId)) /\ AheadAll(minId)
      /\ Exhausted \in Nat
  BY <1>1, SearchAssumption DEF SearchInv, WindowSound
<1>3. minId \in 0 .. (Exhausted - 1)
  BY <1>1, <1>2
<1>4. last \in minId .. Exhausted
  BY <1>3, WindowEnds
<1>5. last \in Nat /\ minId <= last /\ last <= Exhausted /\ minId \in Nat
  BY <1>3, <1>4
<1>6. ASSUME NEW t \in DOMAIN cur
      PROVE  /\ t \in DOMAIN search.lists /\ cur[t] \in 0 .. Exhausted
             /\ Ahead(t) \subseteq DOMAIN List(t) /\ DOMAIN List(t) \subseteq Documents
             /\ \A d \in DOMAIN List(t) : d \in Nat
             /\ taken[t] = IF cur[t] > last THEN {} ELSE {d \in Ahead(t) : d <= last}
  <2>1. t \in DOMAIN search.lists /\ cur[t] \in 0 .. Exhausted
    BY <1>2 DEF Iterators
  <2>2. Ahead(t) \subseteq DOMAIN List(t) /\ DOMAIN List(t) \subseteq Documents
    BY <1>2, <2>1, Lists DEF Ahead
  <2>3. \A d \in DOMAIN List(t) : d \in Nat
    BY <1>2, <2>2 DEF Documents
  <2> HIDE DEF last
  <2>4. \A d \in Ahead(t) : UpTo(d, last) <=> d <= last
    BY <1>5, <2>2, <2>3, UpToIs
  <2>5. taken[t] = IF cur[t] > last THEN {} ELSE {d \in Ahead(t) : d <= last}
    BY <2>4
  <2>6. QED
    BY <2>1, <2>2, <2>3, <2>5
<1> HIDE DEF last, taken
<1>7. ASSUME NEW t \in DOMAIN cur
      PROVE  /\ cur'[t] \in 0 .. Exhausted
             /\ cur'[t] = Exhausted \/ cur'[t] > last
             /\ \A d \in DOMAIN List(t) : d > last /\ cur[t] <= d /\ Gain(t, d) > 0 => cur'[t] <= d
  <2>1. CASE cur[t] > last
    BY <1>1, <1>6, <2>1
  <2>2. CASE ~(cur[t] > last)
    <3> DEFINE E == Ahead(t) \ taken[t]
    <3>1. cur'[t] = NextLive(t, E)
      BY <1>1, <2>2
    <3>a. taken[t] = {d \in Ahead(t) : d <= last}
      BY <1>6, <2>2
    <3>b. Ahead(t) \subseteq DOMAIN List(t) /\ \A d \in DOMAIN List(t) : d \in Nat
      BY <1>6
    <3>2. E \in SUBSET DOMAIN List(t) /\ \A d \in E : d > last
      <4>1. ASSUME NEW d \in E PROVE d > last
        BY <1>5, <3>a, <3>b
      <4>2. QED
        BY <3>b, <4>1
    <3>3. ASSUME NEW d \in DOMAIN List(t), d > last, cur[t] <= d PROVE d \in E
      <4>1. d \in Ahead(t)
        BY <1>6, <3>3 DEF Ahead
      <4>2. d \notin taken[t]
        BY <1>5, <3>a, <3>b, <3>3
      <4>3. QED
        BY <4>1, <4>2
    <3> HIDE DEF E
    <3>4. /\ NextLive(t, E) \in 0 .. Exhausted
          /\ NextLive(t, E) \in E \cup {Exhausted}
          /\ \A d \in E : Gain(t, d) > 0 => NextLive(t, E) <= d
      BY <1>2, <1>6, <3>2, NextLiveIs
    <3>5. QED
      BY <3>1, <3>2, <3>3, <3>4
  <2>3. QED
    BY <2>1, <2>2
<1>8. Iterators'
  <2>1. DOMAIN cur' = DOMAIN cur /\ cur' = [t \in DOMAIN cur |-> cur'[t]]
    BY <1>1
  <2>2. QED
    BY <1>1, <1>2, <1>7, <2>1 DEF Iterators
<1>9. ASSUME NEW t \in DOMAIN search.lists, NEW d \in Documents, d >= last + 1, Gain(t, d) > 0
      PROVE  t \in DOMAIN cur' /\ cur'[t] <= d
  <2>1. d \in Nat /\ d > last /\ d >= minId
    BY <1>2, <1>5, <1>9 DEF Documents
  <2>2. t \in DOMAIN cur /\ cur[t] <= d
    BY <1>2, <1>9, <2>1 DEF AheadAll
  <2>3. d \in DOMAIN List(t)
    BY <1>9 DEF Gain
  <2>4. QED
    BY <1>1, <1>7, <1>9, <2>1, <2>2, <2>3
<1>10. ASSUME NEW d \in minId .. last PROVE scores'[d] = Score(d)
  <2> DEFINE T == {t \in DOMAIN cur : d \in taken[t]}
  <2>1. scores'[d] = Added(T, d)
    BY <1>1
  <2>2. T \in SUBSET ListsWith(d)
    BY <1>6 DEF ListsWith
  <2>3. ASSUME NEW t \in ListsWith(d) \ T PROVE Gain(t, d) = 0
    <3>1. t \in DOMAIN search.lists /\ d \in DOMAIN List(t) /\ d \in Documents
      BY <1>2, <2>3, Lists DEF ListsWith
    <3>2. Gain(t, d) \in Nat
      BY <1>2, <3>1, GainIs
    <3>3. ASSUME Gain(t, d) > 0 PROVE FALSE
      <4>1. d \in Nat /\ minId <= d /\ d <= last
        BY <1>5
      <4>2. t \in DOMAIN cur /\ cur[t] <= d
        BY <1>2, <3>1, <3>3, <4>1 DEF AheadAll
      <4>3. cur[t] \in Nat
        <5>1. cur[t] \in 0 .. Exhausted
          BY <1>6, <4>2
        <5>2. QED
          BY <1>2, <5>1
      <4>4. d \in Ahead(t) /\ ~(cur[t] > last)
        BY <1>5, <3>1, <4>1, <4>2, <4>3 DEF Ahead
      <4>5. d \in taken[t]
        BY <1>6, <4>1, <4>2, <4>4
      <4>6. QED
        BY <2>3, <4>2, <4>5
    <3>4. QED
      BY <3>2, <3>3
  <2> HIDE DEF T
  <2>4. QED
    BY <1>2, <2>1, <2>2, <2>3, ScoreIs
<1>11. window'[2] = last /\ window'[2] \in 0 .. Exhausted /\ local' \in Nat /\ local' <= window'[2] + 1
  BY <1>1, <1>5
<1>12. AheadAll(window[2] + 1)'
  BY <1>1, <1>9, <1>11, SearchStays DEF AheadAll, Documents
<1>13. \A t \in DOMAIN cur' : cur'[t] = Exhausted \/ cur'[t] > window'[2]
  BY <1>1, <1>7, <1>11
<1>14. Best(top, Behind(local))'
  <2>1. PICK low : low = minId
    OBVIOUS
  <2>2. low = local' /\ Best(top', Behind(low))
    BY <1>1, <1>2, <2>1
  <2>3. QED
    BY <1>1, <2>2, BestNext
<1>15. \A d \in local' .. window'[2] : scores'[d] = Score(d)'
  BY <1>1, <1>10, <1>11, SearchStays
<1>16. ScanSound'
  BY <1>11, <1>12, <1>13, <1>14, <1>15 DEF ScanSound
<1>17. search' \in Searches /\ search'.k > 0 /\ minId' \in 0 .. Exhausted
  BY <1>1, <1>2
<1>18. Threshold(top, threshold)'
  BY <1>1, <1>2 DEF Threshold
<1>19. QED
  BY <1>1, <1>8, <1>16, <1>17, <1>18 DEF SearchInv, WindowSound

-----------------------------------------------------------------------------
\* What the queue holds decides the threshold, which is a natural.
LEMMA ThresholdIs ==
  ASSUME search \in Searches, search.k > 0, NEW docs \in SUBSET Matching, NEW q, Best(q, docs),
         NEW bound, Threshold(q, bound)
  PROVE  bound \in Nat
<1>1. Cardinality(DOMAIN q) \in Nat /\ Cardinality(DOMAIN q) <= search.k /\ search.k \in Nat
  BY BestIs, Lists
<1>2. CASE Cardinality(DOMAIN q) < search.k
  BY <1>2 DEF Threshold
<1>3. CASE Cardinality(DOMAIN q) = search.k
  <2>1. DOMAIN q # {}
    BY <1>1, <1>3, FS_EmptySet
  <2>2. QED
    BY <1>3, <2>1, LowestOf DEF Threshold
<1>4. QED
  BY <1>1, <1>2, <1>3

\* The queue after a document of the window.
LEMMA ScanTop ==
  ASSUME SearchInv, Scan
  PROVE  /\ Best(top', Behind(local + 1))
         /\ Threshold(top', threshold')
<1>1. /\ phase = "scan" /\ local <= window[2] /\ search \in Searches /\ search.k > 0
      /\ local \in Nat /\ window[2] \in 0 .. Exhausted
      /\ Best(top, Behind(local)) /\ Threshold(top, threshold)
      /\ \A d \in local .. window[2] : scores[d] = Score(d)
  BY DEF Scan, SearchInv, ScanSound
<1>2. Exhausted \in Nat /\ search.k \in Nat
  BY <1>1, SearchAssumption, Lists
<1>3. local \in local .. window[2]
  BY <1>1, <1>2
<1>4. scores[local] = Score(local) /\ Score(local) \in Nat
  BY <1>1, <1>3, ScoreIsNat
<1>5. \A d \in Matching : d \in Nat
  BY <1>1, <1>2, MatchingIs DEF Documents
<1> DEFINE docs == Behind(local)  more == Behind(local + 1)
<1>6. docs \in SUBSET Matching /\ more \in SUBSET Matching /\ docs \subseteq more
      /\ local \notin docs
  BY <1>1, <1>5 DEF Behind
<1>7. \A d \in more \ docs : d = local
  BY <1>1, <1>5 DEF Behind
<1>8. local \in Matching => more = docs \cup {local}
  <2>1. \A d \in Matching : d < local + 1 <=> d < local \/ d = local
    BY <1>1, <1>5
  <2>2. QED
    BY <2>1 DEF Behind
<1>9. threshold \in Nat
  BY <1>1, <1>6, ThresholdIs
<1>10. /\ IsFiniteSet(DOMAIN top) /\ Cardinality(DOMAIN top) \in Nat
       /\ Cardinality(DOMAIN top) <= search.k
       /\ DOMAIN top \subseteq docs
  <2>1. DOMAIN top \subseteq docs
    BY <1>1 DEF Best
  <2>2. QED
    BY <1>1, <1>6, <2>1, BestIs
<1> HIDE DEF docs, more
<1>11. CASE Skipped(local) /\ UNCHANGED <<top, threshold>>
  <2>1. \A d \in more \ docs : Score(d) <= threshold
    <3>1. ASSUME NEW d \in more \ docs PROVE Score(d) <= threshold
      <4>1. d = local /\ local \in Matching
        BY <1>6, <1>7
      <4>2. local \in search.filter /\ Score(local) > 0
        BY <4>1 DEF Matching
      <4>3. QED
        BY <1>4, <1>11, <4>1, <4>2 DEF Skipped
    <3>2. QED
      BY <3>1
  <2>2. Best(top, more)
    BY <1>1, <1>6, <2>1, PassBest DEF docs
  <2>3. QED
    BY <1>1, <1>11, <2>2 DEF more
<1>12. ASSUME ~Skipped(local)
       PROVE  local \in Matching /\ scores[local] > threshold
  BY <1>4, <1>9, <1>12 DEF Skipped, Matching
<1>13. DOMAIN With(top, local) = DOMAIN top \cup {local}
       /\ \A e \in DOMAIN top : With(top, local)[e] = top[e]
  BY <1>6, <1>10 DEF With
<1>14. CASE /\ ~Skipped(local) /\ Cardinality(DOMAIN top) < search.k
            /\ top' = With(top, local)
            /\ threshold' = IF Cardinality(DOMAIN top') = search.k THEN Min(Range(top')) ELSE threshold
  <2>1. local \in Matching /\ more = docs \cup {local}
    BY <1>8, <1>12, <1>14
  <2>2. With(top, local)[local] = Score(local)
    BY <1>4 DEF With
  <2>3. Best(With(top, local), docs \cup {local})
    <3>1. PICK p : p = With(top, local)
      OBVIOUS
    <3>2. DOMAIN p = DOMAIN top \cup {local} /\ (\A e \in DOMAIN top : p[e] = top[e]) /\ p[local] = Score(local)
      BY <1>13, <2>2, <3>1
    <3>3. Best(top, docs)
      BY <1>1 DEF docs
    <3>4. Best(p, docs \cup {local})
      BY <1>1, <1>6, <1>14, <2>1, <3>2, <3>3, JoinBest
    <3>5. QED
      BY <3>1, <3>4
  <2>4. threshold = 0
    BY <1>1, <1>14 DEF Threshold
  <2>5. Threshold(top', threshold')
    BY <1>2, <1>14, <2>4 DEF Threshold
  <2>6. QED
    BY <1>14, <2>1, <2>3, <2>5 DEF more
<1>15. CASE /\ ~Skipped(local) /\ Cardinality(DOMAIN top) = search.k
            /\ \E d \in Lowest(top) : top' = With(Restrict(top, DOMAIN top \ {d}), local)
            /\ threshold' = Min(Range(top'))
  <2>1. local \in Matching /\ more = docs \cup {local} /\ scores[local] > threshold
    BY <1>8, <1>12, <1>15
  <2>2. PICK l \in Lowest(top) : top' = With(Restrict(top, DOMAIN top \ {l}), local)
    BY <1>15
  <2>3. PICK p : p = With(Restrict(top, DOMAIN top \ {l}), local)
    OBVIOUS
  <2>4. /\ DOMAIN p = (DOMAIN top \ {l}) \cup {local}
        /\ \A e \in DOMAIN top \ {l} : p[e] = top[e]
        /\ p[local] = Score(local)
    <3>1. DOMAIN Restrict(top, DOMAIN top \ {l}) = DOMAIN top \ {l}
          /\ \A e \in DOMAIN top \ {l} : Restrict(top, DOMAIN top \ {l})[e] = top[e]
      BY DEF Restrict
    <3>2. \A e \in DOMAIN top \ {l} : e # local
      BY <1>6, <1>10
    <3>3. QED
      BY <1>4, <2>3, <3>1, <3>2 DEF With
  <2>5. Score(local) > Min(Range(top))
    BY <1>1, <1>4, <1>15, <2>1 DEF Threshold
  <2>6. Best(top, docs)
    BY <1>1 DEF docs
  <2>7. Best(p, docs \cup {local})
    BY <1>1, <1>6, <1>15, <2>1, <2>4, <2>5, <2>6, SwapBest
  <2>8. Cardinality(DOMAIN p) = search.k
    <3>1. IsFiniteSet(DOMAIN top \ {l}) /\ Cardinality(DOMAIN top \ {l}) = search.k - 1
      BY <1>10, <1>15, FS_RemoveElement, FS_Subset DEF Lowest
    <3>2. local \notin DOMAIN top \ {l}
      BY <1>6, <1>10
    <3>3. Cardinality(DOMAIN p) = (search.k - 1) + 1
      BY <2>4, <3>1, <3>2, FS_AddElement
    <3>4. QED
      BY <1>2, <3>3
  <2>9. Threshold(top', threshold')
    BY <1>2, <1>15, <2>2, <2>3, <2>8 DEF Threshold
  <2>10. QED
    BY <2>1, <2>2, <2>3, <2>7, <2>9 DEF more
<1>16. QED
  BY <1>11, <1>14, <1>15 DEF Scan

LEMMA ScanKeeps == SearchInv /\ Scan => SearchInv'
<1> SUFFICES ASSUME SearchInv, Scan PROVE SearchInv'
  OBVIOUS
<1>1. /\ phase = "scan" /\ local <= window[2] /\ local' = local + 1
      /\ search' = search /\ phase' = phase /\ cur' = cur /\ minId' = minId /\ window' = window
      /\ scores' = scores
  BY DEF Scan
<1>2. /\ search \in Searches /\ Iterators /\ minId \in 0 .. Exhausted /\ search.k > 0
      /\ local \in Nat /\ window[2] \in 0 .. Exhausted
      /\ AheadAll(window[2] + 1)
      /\ \A d \in local .. window[2] : scores[d] = Score(d)
      /\ \A t \in DOMAIN cur : cur[t] = Exhausted \/ cur[t] > window[2]
      /\ Exhausted \in Nat
  BY <1>1, SearchAssumption DEF SearchInv, ScanSound
<1>3. Best(top', Behind(local + 1)) /\ Threshold(top', threshold')
  BY ScanTop
<1>4. Best(top, Behind(local))'
  <2>1. PICK low : low = local + 1
    OBVIOUS
  <2>2. low = local' /\ Best(top', Behind(low))
    BY <1>1, <1>3, <2>1
  <2>3. QED
    BY <1>1, <2>2, BestNext
<1>5. local' \in Nat /\ local' <= window'[2] + 1 /\ window'[2] \in 0 .. Exhausted
  BY <1>1, <1>2
<1>6. \A d \in local' .. window'[2] : scores'[d] = Score(d)'
  <2>1. local' .. window'[2] \subseteq local .. window[2]
    BY <1>1, <1>2
  <2>2. QED
    BY <1>1, <1>2, <2>1, SearchStays
<1>7. AheadAll(window[2] + 1)'
  BY <1>1, <1>2, SearchStays DEF AheadAll, Documents
<1>8. ScanSound'
  BY <1>1, <1>2, <1>4, <1>5, <1>6, <1>7 DEF ScanSound
<1>9. Threshold(top, threshold)'
  BY <1>1, <1>3 DEF Threshold
<1>10. Iterators'
  BY <1>1, <1>2 DEF Iterators
<1>11. QED
  BY <1>1, <1>2, <1>8, <1>9, <1>10 DEF SearchInv, WindowSound

-----------------------------------------------------------------------------
\* Where the iterators are after the list of t was perhaps pruned: nothing that could have
\* entered the queue lies between.
LEMMA PrunedIs ==
  ASSUME SearchInv, phase = "scan", NEW t \in Active(cur)
  PROVE  LET p == Pruned(t, Active(cur))  resume == MinCur(cur, Active(cur) \ {t}) IN
         /\ DOMAIN p = DOMAIN cur
         /\ \A u \in DOMAIN cur \ {t} : p[u] = cur[u]
         /\ \/ p[t] = cur[t]
            \/ /\ resume > cur[t] /\ UpperBound(t) <= threshold
               /\ p[t] \in 0 .. Exhausted /\ p[t] >= resume
               /\ \A d \in DOMAIN List(t) : d >= resume /\ Gain(t, d) > 0 => p[t] <= d
<1> DEFINE p == Pruned(t, Active(cur))  resume == MinCur(cur, Active(cur) \ {t})
           E == {d \in Ahead(t) : From(d, resume)}
           n == IF resume = Exhausted THEN Exhausted ELSE NextLive(t, E)
<1>1. search \in Searches /\ Iterators /\ Exhausted \in Nat
  BY SearchAssumption DEF SearchInv
<1>2. t \in DOMAIN cur /\ t \in DOMAIN search.lists /\ \A u \in DOMAIN cur : cur[u] \in 0 .. Exhausted
  BY <1>1 DEF Active, Iterators
<1>3. resume \in 0 .. Exhausted
  <2>1. \A u \in Active(cur) \ {t} : cur[u] \in 0 .. Exhausted
    BY <1>2 DEF Active
  <2>2. QED
    BY <2>1, MinCurIs
<1>4. p = IF resume > cur[t] /\ UpperBound(t) <= threshold THEN [cur EXCEPT ![t] = n] ELSE cur
  BY DEF Pruned
<1>5. Ahead(t) \subseteq DOMAIN List(t) /\ DOMAIN List(t) \subseteq Documents /\ \A d \in DOMAIN List(t) : d \in Nat
  <2>1. DOMAIN List(t) \subseteq Documents
    BY <1>1, <1>2, Lists
  <2>2. QED
    BY <1>1, <2>1 DEF Ahead, Documents
<1>6. ASSUME resume > cur[t]
      PROVE  /\ n \in 0 .. Exhausted /\ n >= resume
             /\ \A d \in DOMAIN List(t) : d >= resume /\ Gain(t, d) > 0 => n <= d
  <2>1. CASE resume = Exhausted
    <3>1. \A d \in DOMAIN List(t) : ~(d >= resume)
      BY <1>1, <1>5, <2>1 DEF Documents
    <3>2. QED
      BY <1>1, <2>1, <3>1
  <2>2. CASE resume # Exhausted
    <3> HIDE DEF resume
    <3>1. resume \in Nat /\ cur[t] \in Nat
      BY <1>1, <1>2, <1>3
    <3>2. \A d \in Ahead(t) : From(d, resume) <=> d >= resume
      BY <1>5, <3>1, UpToIs
    <3>3. E \in SUBSET DOMAIN List(t) /\ \A d \in E : d >= resume /\ d \in Nat
      BY <1>5, <3>2
    <3>4. ASSUME NEW d \in DOMAIN List(t), d >= resume PROVE d \in E
      <4>1. d \in Nat /\ d >= cur[t]
        BY <1>5, <1>6, <3>1, <3>4
      <4>2. d \in Ahead(t)
        BY <4>1 DEF Ahead
      <4>3. QED
        BY <3>2, <3>4, <4>2
    <3> HIDE DEF E
    <3>5. /\ NextLive(t, E) \in 0 .. Exhausted
          /\ NextLive(t, E) \in E \cup {Exhausted}
          /\ \A d \in E : Gain(t, d) > 0 => NextLive(t, E) <= d
      BY <1>1, <1>2, <3>3, NextLiveIs
    <3>6. n = NextLive(t, E)
      BY <2>2
    <3>7. n >= resume
      BY <1>1, <1>3, <3>1, <3>3, <3>5, <3>6
    <3>8. QED
      BY <3>4, <3>5, <3>6, <3>7
  <2>3. QED
    BY <2>1, <2>2
<1> HIDE DEF n, resume
<1>7. DOMAIN p = DOMAIN cur /\ \A u \in DOMAIN cur \ {t} : p[u] = cur[u]
  BY <1>1, <1>4 DEF Iterators
<1>8. p[t] = cur[t] \/ (resume > cur[t] /\ UpperBound(t) <= threshold /\ p[t] = n)
  BY <1>1, <1>2, <1>4 DEF Iterators
<1> HIDE DEF p
<1>9. QED
  BY <1>6, <1>7, <1>8 DEF p, resume

\* What a pruned list's iterator passed could not have entered the queue.
LEMMA EndWindowTop ==
  ASSUME SearchInv, phase = "scan", local > window[2], Active(cur) # {},
         NEW p, NEW t \in Active(cur), p = cur \/ p = Pruned(t, Active(cur)),
         NEW m, m = MinCur(p, Active(cur))
  PROVE  /\ \A u \in Active(cur) : u \in DOMAIN p /\ p[u] \in 0 .. Exhausted
         /\ m \in 0 .. Exhausted
         /\ Best(top, Behind(m))
         /\ \A u \in DOMAIN search.lists, d \in Documents :
              d >= m /\ Gain(u, d) > 0 => u \in Active(cur) /\ p[u] <= d
<1> DEFINE A == Active(cur)  resume == MinCur(cur, A \ {t})
<1>1. /\ search \in Searches /\ search.k > 0 /\ Iterators /\ Exhausted \in Nat
      /\ Threshold(top, threshold) /\ Best(top, Behind(local)) /\ AheadAll(window[2] + 1)
      /\ local \in Nat /\ window[2] \in 0 .. Exhausted /\ local <= window[2] + 1
      /\ \A u \in DOMAIN cur : cur[u] = Exhausted \/ cur[u] > window[2]
  BY SearchAssumption DEF SearchInv, ScanSound
<1>2. local = window[2] + 1
  BY <1>1
<1>3. ASSUME NEW u \in A
      PROVE  u \in DOMAIN cur /\ cur[u] \in Nat /\ cur[u] < Exhausted /\ cur[u] >= local
  <2>1. u \in DOMAIN cur /\ cur[u] \in 0 .. Exhausted /\ cur[u] # Exhausted
    BY <1>1 DEF Active, Iterators
  <2>2. QED
    BY <1>1, <1>2, <2>1
<1>4. ASSUME NEW u \in DOMAIN search.lists, NEW d \in Documents, d >= local, Gain(u, d) > 0
      PROVE  u \in A /\ cur[u] <= d
  <2>1. u \in DOMAIN cur /\ cur[u] <= d
    BY <1>1, <1>2, <1>4 DEF AheadAll
  <2>2. d < Exhausted /\ d \in Nat /\ cur[u] \in 0 .. Exhausted
    BY <1>1, <2>1 DEF Documents, Iterators
  <2>3. cur[u] # Exhausted
    BY <1>1, <2>1, <2>2
  <2>4. QED
    BY <2>1, <2>3 DEF Active
<1>5. \A u \in A \ {t} : cur[u] \in 0 .. Exhausted
  BY <1>1, <1>3
<1>6. /\ resume \in 0 .. Exhausted /\ \A u \in A \ {t} : resume <= cur[u]
      /\ resume = Exhausted \/ resume >= local
  <2>1. /\ resume \in 0 .. Exhausted /\ \A u \in A \ {t} : resume <= cur[u]
        /\ resume = Exhausted \/ \E u \in A \ {t} : resume = cur[u]
    BY <1>5, MinCurIs
  <2>2. QED
    BY <1>3, <2>1
<1>7. /\ DOMAIN p = DOMAIN cur
      /\ \A u \in DOMAIN cur \ {t} : p[u] = cur[u]
      /\ \/ p[t] = cur[t]
         \/ /\ resume > cur[t] /\ UpperBound(t) <= threshold
            /\ p[t] \in 0 .. Exhausted /\ p[t] >= resume
            /\ \A d \in DOMAIN List(t) : d >= resume /\ Gain(t, d) > 0 => p[t] <= d
  <2>1. CASE p = cur
    BY <2>1
  <2>2. CASE p = Pruned(t, A)
    BY <2>2, PrunedIs
  <2>3. QED
    BY <2>1, <2>2
<1>8. t \in A
  OBVIOUS
<1> HIDE DEF resume
<1>9. \A u \in A : u \in DOMAIN p /\ p[u] \in 0 .. Exhausted
  <2>1. ASSUME NEW u \in A PROVE u \in DOMAIN p /\ p[u] \in 0 .. Exhausted
    <3>1. u \in DOMAIN cur /\ cur[u] \in 0 .. Exhausted
      BY <1>1, <1>3
    <3>2. QED
      BY <1>7, <3>1
  <2>2. QED
    BY <2>1
<1>10. /\ m \in 0 .. Exhausted /\ \A u \in A : m <= p[u]
       /\ m = Exhausted \/ \E u \in A : m = p[u]
  BY <1>9, MinCurIs
<1> HIDE DEF A
<1>11. m = Exhausted \/ m >= local
  <2>1. ASSUME NEW u \in A, m = p[u] PROVE m = Exhausted \/ m >= local
    <3>1. CASE p[u] = cur[u]
      BY <1>3, <2>1, <3>1
    <3>2. CASE p[u] # cur[u]
      <4>1. u = t /\ p[t] \in 0 .. Exhausted /\ p[t] >= resume
        BY <1>3, <1>7, <3>2
      <4>2. QED
        BY <1>1, <1>6, <2>1, <4>1
    <3>3. QED
      BY <3>1, <3>2
  <2>2. QED
    BY <1>10, <2>1
<1>12. ASSUME p[t] # cur[t] PROVE m >= resume
  <2>1. ASSUME NEW u \in A PROVE p[u] >= resume
    <3>1. CASE u = t
      BY <1>7, <1>12, <3>1
    <3>2. CASE u # t
      <4>1. resume <= cur[u] /\ p[u] = cur[u] /\ cur[u] \in Nat
        BY <1>3, <1>6, <1>7, <3>2
      <4>2. QED
        BY <1>1, <1>6, <4>1
    <3>3. QED
      BY <3>1, <3>2
  <2>2. QED
    BY <1>1, <1>6, <1>10, <2>1
<1>13. ASSUME NEW u \in DOMAIN search.lists, NEW d \in Documents, d >= m, Gain(u, d) > 0
       PROVE  u \in A /\ p[u] <= d
  <2>1. d \in Nat /\ d < Exhausted /\ m \in Nat
    BY <1>1, <1>10 DEF Documents
  <2>2. d >= local
    BY <1>1, <1>11, <1>13, <2>1
  <2>3. u \in A /\ cur[u] <= d
    BY <1>4, <1>13, <2>2
  <2>4. CASE p[u] = cur[u]
    BY <2>3, <2>4
  <2>5. CASE p[u] # cur[u]
    <3>1. u = t
      BY <1>3, <1>7, <2>3, <2>5
    <3>2. \A e \in DOMAIN List(t) : e >= resume /\ Gain(t, e) > 0 => p[t] <= e
      BY <1>7, <2>5, <3>1
    <3>3. d \in DOMAIN List(t)
      BY <1>13, <3>1 DEF Gain
    <3>4. d >= resume
      <4>1. resume \in Nat /\ m >= resume
        BY <1>1, <1>6, <1>12, <2>5, <3>1
      <4>2. QED
        BY <1>13, <2>1, <4>1
    <3>5. QED
      BY <1>13, <2>3, <3>1, <3>2, <3>3, <3>4
  <2>6. QED
    BY <2>4, <2>5
<1>14. \A d \in Matching : d \in Nat /\ d < Exhausted
  BY <1>1, MatchingIs DEF Documents
<1> DEFINE docs == Behind(local)  more == Behind(m)
<1>15. docs \in SUBSET Matching /\ more \in SUBSET Matching /\ docs \subseteq more
  <2>1. ASSUME NEW d \in Matching, d < local PROVE d < m
    <3>1. d \in Nat /\ d < Exhausted /\ m \in Nat
      BY <1>1, <1>10, <1>14
    <3>2. QED
      BY <1>1, <1>11, <2>1, <3>1
  <2>2. QED
    BY <2>1 DEF Behind
<1>16. ASSUME NEW d \in more \ docs PROVE Score(d) <= threshold
  <2>1. d \in Matching /\ d < m /\ d >= local /\ d \in Nat /\ d \in Documents
    BY <1>1, <1>14, <1>16, MatchingIs DEF Behind
  <2>2. \A u \in A : d < p[u]
    <3>1. ASSUME NEW u \in A PROVE d < p[u]
      <4>1. m <= p[u] /\ p[u] \in Nat /\ m \in Nat
        BY <1>1, <1>9, <1>10
      <4>2. QED
        BY <2>1, <4>1
    <3>2. QED
      BY <3>1
  <2>3. ASSUME NEW u \in DOMAIN search.lists, Gain(u, d) > 0
        PROVE  u = t /\ p[t] # cur[t]
    <3>1. u \in A /\ cur[u] <= d
      BY <1>4, <2>1, <2>3
    <3>2. d < p[u] /\ cur[u] \in Nat /\ p[u] \in Nat
      BY <1>1, <1>3, <1>9, <2>2, <3>1
    <3>3. p[u] # cur[u]
      BY <2>1, <3>1, <3>2
    <3>4. QED
      BY <1>3, <1>7, <3>1, <3>3
  <2>4. PICK u \in DOMAIN search.lists : Gain(u, d) > 0
    BY <1>1, <2>1, MatchHasGain
  <2>5. u = t /\ UpperBound(t) <= threshold
    BY <1>7, <2>3, <2>4
  <2>6. t \in ListsWith(d)
    BY <2>4, <2>5 DEF ListsWith, Gain
  <2>7. \A v \in ListsWith(d) \ {t} : Gain(v, d) = 0
    <3>1. ASSUME NEW v \in ListsWith(d) \ {t} PROVE Gain(v, d) = 0
      <4>1. v \in DOMAIN search.lists
        BY DEF ListsWith
      <4>2. Gain(v, d) \in Nat /\ ~(Gain(v, d) > 0)
        BY <1>1, <2>3, <4>1, GainIs
      <4>3. QED
        BY <4>2
    <3>2. QED
      BY <3>1
  <2>8. Score(d) = Gain(t, d)
    BY <1>1, <2>6, <2>7, OneScore
  <2>9. UpperBound(t) \in Nat /\ Gain(t, d) <= UpperBound(t) /\ Gain(t, d) \in Nat
    BY <1>1, <2>4, <2>5, UpperBoundIs, GainIs
  <2>10. threshold \in Nat
    BY <1>1, <1>15, ThresholdIs
  <2>11. QED
    BY <2>5, <2>8, <2>9, <2>10
<1> HIDE DEF docs, more
<1>17. Best(top, docs)
  BY <1>1 DEF docs
<1>18. Best(top, more)
  BY <1>1, <1>15, <1>16, <1>17, PassBest
<1>19. QED
  BY <1>9, <1>10, <1>13, <1>18 DEF A, more

\* When every iterator is at its end, every document that matches was seen.
LEMMA AllSeen ==
  ASSUME SearchInv, phase = "scan", local > window[2], Active(cur) = {}
  PROVE  Best(top, Matching)
<1>1. /\ search \in Searches /\ Iterators /\ Exhausted \in Nat
      /\ Best(top, Behind(local)) /\ AheadAll(window[2] + 1)
      /\ local \in Nat /\ window[2] \in 0 .. Exhausted /\ local <= window[2] + 1
  BY SearchAssumption DEF SearchInv, ScanSound
<1>2. local = window[2] + 1
  BY <1>1
<1>3. ASSUME NEW d \in Matching PROVE d < local
  <2>1. d \in Documents /\ d \in Nat /\ d < Exhausted
    BY <1>1, MatchingIs DEF Documents
  <2>2. PICK t \in DOMAIN search.lists : Gain(t, d) > 0
    BY <1>1, MatchHasGain
  <2>3. ASSUME d >= local PROVE FALSE
    <3>1. t \in DOMAIN cur /\ cur[t] <= d
      BY <1>1, <1>2, <2>1, <2>2, <2>3 DEF AheadAll
    <3>2. cur[t] = Exhausted
      BY <3>1 DEF Active
    <3>3. QED
      BY <1>1, <2>1, <3>1, <3>2
  <2>4. QED
    BY <1>1, <2>1, <2>3
<1>4. Behind(local) = Matching
  BY <1>3 DEF Behind
<1>5. QED
  BY <1>1, <1>4

LEMMA EndWindowKeeps == SearchInv /\ EndWindow => SearchInv'
<1> SUFFICES ASSUME SearchInv, EndWindow PROVE SearchInv'
  OBVIOUS
<1>1. /\ phase = "scan" /\ local > window[2]
      /\ search' = search /\ window' = window /\ local' = local /\ scores' = scores
      /\ top' = top /\ threshold' = threshold
  BY DEF EndWindow
<1>2. /\ search \in Searches /\ Iterators /\ minId \in 0 .. Exhausted /\ search.k > 0
      /\ Threshold(top, threshold)
  BY <1>1 DEF SearchInv
<1>3. Threshold(top, threshold)'
  BY <1>1, <1>2 DEF Threshold
<1>4. CASE Active(cur) = {}
  <2>1. phase' = "done" /\ cur' = cur /\ minId' = minId
    BY <1>4 DEF EndWindow
  <2>2. Best(top', Matching)
    BY <1>1, <1>4, AllSeen
  <2>3. Best(top, Matching)'
    BY <1>1, <2>2, BestNext
  <2>4. Iterators'
    BY <1>1, <1>2, <2>1 DEF Iterators
  <2>5. QED
    BY <1>1, <1>2, <1>3, <2>1, <2>3, <2>4 DEF SearchInv, WindowSound, ScanSound
<1>5. CASE Active(cur) # {}
  <2>a. PICK t \in Active(cur) :
          \/ cur' = Restrict(cur, Active(cur))
          \/ cur' = Restrict(Pruned(t, Active(cur)), Active(cur))
    <3>1. CASE cur' = Restrict(cur, Active(cur))
      BY <1>5, <3>1
    <3>2. CASE \E u \in Longest(Active(cur)) : cur' = Restrict(Pruned(u, Active(cur)), Active(cur))
      BY <3>2 DEF Longest
    <3>3. QED
      BY <1>5, <3>1, <3>2 DEF EndWindow
  <2>1. PICK p : /\ p = cur \/ p = Pruned(t, Active(cur))
                 /\ cur' = Restrict(p, Active(cur))
    BY <2>a
  <2>2. phase' = "window" /\ minId' = MinCur(cur', DOMAIN cur')
    BY <1>5 DEF EndWindow
  <2>3. DOMAIN cur' = Active(cur) /\ \A u \in Active(cur) : cur'[u] = p[u]
    BY <2>1 DEF Restrict
  <2>4. minId' = MinCur(p, Active(cur))
    <3>1. {cur'[u] : u \in Active(cur)} = {p[u] : u \in Active(cur)}
      BY <2>3
    <3>2. QED
      BY <2>2, <2>3, <3>1 DEF MinCur
  <2>5. PICK m : m = minId'
    OBVIOUS
  <2>6. /\ \A u \in Active(cur) : u \in DOMAIN p /\ p[u] \in 0 .. Exhausted
        /\ m \in 0 .. Exhausted
        /\ Best(top, Behind(m))
        /\ \A u \in DOMAIN search.lists, d \in Documents :
             d >= m /\ Gain(u, d) > 0 => u \in Active(cur) /\ p[u] <= d
    BY <1>1, <1>5, <2>1, <2>4, <2>5, EndWindowTop
  <2>7. Best(top, Behind(minId))'
    BY <1>1, <2>5, <2>6, BestNext
  <2>8. AheadAll(minId)'
    <3>1. \A u \in DOMAIN search.lists, d \in Documents :
            d >= minId' /\ Gain(u, d) > 0 => u \in DOMAIN cur' /\ cur'[u] <= d
      BY <2>3, <2>5, <2>6
    <3>2. QED
      BY <1>1, <3>1, SearchStays DEF AheadAll, Documents
  <2>9. Iterators'
    <3>1. Active(cur) \subseteq DOMAIN search.lists
      BY <1>2 DEF Iterators, Active
    <3>2. cur' = [u \in Active(cur) |-> cur'[u]]
      BY <2>1 DEF Restrict
    <3>3. cur' \in [DOMAIN cur' -> 0 .. Exhausted]
      BY <2>3, <2>6, <3>2
    <3>4. QED
      BY <1>1, <2>3, <3>1, <3>3 DEF Iterators
  <2>10. QED
    BY <1>1, <1>2, <1>3, <2>2, <2>5, <2>6, <2>7, <2>8, <2>9 DEF SearchInv, WindowSound, ScanSound
<1>6. QED
  BY <1>4, <1>5

LEMMA NoMoreKeeps == SearchInv /\ NoMore => SearchInv'
<1> SUFFICES ASSUME SearchInv, NoMore PROVE SearchInv'
  OBVIOUS
<1>1. /\ phase = "window" /\ minId = Exhausted /\ phase' = "done"
      /\ search' = search /\ cur' = cur /\ minId' = minId /\ top' = top /\ threshold' = threshold
  BY DEF NoMore
<1>2. /\ search \in Searches /\ Iterators /\ minId \in 0 .. Exhausted
      /\ Best(top, Behind(minId)) /\ Exhausted \in Nat
  BY <1>1, SearchAssumption DEF SearchInv, WindowSound
<1>3. Behind(minId) = Matching
  BY <1>1, <1>2, MatchingIs DEF Behind, Documents
<1>4. Best(top, Matching)'
  BY <1>1, <1>2, <1>3, BestNext
<1>5. Iterators'
  BY <1>1, <1>2 DEF Iterators
<1>6. QED
  BY <1>1, <1>2, <1>4, <1>5 DEF SearchInv, WindowSound, ScanSound

LEMMA StepKeepsSearchInv == SearchInv /\ [SearchNext]_searchVars => SearchInv'
<1> SUFFICES ASSUME SearchInv, [SearchNext]_searchVars PROVE SearchInv'
  OBVIOUS
<1>1. CASE Window
  BY <1>1, WindowKeeps
<1>2. CASE Scan
  BY <1>2, ScanKeeps
<1>3. CASE EndWindow
  BY <1>3, EndWindowKeeps
<1>4. CASE NoMore
  BY <1>4, NoMoreKeeps
<1>5. CASE UNCHANGED searchVars
  <2>1. /\ search' = search /\ phase' = phase /\ cur' = cur /\ minId' = minId /\ window' = window
        /\ local' = local /\ scores' = scores /\ top' = top /\ threshold' = threshold
    BY <1>5 DEF searchVars
  <2>2. QED
    BY <2>1, SearchStays
       DEF SearchInv, Iterators, Threshold, WindowSound, ScanSound, AheadAll, Best, Behind, Documents
<1>6. QED
  BY <1>1, <1>2, <1>3, <1>4, <1>5 DEF SearchNext

-----------------------------------------------------------------------------
\* A search answers with the best k documents of those that pass the filter, each with its whole
\* score, whatever the lists, the weights, the filter and the sizes of blocks and windows: what
\* pruning, wrapping windows and tombstones jump over could not have entered the answer
\* (InvertedIndex::search, pruneLongest).
THEOREM AnswerIsTopK == SearchSpec => []TopK
<1>1. SearchSpec => []SearchInv
  BY InitSearchInv, StepKeepsSearchInv, PTL DEF SearchSpec
<1>2. QED
  BY <1>1, InvGivesTopK, PTL
=============================================================================
