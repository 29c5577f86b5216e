------------------------------ MODULE SparseIndex ------------------------------
(***************************************************************************)
(* The sparse vectors of an index: SparseVectorStorage                     *)
(* (sparse/sparse_storage.hpp), which keeps each document's vector and the *)
(* inverted index (sparse/inverted_index.cpp) in one MDBX environment, and *)
(* term_info_, the copy in memory of each term's largest weight that       *)
(* searches prune by.                                                      *)
(*                                                                         *)
(* A writer changes the postings and term_info_ under the index's lock but *)
(* commits after it released it, and nothing takes term_info_ back when the*)
(* transaction is given up.  Writers exclude each other (mutex_ of the     *)
(* storage), so one transaction is open at most: "work" is what it sees.   *)
(*                                                                         *)
(* Weights are naturals in units small enough for the quantization, which  *)
(* rounds to Levels levels of the block's largest weight (UINT8_MAX in the *)
(* code).  A weight that is zero or negative is 0 here: both are dead.     *)
(* A vector names a term once.  A row of a term without entries does not   *)
(* exist.                                                                  *)
(***************************************************************************)
EXTENDS PostingBlocks, FiniteSetsExt, Functions

CONSTANTS
  Docs,        \* numeric ids
  Terms,       \* term ids, without the reserved kMetadataTermId
  Vectors,     \* the vectors documents may have: partial functions on Terms
  Batches,     \* what store_vectors_batch may be called with
  Levels,      \* UINT8_MAX
  CountLimit,  \* 2^16: the packed vector's nr_nonzero wraps there
  TombNum, TombDen,  \* INV_IDX_COMPACTION_TOMBSTONE_RATIO
  MaxCount     \* bound on vector_count_, which may drift

ASSUME SparseAssumption ==
  /\ Docs \subseteq Nat /\ IsFiniteSet(Docs) /\ Terms \subseteq Nat
  /\ \A v \in Vectors : DOMAIN v \subseteq Terms /\ \A t \in DOMAIN v : v[t] \in Nat
  /\ \A batch \in Batches :
       DOMAIN batch \subseteq Docs /\ \A d \in DOMAIN batch : batch[d] \in Vectors
  /\ Levels \in Nat \ {0} /\ CountLimit \in Nat \ {0}
  /\ TombNum \in Nat /\ TombDen \in Nat \ {0} /\ MaxCount \in Nat

VARIABLES
  db,       \* committed: the vectors, the rows and the header of every term
  work,     \* what the open transaction sees; db when there is none
  writing,  \* the operation whose transaction is open
  adds,     \* the size of the batch being stored
  info,     \* term_info_; 0 is a term it lacks
  count,    \* vector_count_
  stale,    \* history: a transaction was given up since the index was opened
  rewritten,\* history: a vector was stored over since then
  stray     \* history: the postings of db and of work that no stored vector accounts for

sparseVars == <<db, work, writing, adds, info, count, stale, rewritten, stray>>

BlockNrs == {BlockNr(d) : d \in Docs}

NoMap == [x \in {} |-> 0]

NoRow == [codes |-> NoMap, live |-> 0, max |-> 0]

NoHeader == [nr |-> 0, live |-> 0, max |-> 0]

(***************************************************************************)
(* Conversions: vectors to rows of sparse_docs, weights to bytes.          *)
(***************************************************************************)

\* What is read back of a vector: nr_nonzero wraps and the terms after it are lost.
Packed(v) ==
  LET kept == Cardinality(DOMAIN v) % CountLimit
  IN  Restrict(v, {t \in DOMAIN v : Cardinality({u \in DOMAIN v : u < t}) < kept})

\* A live weight never becomes 0, the mark of a removed posting.
Quantize(w, top) ==
  IF top = 0 \/ w = 0 THEN 0
  ELSE IF w >= top THEN Levels
  ELSE Max({1, (2 * w * Levels + top) \div (2 * top)})

\* A live code is read as a positive weight, as the product of floats is.
Dequantize(code, top) ==
  IF code = 0 \/ top = 0 THEN 0 ELSE Max({1, (code * top) \div Levels})

Load(row) == [d \in DOMAIN row.codes |-> Dequantize(row.codes[d], row.max)]

LiveIn(weights) == {d \in DOMAIN weights : weights[d] > 0}

Save(weights) ==
  LET top == Max({0} \cup {weights[d] : d \in DOMAIN weights})
  IN  [codes |-> [d \in DOMAIN weights |-> Quantize(weights[d], top)],
       live  |-> Cardinality(LiveIn(weights)),
       max   |-> top]

(***************************************************************************)
(* A term's rows and header after some of its rows were saved.             *)
(***************************************************************************)

Total(rows) == SumFunction([b \in DOMAIN rows |-> Cardinality(DOMAIN rows[b].codes)])

TotalLive(rows) == SumFunction([b \in DOMAIN rows |-> rows[b].live])

\* Mutant: the largest weight of a term is never lowered.
NeverRecompute(header, old, new) == FALSE

\* The largest weight falls only when a row that had it got smaller: then all rows are read.
MustRecompute(header, old, new) ==
  \E b \in DOMAIN new : old[b].max > 0 /\ old[b].max = header.max /\ new[b].max < header.max

HeaderAfter(header, old, new) ==
  LET nr   == Max({0, header.nr + Total(new) - Total(old)})
      live == Max({0, header.live + TotalLive(new) - TotalLive(old)})
      tops == {new[b].max : b \in DOMAIN new}
      top  == IF MustRecompute(header, old, new) THEN Max(tops) ELSE Max(tops \cup {header.max})
  IN  IF nr = 0 THEN NoHeader
      ELSE [nr |-> nr, live |-> live, max |-> IF live = 0 THEN 0 ELSE top]

WithRows(part, new) == [rows |-> new, header |-> HeaderAfter(part.header, part.rows, new)]

\* addDocumentsBatchInternal for one term: the updates are merged into each block's row.
AddTerm(part, updates) ==
  WithRows(part, [b \in BlockNrs |->
    LET mine == Restrict(updates, {d \in DOMAIN updates : BlockNr(d) = b})
        old  == Load(part.rows[b])
    IN  IF DOMAIN mine = {} THEN part.rows[b]
        ELSE Save([d \in DOMAIN mine \cup DOMAIN old |->
                     IF d \in DOMAIN mine THEN mine[d] ELSE old[d]])])

\* removeDocumentInternal for one term: nothing if the posting is absent or dead already.
HasLive(part, d) ==
  LET old == Load(part.rows[BlockNr(d)])
  IN  part.header.nr > 0 /\ d \in LiveIn(old)

\* Mutant: a removal writes the row back without marking the posting.
RemoveTermUnmarked(part, d) ==
  WithRows(part, [part.rows EXCEPT ![BlockNr(d)] = Save(Load(part.rows[BlockNr(d)]))])

RemoveTerm(part, d) ==
  LET row  == part.rows[BlockNr(d)]
      old  == [Load(row) EXCEPT ![d] = 0]
      dead == Cardinality(DOMAIN old) - Max({0, row.live - 1})
      kept == IF dead * TombDen >= TombNum * Cardinality(DOMAIN old)
                THEN Restrict(old, LiveIn(old)) ELSE old
  IN  WithRows(part, [part.rows EXCEPT ![BlockNr(d)] = Save(kept)])

InfoOf(header) == IF header.live > 0 /\ header.max > 0 THEN header.max ELSE 0

(***************************************************************************)
(* The whole index.                                                        *)
(***************************************************************************)
UpdatesOf(batch, t) ==
  [d \in {e \in DOMAIN batch : t \in DOMAIN batch[e]} |-> batch[d][t]]

TermsOf(batch) == UNION {DOMAIN batch[d] : d \in DOMAIN batch}

AddDocuments(batch) ==
  [t \in Terms |-> IF t \in TermsOf(batch) THEN AddTerm(work.postings[t], UpdatesOf(batch, t))
                   ELSE work.postings[t]]

\* The terms a removal works on.
LiveTerms(d) == {t \in DOMAIN work.docs[d] : HasLive(work.postings[t], d)}

RemoveDocument(d) ==
  [t \in Terms |-> IF t \in LiveTerms(d) THEN RemoveTerm(work.postings[t], d)
                   ELSE work.postings[t]]

\* Mutant: term_info_ is only ever raised.
InfoAfterRaised(postings, done) ==
  [t \in Terms |-> IF t \in done THEN Max({info[t], InfoOf(postings[t].header)}) ELSE info[t]]

\* term_info_ once the terms in "done" were worked on.
InfoAfter(postings, done) ==
  [t \in Terms |-> IF t \in done THEN InfoOf(postings[t].header) ELSE info[t]]

LoadTermInfo(postings) == [t \in Terms |-> InfoOf(postings[t].header)]

\* The postings vectors name, and those of them that are live.
Named(docs) == UNION {{<<t, d>> : t \in DOMAIN docs[d]} : d \in DOMAIN docs}

Pairs(docs) ==
  UNION {{<<t, d>> : t \in {u \in DOMAIN docs[d] : docs[d][u] > 0}} : d \in DOMAIN docs}

SparseInit ==
  /\ db = [docs |-> NoMap,
           postings |-> [t \in Terms |-> [rows |-> [b \in BlockNrs |-> NoRow],
                                          header |-> NoHeader]]]
  /\ work = db /\ writing = "none" /\ adds = 0
  /\ info = [t \in Terms |-> 0] /\ count = 0
  /\ stale = FALSE /\ rewritten = FALSE /\ stray = [db |-> {}, work |-> {}]

StoredIn(batch) == [d \in DOMAIN batch |-> Packed(batch[d])]

\* store_vectors_batch, up to its commit: the vectors, then the postings and term_info_.
StoreBatch(batch) ==
  LET stored == StoredIn(batch)
      docs   == [d \in DOMAIN work.docs \cup DOMAIN batch |->
                   IF d \in DOMAIN batch THEN stored[d] ELSE work.docs[d]]
      posted == AddDocuments(batch)
      over   == Restrict(work.docs, DOMAIN batch \cap DOMAIN work.docs)
  IN  /\ writing = "none" /\ count + Cardinality(DOMAIN batch) <= MaxCount
      /\ work' = [docs |-> docs, postings |-> posted]
      /\ writing' = "store"
      /\ adds' = Cardinality(DOMAIN batch)
      /\ info' = InfoAfter(posted, TermsOf(batch))
      /\ rewritten' = (rewritten \/ DOMAIN over # {})
      /\ stray' = [stray EXCEPT !.work =
                     ((@ \cup Pairs(over)) \ Named(batch)) \cup (Pairs(batch) \ Pairs(stored))]
      /\ UNCHANGED <<db, count, stale>>

\* The same when a row cannot be written: the terms in "done" were worked on before.
StoreFails(batch, done) ==
  /\ writing = "none" /\ done \subseteq TermsOf(batch)
  /\ info' = InfoAfter(AddDocuments(batch), done)
  /\ stale' = TRUE
  /\ UNCHANGED <<db, work, writing, adds, count, rewritten, stray>>

\* delete_vector, up to its commit; it counts the vector out before.
DeleteVector(d) ==
  /\ writing = "none" /\ d \in DOMAIN work.docs
  /\ count > -MaxCount
  /\ work' = [docs |-> Restrict(work.docs, DOMAIN work.docs \ {d}),
              postings |-> RemoveDocument(d)]
  /\ info' = InfoAfter(RemoveDocument(d), LiveTerms(d))
  /\ stray' = [stray EXCEPT !.work = @ \ {<<t, d>> : t \in DOMAIN work.docs[d]}]
  /\ writing' = "delete"
  /\ count' = count - 1
  /\ UNCHANGED <<db, adds, stale, rewritten>>

DeleteFails(d, done) ==
  /\ writing = "none" /\ d \in DOMAIN work.docs /\ done \subseteq LiveTerms(d)
  /\ info' = InfoAfter(RemoveDocument(d), done)
  /\ stale' = TRUE
  /\ UNCHANGED <<db, work, writing, adds, count, rewritten, stray>>

\* Mutant: a batch counts as one vector.
CommitOne ==
  /\ writing # "none"
  /\ db' = work /\ writing' = "none"
  /\ count' = IF writing = "store" THEN count + 1 ELSE count
  /\ adds' = 0
  /\ stray' = [stray EXCEPT !.db = stray.work]
  /\ UNCHANGED <<work, info, stale, rewritten>>

Commit ==
  /\ writing # "none"
  /\ db' = work /\ writing' = "none"
  /\ count' = IF writing = "store" THEN count + adds ELSE count
  /\ adds' = 0
  /\ stray' = [stray EXCEPT !.db = stray.work]
  /\ UNCHANGED <<work, info, stale, rewritten>>

\* The rows are as before the operation; term_info_ and, for a removal, vector_count_ are not.
CommitFails ==
  /\ writing # "none"
  /\ work' = db /\ writing' = "none" /\ adds' = 0
  /\ stale' = TRUE
  /\ stray' = [stray EXCEPT !.work = stray.db]
  /\ UNCHANGED <<db, info, count, rewritten>>

StoredCount(view) == Cardinality(DOMAIN view.docs)

\* The process ends, or the index is evicted; then it is opened: initialize.
Reopen ==
  /\ work' = db /\ writing' = "none" /\ adds' = 0
  /\ info' = LoadTermInfo(db.postings)
  /\ count' = StoredCount(db)
  /\ stale' = FALSE /\ rewritten' = FALSE
  /\ stray' = [stray EXCEPT !.work = stray.db]
  /\ UNCHANGED db

SparseNext ==
  \/ \E batch \in Batches :
       StoreBatch(batch) \/ \E done \in SUBSET Terms : StoreFails(batch, done)
  \/ \E d \in Docs :
       DeleteVector(d) \/ \E done \in SUBSET Terms : DeleteFails(d, done)
  \/ Commit \/ CommitFails \/ Reopen

SparseSpec == SparseInit /\ [][SparseNext]_sparseVars

-----------------------------------------------------------------------------
RowType == [codes : UNION {[S -> 0 .. Levels] : S \in SUBSET Docs}, live : Nat, max : Nat]

ViewOK(view) ==
  /\ DOMAIN view.docs \subseteq Docs
  /\ \A t \in Terms, b \in BlockNrs :
       /\ view.postings[t].rows[b] \in RowType
       /\ \A d \in DOMAIN view.postings[t].rows[b].codes : BlockNr(d) = b

\* The type invariant: rows hold the documents of their block, in bytes.
SparseTypeOK ==
  /\ ViewOK(db) /\ ViewOK(work)
  /\ writing \in {"none", "store", "delete"} /\ (writing = "none" => work = db)
  /\ info \in [Terms -> Nat] /\ count \in Int /\ adds \in Nat

\* The documents with a live posting of a term.
Alive(part) == {d \in Docs : d \in LiveIn(Load(part.rows[BlockNr(d)]))}

LivePostings(view) == {p \in Terms \X Docs : p[2] \in Alive(view.postings[p[1]])}

\* The inverted index agrees with the stored vectors: whatever was merged, removed, kept as
\* a tombstone or compacted, every live weight of a stored vector has a live posting, and
\* the others are those of terms a vector lost when it was stored over (its old row is not
\* read) or when its count of terms wrapped.
PostingsExact ==
  /\ LivePostings(db) = Pairs(db.docs) \cup stray.db
  /\ LivePostings(work) = Pairs(work.docs) \cup stray.work

Counted(part) ==
  LET rows == {part.rows[b] : b \in BlockNrs}
  IN  /\ part.header.nr = Total(part.rows) /\ part.header.live = TotalLive(part.rows)
      /\ \A row \in rows : row.live = Cardinality(LiveIn(Load(row)))
      /\ part.header.max = Max({0} \cup UNION {Range(Load(row)) : row \in rows})

\* The headers, kept by adding differences and by reading all rows only when the largest
\* weight may have fallen, say what the rows hold: the entries, the live ones and exactly
\* the largest weight a search decodes, in spite of the rounding to bytes.
HeadersExact ==
  SparseTypeOK /\ \A t \in Terms : Counted(db.postings[t]) /\ Counted(work.postings[t])

\* Unless a transaction was given up since the index was opened, term_info_ says of every
\* term what the open transaction's headers say; with none open, what a search reads.  It
\* is the bound searches prune by: below a posting's weight, it loses results.
InfoFresh == ~stale => info = LoadTermInfo(work.postings)

\* With no failure and no vector stored over since the index was opened, vector_count_ is
\* the number of stored vectors, less the one whose removal is not committed.
CountExact ==
  ~stale /\ ~rewritten =>
    count = Cardinality(DOMAIN db.docs) - (IF writing = "delete" THEN 1 ELSE 0)
=============================================================================
