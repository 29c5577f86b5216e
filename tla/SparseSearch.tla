----------------------------- MODULE SparseSearch -----------------------------
(***************************************************************************)
(* InvertedIndex::search (sparse/inverted_index.cpp): one search of the    *)
(* posting lists, in windows of document ids, that skips what cannot reach *)
(* the best k found so far.                                                *)
(*                                                                         *)
(* The search has a snapshot of the rows and keeps writers from term_info_ *)
(* for its duration, so what it reads does not change.  Here term_info_    *)
(* agrees with the snapshot: SparseIndex says when it does (InfoFresh) and *)
(* that headers count what the rows hold (HeadersExact), from which the    *)
(* entries an iterator has left follow.  Of equal scores at the bottom of  *)
(* the queue any may be popped, and of equally long lists any is pruned.   *)
(***************************************************************************)
EXTENDS PostingBlocks, FiniteSetsExt, Functions

CONSTANTS
  Searches,   \* the searches: lists, weight of each query term, k and filter
  BatchSz,    \* settings::INV_IDX_SEARCH_BATCH_SZ
  Exhausted   \* EXHAUSTED_DOC_ID, the largest value of idInt

ASSUME SearchAssumption ==
  /\ BatchSz \in Nat \ {0} /\ Exhausted \in Nat \ {0}
  /\ \A s \in Searches :
       /\ IsFiniteSet(DOMAIN s.lists) /\ DOMAIN s.weight = DOMAIN s.lists /\ s.k \in Nat
       /\ \A t \in DOMAIN s.lists :
            /\ s.weight[t] \in Nat
            /\ DOMAIN s.lists[t] \subseteq 0 .. (Exhausted - 1)
            /\ \A d \in DOMAIN s.lists[t] : s.lists[t][d] \in Nat

VARIABLES
  search,     \* the query and the posting lists: decoded weights, 0 is a tombstone
  phase,
  cur,        \* iterators: current_doc_id
  pruning,    \* use_pruning
  minId,
  window,     \* batch_start .. batch_end
  local,      \* the document of the window looked at next
  scores,     \* scores_buf, by document
  top,        \* top_results: the score of each document in the queue
  threshold,
  bestMin     \* best_min_score

searchVars ==
  <<search, phase, cur, pruning, minId, window, local, scores, top, threshold, bestMin>>

List(t) == search.lists[t]

\* Comparisons of ids are of block numbers, then of offsets.
UpTo(d, last) ==
  BlockNr(d) < BlockNr(last) \/ (BlockNr(d) = BlockNr(last) /\ Offset(d) <= Offset(last))

From(d, target) ==
  BlockNr(d) > BlockNr(target) \/ (BlockNr(d) = BlockNr(target) /\ Offset(d) >= Offset(target))

\* Mutant: an iterator that meets a tombstone stays where it is.
NextLiveStuck(t, entries) ==
  IF \E d \in entries : List(t)[d] = 0 THEN cur[t] ELSE Min(entries \cup {Exhausted})

\* Not tombstones.
Live(list, entries) == {d \in entries : list[d] > 0}

\* advanceToNextLive from the first of these entries on.
NextLive(t, entries) == Min(Live(List(t), entries) \cup {Exhausted})

Ahead(t) == {d \in DOMAIN List(t) : d >= cur[t]}

Left(t) == Cardinality(Ahead(t))

UpperBound(t) == Max(Range(List(t)) \cup {0}) * search.weight[t]

MinCur(at, terms) == Min({at[t] : t \in terms} \cup {Exhausted})

Active(at) == {t \in DOMAIN at : at[t] # Exhausted}

\* A term is skipped unless its weight is positive, term_info_ has it and it has live postings.
Used(s) ==
  {t \in DOMAIN s.lists : s.weight[t] > 0 /\ Live(s.lists[t], DOMAIN s.lists[t]) # {}}

\* An iterator starts on the first live posting of its list.
FirstLive(list) == Min(Live(list, DOMAIN list))

Begin(s) ==
  LET used  == Used(s)
      first == [t \in used |-> FirstLive(s.lists[t])]
  IN  /\ search = s
      /\ phase = IF s.k = 0 \/ used = {} THEN "done" ELSE "window"
      /\ cur = first
      /\ pruning = (Cardinality(used) > 1)
      /\ minId = Min(Range(first) \cup {Exhausted})

SearchInit ==
  /\ \E s \in Searches : Begin(s)
  /\ window = <<0, 0>> /\ local = 0 /\ scores = [d \in {} |-> 0]
  /\ top = [d \in {} |-> 0] /\ threshold = 0 /\ bestMin = 0

\* What these terms' postings of a document add up to.
Added(terms, d) == SumFunction([t \in terms |-> List(t)[d] * search.weight[t]])

\* The postings of a window are added up, list by list: accumulateBatchScores.
Window ==
  LET sum   == (minId + BatchSz - 1) % (Exhausted + 1)
      last  == IF sum < minId THEN Exhausted - 1 ELSE sum
      taken == [t \in DOMAIN cur |-> IF cur[t] > last THEN {} ELSE {d \in Ahead(t) : UpTo(d, last)}]
  IN  /\ phase = "window" /\ minId # Exhausted
      /\ window' = <<minId, last>> /\ local' = minId
      /\ scores' = [d \in minId .. last |-> Added({t \in DOMAIN cur : d \in taken[t]}, d)]
      /\ cur' = [t \in DOMAIN cur |->
           IF cur[t] > last THEN cur[t] ELSE NextLive(t, Ahead(t) \ taken[t])]
      /\ phase' = "scan"
      /\ UNCHANGED <<search, pruning, minId, top, threshold, bestMin>>

Skipped(d) == scores[d] = 0 \/ scores[d] <= threshold \/ d \notin search.filter

With(queue, d) == [e \in DOMAIN queue \cup {d} |-> IF e = d THEN scores[d] ELSE queue[e]]

Lowest(queue) == {d \in DOMAIN queue : queue[d] = Min(Range(queue))}

\* One document of the window: the queue takes it if it is among the best k so far.
Scan ==
  /\ phase = "scan" /\ local <= window[2]
  /\ \/ Skipped(local) /\ UNCHANGED <<top, threshold>>
     \/ /\ ~Skipped(local) /\ Cardinality(DOMAIN top) < search.k
        /\ top' = With(top, local)
        /\ threshold' = IF Cardinality(DOMAIN top') = search.k THEN Min(Range(top')) ELSE threshold
     \/ /\ ~Skipped(local) /\ Cardinality(DOMAIN top) = search.k
        /\ \E d \in Lowest(top) : top' = With(Restrict(top, DOMAIN top \ {d}), local)
        /\ threshold' = Min(Range(top'))
  /\ local' = local + 1
  /\ UNCHANGED <<search, phase, cur, pruning, minId, window, scores, bestMin>>

Longest(terms) == {t \in terms : \A u \in terms : Left(u) <= Left(t)}

\* Mutant: a list is pruned whatever its postings may add.
PrunedBlindly(t, terms) ==
  LET resume == MinCur(cur, terms \ {t})
  IN  IF resume > cur[t]
        THEN [cur EXCEPT ![t] = IF resume = Exhausted THEN Exhausted
                                ELSE NextLive(t, {d \in Ahead(t) : From(d, resume)})]
        ELSE cur

\* pruneLongest: the longest list goes on where another one does.
Pruned(t, terms) ==
  LET resume == MinCur(cur, terms \ {t})
  IN  IF resume > cur[t] /\ UpperBound(t) <= threshold
        THEN [cur EXCEPT ![t] = IF resume = Exhausted THEN Exhausted
                                ELSE NextLive(t, {d \in Ahead(t) : From(d, resume)})]
        ELSE cur

\* The end of a window: exhausted iterators are dropped, then perhaps one list is pruned.
EndWindow ==
  /\ phase = "scan" /\ local > window[2]
  /\ IF Active(cur) = {} THEN phase' = "done" /\ UNCHANGED <<cur, minId, bestMin>>
     ELSE /\ \/ /\ ~(pruning /\ Cardinality(DOMAIN top) >= search.k /\ threshold # bestMin)
                /\ cur' = Restrict(cur, Active(cur))
                /\ UNCHANGED bestMin
             \/ /\ pruning /\ Cardinality(DOMAIN top) >= search.k /\ threshold # bestMin
                /\ \E t \in Longest(Active(cur)) :
                     cur' = Restrict(Pruned(t, Active(cur)), Active(cur))
                /\ bestMin' = threshold
          /\ minId' = MinCur(cur', DOMAIN cur')
          /\ phase' = "window"
  /\ UNCHANGED <<search, pruning, window, local, scores, top, threshold>>

NoMore ==
  /\ phase = "window" /\ minId = Exhausted
  /\ phase' = "done"
  /\ UNCHANGED <<search, cur, pruning, minId, window, local, scores, top, threshold, bestMin>>

SearchNext == Window \/ Scan \/ EndWindow \/ NoMore

SearchSpec == SearchInit /\ [][SearchNext]_searchVars

\* The loop goes on until it ends: nothing in it waits.
FairSearch == SearchSpec /\ WF_searchVars(SearchNext)

-----------------------------------------------------------------------------
SearchTypeOK ==
  /\ phase \in {"window", "scan", "done"}
  /\ cur \in [DOMAIN cur -> 0 .. Exhausted] /\ minId \in 0 .. Exhausted
  /\ Cardinality(DOMAIN top) <= search.k

Score(d) == Added({t \in DOMAIN search.lists : d \in DOMAIN List(t)}, d)

Matching == {d \in search.filter : Score(d) > 0}

BestOf(docs) ==
  /\ DOMAIN top \subseteq docs
  /\ \A d \in DOMAIN top : top[d] = Score(d)
  /\ Cardinality(DOMAIN top) = Min({search.k, Cardinality(docs)})
  /\ \A d \in docs \ DOMAIN top, e \in DOMAIN top : Score(d) <= top[e]

\* The answer is right: it has k documents that pass the filter, or all that match, each with
\* its whole score, and no other scores higher, though lists were pruned, windows wrapped at
\* the largest id and tombstones were passed.  At the start of each window it is right for
\* the documents behind it: whatever pruning jumped over could not have entered it.
TopK ==
  /\ SearchTypeOK
  /\ phase = "window" => BestOf({d \in Matching : d < minId})
  /\ phase = "done" => BestOf(Matching)

\* Every search ends.
SearchEnds == <>(phase = "done")
=============================================================================
