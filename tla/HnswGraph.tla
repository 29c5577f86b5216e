------------------------------- MODULE HnswGraph -------------------------------
(***************************************************************************)
(* How an HNSW graph (hnsw/hnswalg.h) links its elements: addPoint for new *)
(* and for known elements, run by several threads at once, markDelete, and *)
(* the search of the levels and of the base layer.                         *)
(*                                                                         *)
(* A vector is a point on a line and similarity is nearness; ties, whose   *)
(* order is not specified, are broken by id.  An element is named by its   *)
(* internal id.  A thread's step is the search of one level with the write *)
(* of its own links, the relinking of one neighbour under that neighbour's *)
(* lock, the removal of its connections at one level, or the write of      *)
(* entryPoint_ or of maxLevel_.                                            *)
(* An element's flags are taken to be clear when it is added: the code     *)
(* does not set them, and a graph's memory is fresh.                       *)
(* A filtered search gives up refused elements once it has computed many   *)
(* similarities; that is left out.                                         *)
(***************************************************************************)
EXTENDS Integers, FiniteSets, Sequences, SequencesExt

CONSTANTS
  Capacity,     \* maxElements_
  Top,          \* the highest level getRandomLevel returns
  M,            \* M_; the base layer has M0_ = 2 * M_
  EfConstruct,  \* efConstruction_
  Backfill,     \* BACKFILL_BUFFER
  PatienceIn,   \* EARLY_EXIT_BUFFER_INSERT
  PatienceOut,  \* EARLY_EXIT_BUFFER_QUERY
  Points,       \* vectors
  Starts,       \* bound: the vectors each element may be added with
  Threads,
  None          \* INVALID_ID, and no thread

ASSUME GraphAssumption ==
  /\ Capacity \in Nat \ {0} /\ Top \in Nat /\ M \in Nat \ {0} /\ EfConstruct \in Nat \ {0}
  /\ Backfill \in Nat /\ PatienceIn \in Nat /\ PatienceOut \in Nat
  /\ Starts \in [0 .. Capacity - 1 -> SUBSET Points]
  /\ Points \subseteq Int /\ None \notin Threads /\ None \notin Int

Nodes  == 0 .. Capacity - 1
Levels == 0 .. Top

VARIABLES
  count,      \* curElementsCount_
  level,      \* the level of each element
  at,         \* the vector the graph reads for each element
  links,      \* its links at each level, in the order of the list
  marked,     \* the elements marked deleted
  deletions,  \* deletedElementsCount_
  entry,      \* entryPoint_
  maxLevel,   \* maxLevel_
  task,       \* what each thread is adding
  lock,       \* who holds index_lock_: the update of an entry point
  changes,    \* history and bound: one element is updated, and one deleted
  overlap,    \* history: two additions were under way at once
  raced       \* history: two additions raised the level at once

elements == <<count, level, at>>
marks    == <<marked, deletions, changes>>
tops     == <<entry, maxLevel>>
threads  == <<lock, overlap, raced>>

vars == <<elements, links, marks, tops, task, threads>>

Idle == [pc |-> "idle"]

Busy == {t \in Threads : task[t] # Idle}

Elements == 0 .. count - 1

Dist(p, q) == IF p < q THEN q - p ELSE p - q

Degree(l) == IF l = 0 THEN 2 * M ELSE M

Targets(n, l) == ToSet(links[n][l])

\* getUpperLayerDataPtr: the vector of a level above 0 is read from the element's own memory.
Readable(n, l) == l = 0 \/ level[n] > 0

\* S as a sequence, in a strict order.
InOrder(S, before(_, _)) ==
  [i \in 1 .. Cardinality(S) |-> CHOOSE a \in S : Cardinality({b \in S : before(b, a)}) = i - 1]

\* The elements of a list that are in S, in its order.
Kept(list, S) == FoldLeft(LAMBDA kept, n : IF n \in S THEN Append(kept, n) ELSE kept, <<>>, list)

NearestOf(S, p) == CHOOSE n \in S : \A m \in S : Dist(at[n], p) <= Dist(at[m], p)
FarthestOf(S, p) == CHOOSE n \in S : \A m \in S : Dist(at[n], p) >= Dist(at[m], p)

(***************************************************************************)
(* The greedy descent and the search of one level.                         *)
(***************************************************************************)

\* One level of the descent: to the nearest neighbour as long as it is nearer.
Greedy(start, p, l) ==
  LET walk[i \in 0 .. Capacity] ==
        IF i = 0 THEN start
        ELSE LET c == walk[i - 1]
             IN  NearestOf({c} \cup {n \in Targets(c, l) : Readable(n, l)}, p)
  IN  walk[Capacity]

Descend(start, p, from, to) ==
  LET down[l \in Levels] == IF l >= from THEN start ELSE Greedy(down[l + 1], p, l + 1)
  IN  down[to]

Hidden == IF deletions # 0 THEN marked ELSE {}

\* Mutant: an entry point marked deleted is no candidate.
StartVisitDropsDeleted(ep, l, ok) ==
  LET seen == ep \notin Hidden /\ Readable(ep, l)
  IN  [cand |-> IF seen THEN {ep} ELSE {}, low |-> {},
       best |-> IF seen /\ ep \in ok THEN {ep} ELSE {}, seen |-> {ep}, below |-> 0, done |-> FALSE]

\* A visit of searchBaseLayer: candidates, results and visited elements, and how often in a
\* row the best candidate was worse than the worst result.  `low' are the candidates without
\* a similarity.
StartVisit(ep, l, ok) ==
  LET seen == ep \notin Hidden /\ Readable(ep, l)
  IN  [cand |-> {ep}, low |-> IF seen THEN {} ELSE {ep},
       best |-> IF seen /\ ep \in ok THEN {ep} ELSE {}, seen |-> {ep}, below |-> 0, done |-> FALSE]

\* A neighbour becomes a candidate if there are less than ef results or it is nearer than one.
Consider(v, n, p, ef, ok) ==
  IF Cardinality(v.best) >= ef /\ Dist(at[n], p) >= Dist(at[FarthestOf(v.best, p)], p) THEN v
  ELSE LET best == IF n \in ok THEN v.best \cup {n} ELSE v.best
       IN  [v EXCEPT !.cand = @ \cup {n},
                     !.best = IF Cardinality(best) > ef THEN best \ {FarthestOf(best, p)} ELSE best]

Visit(v, p, l, ef, ok, patience) ==
  LET n     == IF v.cand = v.low THEN CHOOSE c \in v.low : TRUE ELSE NearestOf(v.cand \ v.low, p)
      worse == /\ Cardinality(v.best) >= ef
               /\ n \in v.low \/ Dist(at[n], p) > Dist(at[FarthestOf(v.best, p)], p)
      below == IF worse THEN v.below + 1 ELSE 0
      new   == IF Readable(n, l) THEN Targets(n, l) \ v.seen ELSE {}
      valid == {c \in new \ Hidden : Readable(c, l)}
      next  == [v EXCEPT !.cand = @ \ {n}, !.low = @ \ {n}, !.seen = @ \cup new, !.below = below]
      take(w, c) == Consider(w, c, p, ef, ok)
  IN  IF below > patience THEN [v EXCEPT !.done = TRUE]
      ELSE FoldLeft(take, next, Kept(links[n][l], valid \ ok) \o Kept(links[n][l], valid \cap ok))

\* S by nearness to p; the order of ties is not specified, and is here that of ids.
ByNearness(S, p) ==
  LET near(a, b) == Dist(at[a], p) < Dist(at[b], p) \/ (Dist(at[a], p) = Dist(at[b], p) /\ a < b)
  IN  InOrder(S, near)

\* searchBaseLayer: the results, the nearest first.
SearchLayer(ep, p, l, ef, ok, patience) ==
  LET run[i \in 0 .. Capacity] ==
        IF i = 0 THEN StartVisit(ep, l, ok)
        ELSE LET v == run[i - 1]
             IN  IF v.done \/ v.cand = {} THEN v ELSE Visit(v, p, l, ef, ok, patience)
  IN  ByNearness(run[Capacity].best, p)

\* searchKnn with a filter that allows ok.
SearchKnn(p, k, ef, ok) ==
  IF count = 0 THEN <<>>
  ELSE LET wide  == IF ef > k THEN ef ELSE k
           found == SearchLayer(Descend(entry, p, maxLevel, 0), p, 0, wide, ok, PatienceOut)
       IN  SubSeq(found, 1, IF Len(found) < k THEN Len(found) ELSE k)

(***************************************************************************)
(* The choice of neighbours.                                               *)
(***************************************************************************)

\* getNeighborsByHeuristic2: of candidates sorted by nearness to p, those nearer to p than to
\* any chosen before, and then others up to the backfill target.
Diverse(cands, p, m, l) ==
  LET good(chosen, c) == \A i \in DOMAIN chosen : Dist(at[chosen[i]], at[c]) >= Dist(p, at[c])
      take(s, c) == IF Len(s.in) = m THEN s
                    ELSE IF good(s.in, c) THEN [s EXCEPT !.in = Append(@, c)]
                    ELSE [s EXCEPT !.out = Append(@, c)]
      s      == FoldLeft(take, [in |-> <<>>, out |-> <<>>], cands)
      buffer == IF l = 0 THEN 2 * Backfill ELSE Backfill
      want   == IF m > buffer THEN m - buffer ELSE 0
      room   == IF want > Len(s.in) THEN want - Len(s.in) ELSE 0
  IN  IF Len(cands) <= m THEN cands
      ELSE s.in \o SubSeq(s.out, 1, IF room < Len(s.out) THEN room ELSE Len(s.out))

\* Mutant: the list grows past its degree.
RelinkedUnbounded(b, n, l) == Append(links[b][l], n)

\* The list of neighbour b once n asked to be in it.
Relinked(b, n, l) ==
  LET list == links[b][l]
      open == <<n>> \o list
      far(i) == Dist(at[open[i]], at[b])
      near(i, j) == far(i) < far(j) \/ (far(i) = far(j) /\ i < j)
      rank == InOrder(DOMAIN open, near)
      all  == [i \in DOMAIN open |-> open[rank[i]]]
  IN  IF Len(list) < Degree(l) THEN Append(list, n) ELSE Diverse(all, at[b], Degree(l), l)

SetLinks(n, l, list) == [links EXCEPT ![n][l] = list]

Lower(a, b) == IF a < b THEN a ELSE b

(***************************************************************************)
(* addPoint.                                                               *)
(***************************************************************************)
GraphInit ==
  /\ count = 0 /\ marked = {} /\ deletions = 0 /\ entry = 0 /\ maxLevel = 0
  /\ level = [n \in Nodes |-> 0]
  /\ at = [n \in Nodes |-> None]
  /\ links = [n \in Nodes |-> [l \in Levels |-> <<>>]]
  /\ task = [t \in Threads |-> Idle]
  /\ lock = None /\ changes = {}
  /\ overlap = FALSE /\ raced = FALSE

\* Points no vector of the graph or of the batch is at.
Free == Points \ ({at[n] : n \in Elements} \cup {task[t].at : t \in Busy})

Adding(n, p, pc, seed) ==
  [pc |-> pc, node |-> n, at |-> p, seed |-> seed,
   lvl |-> 0, cur |-> 0, todo |-> <<>>, raises |-> FALSE]

\* addPoint<true> until it searches.  Element 0 is linked to nothing.
AddNew(t, p, l) ==
  /\ task[t] = Idle /\ count < Capacity /\ p \in Starts[count]
  /\ count' = count + 1
  /\ level' = [level EXCEPT ![count] = l]
  /\ at' = [at EXCEPT ![count] = p]
  /\ task' = [task EXCEPT ![t] = IF count = 0 THEN Idle ELSE Adding(count, p, "seek", None)]
  /\ overlap' = (overlap \/ Busy # {})
  /\ UNCHANGED <<links, marks, tops, lock, raced>>

\* The first live neighbour of an entry point, from its highest level down.
SeedOf(n) ==
  LET live(l) == Kept(links[n][l], Elements \ (marked \cup {n}))
      ls      == {l \in 0 .. level[n] : live(l) # <<>>}
  IN  IF n # entry \/ ls = {} THEN None ELSE Head(live(CHOOSE l \in ls : \A j \in ls : j <= l))

\* addPoint<false> until it unlinks the element.  The vector of an element without upper
\* levels is the stored one, which has been replaced by now.
Update(t, n, p) ==
  /\ task[t] = Idle /\ \A u \in Busy : task[u].node # n
  /\ n = entry => lock = None
  /\ "update" \notin changes /\ changes' = changes \cup {"update"}
  /\ overlap' = (overlap \/ Busy # {})
  /\ lock' = IF n = entry THEN t ELSE lock
  /\ marked' = marked \ {n}
  /\ deletions' = IF n \in marked THEN deletions - 1 ELSE deletions
  /\ at' = IF level[n] = 0 THEN [at EXCEPT ![n] = p] ELSE at
  /\ task' = [task EXCEPT ![t] = Adding(n, p, "unlink", SeedOf(n))]
  /\ UNCHANGED <<count, level, links, tops, raced>>

\* connectPair on lists of links.
Paired(g, a, b, l) ==
  IF \/ b \in ToSet(g[a][l]) \/ a \in ToSet(g[b][l])
     \/ Len(g[a][l]) >= Degree(l) \/ Len(g[b][l]) >= Degree(l) THEN g
  ELSE [g EXCEPT ![a][l] = Append(@, b), ![b][l] = Append(@, a)]

\* removeAllConnections2 at level l: the neighbours forget n, and are paired from both ends.
Without(n, l) ==
  LET near == {c \in Targets(n, l) : c < count /\ c # n}
      cut  == [c \in Nodes |->
                 [links[c] EXCEPT ![l] = IF c = n THEN <<>>
                                         ELSE IF c \in near THEN Kept(@, Nodes \ {n})
                                         ELSE @]]
      ids  == InOrder(near, LAMBDA a, b : a < b)
      pair(g, i) == Paired(g, ids[i], ids[Len(ids) + 1 - i], l)
  IN  FoldLeft(pair, cut, [i \in 1 .. Len(ids) \div 2 |-> i])

\* The last level unlinked, the vector is replaced and the element linked again, unless it is
\* element 0.
Unlink(t) ==
  LET k == task[t]
  IN  /\ k.pc = "unlink"
      /\ links' = Without(k.node, k.lvl)
      /\ IF k.lvl < level[k.node]
           THEN task' = [task EXCEPT ![t].lvl = k.lvl + 1] /\ UNCHANGED at
           ELSE /\ at' = [at EXCEPT ![k.node] = k.at]
                /\ task' = [task EXCEPT ![t].pc = IF k.node = 0 THEN "done" ELSE "seek"]
      /\ UNCHANGED <<count, level, marks, tops, threads>>

\* Mutant: an update starts from the entry point, even if that is what it updates.
SeekFromEntry(t) ==
  LET k     == task[t]
      from  == entry
      first == Lower(maxLevel, level[from])
  IN  /\ k.pc = "seek"
      /\ task' = [task EXCEPT ![t] =
                    [k EXCEPT !.pc = "link", !.lvl = Lower(level[k.node], first),
                              !.cur = Descend(from, k.at, first, Lower(level[k.node], first)),
                              !.raises = level[k.node] > maxLevel]]
      /\ UNCHANGED <<elements, links, marks, tops, threads>>

\* maxLevel_ and the entry point are read, and the levels above the element's descended.
Seek(t) ==
  LET k     == task[t]
      from  == IF k.seed # None THEN k.seed ELSE entry
      first == Lower(maxLevel, level[from])
  IN  /\ k.pc = "seek"
      /\ task' = [task EXCEPT ![t] =
                    [k EXCEPT !.pc = "link", !.lvl = Lower(level[k.node], first),
                              !.cur = Descend(from, k.at, first, Lower(level[k.node], first)),
                              !.raises = level[k.node] > maxLevel]]
      /\ UNCHANGED <<elements, links, marks, tops, threads>>

\* Mutant: an element above all others does not become the entry point.
AfterKeepsEntry(k) ==
  IF k.lvl > 0 THEN [k EXCEPT !.lvl = @ - 1]
  ELSE [k EXCEPT !.pc = IF k.raises THEN "top" ELSE "done"]

\* The next level down, or the end.
After(k) ==
  IF k.lvl > 0 THEN [k EXCEPT !.lvl = @ - 1]
  ELSE [k EXCEPT !.pc = IF k.raises THEN "entry" ELSE "done"]

\* searchBaseLayer and the first half of mutuallyConnectNewElement.
Link(t) ==
  LET k      == task[t]
      found  == SearchLayer(k.cur, k.at, k.lvl, EfConstruct, Nodes, PatienceIn)
      chosen == Diverse(found, k.at, Degree(k.lvl), k.lvl)
      rest   == Kept(chosen, Nodes \ {k.node})
      next   == [k EXCEPT !.cur = IF chosen = <<>> THEN 0 ELSE Head(chosen), !.todo = rest]
  IN  /\ k.pc = "link" /\ k.todo = <<>>
      /\ links' = IF chosen = <<>> THEN links ELSE SetLinks(k.node, k.lvl, chosen)
      /\ task' = [task EXCEPT ![t] = IF rest = <<>> THEN After(next) ELSE next]
      /\ UNCHANGED <<elements, marks, tops, threads>>

\* The rest of it, one neighbour at a time.
LinkBack(t) ==
  LET k == task[t]
      b == Head(k.todo)
      next == [k EXCEPT !.todo = Tail(@)]
  IN  /\ k.pc = "link" /\ k.todo # <<>>
      /\ links' = SetLinks(b, k.lvl, Relinked(b, k.node, k.lvl))
      /\ task' = [task EXCEPT ![t] = IF next.todo = <<>> THEN After(next) ELSE next]
      /\ UNCHANGED <<elements, marks, tops, threads>>

\* has_higher_level: entryPoint_, then maxLevel_.
SetEntry(t) ==
  /\ task[t].pc = "entry"
  /\ entry' = task[t].node
  /\ task' = [task EXCEPT ![t].pc = "top"]
  /\ raced' = (raced \/ level[task[t].node] <= maxLevel \/ \E u \in Threads : task[u].pc = "top")
  /\ UNCHANGED <<elements, links, marks, maxLevel, lock, overlap>>

SetTop(t) ==
  /\ task[t].pc = "top"
  /\ maxLevel' = level[task[t].node]
  /\ task' = [task EXCEPT ![t].pc = "done"]
  /\ UNCHANGED <<elements, links, marks, entry, threads>>

\* addPoint returns, and the next object of the batch is taken.
Return(t) ==
  /\ task[t].pc = "done"
  /\ task' = [task EXCEPT ![t] = Idle]
  /\ lock' = IF lock = t THEN None ELSE lock
  /\ UNCHANGED <<elements, links, marks, tops, overlap, raced>>

\* markDelete, between batches.  Marking again only counts (HnswLabels).
MarkDelete(n) ==
  /\ Busy = {} /\ n \notin marked
  /\ "deletion" \notin changes /\ changes' = changes \cup {"deletion"}
  /\ marked' = marked \cup {n}
  /\ deletions' = deletions + 1
  /\ UNCHANGED <<elements, links, tops, task, threads>>

Step(t) == \/ Unlink(t) \/ Seek(t) \/ Link(t) \/ LinkBack(t)
           \/ SetEntry(t) \/ SetTop(t) \/ Return(t)

\* get_linklist: a list above an element's level lies behind the element's memory.  The search of
\* a level that starts at such a list may do anything, and the model stops there.
Undefined ==
  \E t \in Busy : LET k == task[t] IN
    k.pc = "link" /\ k.todo = <<>> /\ Readable(k.cur, k.lvl) /\ level[k.cur] < k.lvl

GraphNext ==
  /\ ~Undefined
  /\ \/ \E t \in Threads :
          \/ Step(t)
          \/ \E p \in Free, l \in Levels : AddNew(t, p, l)
          \/ \E n \in Elements : \E p \in Free \cup {at[n]} : Update(t, n, p)
     \/ \E n \in Elements : MarkDelete(n)

GraphSpec == GraphInit /\ [][GraphNext]_vars
-----------------------------------------------------------------------------
GraphTypeOK ==
  /\ count \in 0 .. Capacity
  /\ level \in [Nodes -> Levels]
  /\ \A n \in Nodes : at[n] \in Points \cup {None}
  /\ marked \subseteq Elements /\ deletions = Cardinality(marked)
  /\ entry \in Nodes /\ maxLevel \in Levels
  /\ lock \in Threads \cup {None} /\ overlap \in BOOLEAN /\ raced \in BOOLEAN

\* A list holds its degree at most, and at each level it names elements of that level, for
\* whose lists there is memory, however additions relink each other's neighbours.
WellLinked ==
  GraphTypeOK /\ \A n \in Nodes, l \in Levels :
    /\ Len(links[n][l]) <= Degree(l)
    /\ links[n][l] # <<>> => n < count /\ level[n] >= l
    /\ \A m \in Targets(n, l) : m < count /\ level[m] >= l

\* A search starts on an element that has the level it starts at, unless two additions
\* raised the level at once: entryPoint_ and maxLevel_ are written one after the other.
EntryTop == ~raced => maxLevel <= level[entry]

Reachable(start) ==
  LET reach[i \in 0 .. Capacity] ==
        IF i = 0 THEN {start}
        ELSE LET r == reach[i - 1] IN r \cup ((UNION {Targets(n, 0) : n \in r}) \ Hidden)
  IN  reach[Capacity]

\* A search gives k different elements, unmarked and allowed by the filter, whenever it can
\* reach k through unmarked ones, and the nearest of them if ef is large enough.  A search
\* that starts above its entry point's level (EntryTop) reads a list that is not there.
SearchComplete ==
  Busy = {} /\ count > 0 /\ maxLevel <= level[entry] => \A p \in Points, ok \in {Nodes, Nodes \ {0}}, k \in {1, 2} :
    LET reach == Reachable(Descend(entry, p, maxLevel, 0))
        good  == (reach \ Hidden) \cap ok
        size  == Lower(k, Cardinality(good))
        brief == SearchKnn(p, k, k, ok)
    IN  /\ Len(brief) = size /\ ToSet(brief) \subseteq good /\ Cardinality(ToSet(brief)) = size
        /\ SearchKnn(p, k, count, ok) = SubSeq(ByNearness(good, p), 1, size)

Alone(n) == Targets(n, 0) \subseteq {n}

\* The entry point is linked again by an update that found a live neighbour to start from,
\* lest the search that relinks it ends where it starts.
EntryReinserted ==
  \A t \in Busy : task[t].pc = "done" /\ task[t].seed # None => ~Alone(task[t].node)

\* The list of an element names the element itself, at a level above the base where it has
\* another neighbour: the search that relinked it met an element that still listed it.
FoundItself(n) ==
  \E l \in 1 .. level[n] :
    n \in Targets(n, l) /\ \E c \in Elements \ {n} : c \in Targets(n, l) \/ n \in Targets(c, l)

\* So it is if no other addition was under way, unless it is element 0 or found itself: the
\* search of the next level then starts, and ends, at the element that was just disconnected.
SeedReinserted ==
  \A t \in Busy : LET k == task[t] IN
    ~overlap /\ k.pc = "done" /\ k.seed # None /\ k.node # 0 =>
      ~Alone(k.node) \/ FoundItself(k.node)
=============================================================================
