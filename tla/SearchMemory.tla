----------------------------- MODULE SearchMemory -----------------------------
(***************************************************************************)
(* The memory that searches of a graph share: the pool of lists that       *)
(* record what a search has visited (hnsw/visited_list_pool.h) and the     *)
(* cache of base-layer vectors (hnsw/vector_cache.h), which a search fills *)
(* with what it read from the storage and an update invalidates, and the   *)
(* resizing of the graph by a save (hnswalg.h), which no search excludes.  *)
(***************************************************************************)
EXTENDS Integers, FiniteSets, Sequences

CONSTANTS
  Threads,     \* searches
  Lists,       \* visited lists: memory for as many as can be in use
  MaxNodes,    \* bound: the size the graph can grow to
  StartNodes,  \* its first size
  Tags,        \* 2^16: the number of visit tags
  CacheSize,   \* 2^cache_bits
  Stripes,     \* CACHE_LOCK_STRIPE_COUNT
  MaxVersion,  \* bound: how often a vector is replaced
  None         \* INVALID_ID, and no list

ASSUME MemoryAssumption ==
  /\ MaxNodes \in Nat /\ StartNodes \in 1 .. MaxNodes
  /\ Tags \in Nat \ {0, 1} /\ CacheSize \in Nat \ {0} /\ Stripes \in Nat \ {0}
  /\ MaxVersion \in Nat /\ None \notin Lists \cup Int
  /\ IsFiniteSet(Lists) /\ IsFiniteSet(Threads) /\ Cardinality(Lists) > Cardinality(Threads)

Nodes == 0 .. MaxNodes - 1
Slots == 0 .. CacheSize - 1

VARIABLES
  nodes,   \* maxElements_
  pool,    \* the free lists, the last released first
  tag,     \* curV of each list
  mass,    \* the tags in each list
  size,    \* its numelements
  held,    \* the list a search holds
  seen,    \* history: what the search has visited
  grown,   \* history: the graph was resized while a search held a list
  slot,    \* the cache: an id, a vector and a life for each slot
  stored,  \* the version of each vector in the storage
  dirty,   \* the vectors that an update has stored and not yet invalidated
  read,    \* what a search reads: a cached vector under a lock, or one it fetched
  late     \* history: a vector was cached after the update that replaced it

visitVars == <<pool, tag, mass, size, held, seen>>
cacheVars == <<slot, stored, dirty, read, late>>
vars == <<nodes, visitVars, grown, cacheVars>>

Nothing == [pc |-> "none"]

Searching == {t \in Threads : held[t] # None}

MemoryInit ==
  /\ nodes = StartNodes
  /\ \E l \in Lists : pool = <<l>>
  /\ tag = [l \in Lists |-> Tags - 1]
  /\ mass = [l \in Lists |-> [n \in Nodes |-> 0]]
  /\ size = [l \in Lists |-> StartNodes]
  /\ held = [t \in Threads |-> None]
  /\ seen = [t \in Threads |-> {}]
  /\ grown = FALSE
  /\ slot = [s \in Slots |-> [id |-> None, data |-> 0, life |-> 0]]
  /\ stored = [n \in Nodes |-> 0]
  /\ dirty = {}
  /\ read = [t \in Threads |-> Nothing]
  /\ late = FALSE

(***************************************************************************)
(* The visited lists.                                                      *)
(***************************************************************************)

\* A list that is in no one's hands: `new' takes its memory as it is.
Unused == Lists \ ({pool[i] : i \in DOMAIN pool} \cup {held[t] : t \in Threads})

\* Mutant: a list is not cleared when its tags wrap.
ResetUncleared(l) ==
  LET next == IF tag[l] + 1 = Tags THEN 0 ELSE tag[l] + 1
  IN  /\ tag' = [tag EXCEPT ![l] = IF next = 0 THEN 1 ELSE next]
      /\ UNCHANGED mass

\* reset: the next tag; when the tags are used up the list is cleared, and 0 is skipped.
Reset(l) ==
  LET next == IF tag[l] + 1 = Tags THEN 0 ELSE tag[l] + 1
  IN  /\ tag' = [tag EXCEPT ![l] = IF next = 0 THEN 1 ELSE next]
      /\ mass' = IF next = 0 THEN [mass EXCEPT ![l] = [n \in Nodes |-> 0]] ELSE mass

\* Mutant: the list stays in the pool.
TakeListLeft(t) ==
  /\ held[t] = None /\ pool # <<>>
  /\ held' = [held EXCEPT ![t] = Head(pool)]
  /\ UNCHANGED pool
  /\ Reset(Head(pool))
  /\ seen' = [seen EXCEPT ![t] = {}]
  /\ UNCHANGED <<nodes, size, grown, cacheVars>>

\* getFreeVisitedList: the front of the pool.
TakeList(t) ==
  /\ held[t] = None /\ pool # <<>>
  /\ held' = [held EXCEPT ![t] = Head(pool)]
  /\ pool' = Tail(pool)
  /\ Reset(Head(pool))
  /\ seen' = [seen EXCEPT ![t] = {}]
  /\ UNCHANGED <<nodes, size, grown, cacheVars>>

\* getFreeVisitedList: a new list, whose tag starts as -1.
NewList(t, l) ==
  /\ held[t] = None /\ pool = <<>> /\ l \in Unused
  /\ held' = [held EXCEPT ![t] = l]
  /\ tag' = [tag EXCEPT ![l] = 1]
  /\ mass' = [mass EXCEPT ![l] = [n \in Nodes |-> 0]]
  /\ size' = [size EXCEPT ![l] = nodes]
  /\ seen' = [seen EXCEPT ![t] = {}]
  /\ UNCHANGED <<nodes, pool, grown, cacheVars>>

Visited(t, n) == mass[held[t]][n] = tag[held[t]]

\* releaseVisitedList: into the pool there is by now.
ReleaseList(t) ==
  /\ held[t] # None /\ read[t] = Nothing
  /\ pool' = <<held[t]>> \o pool
  /\ held' = [held EXCEPT ![t] = None]
  /\ seen' = [seen EXCEPT ![t] = {}]
  /\ UNCHANGED <<nodes, tag, mass, size, grown, cacheVars>>

\* Mutant: the pool keeps its lists.
ResizeKeepsPool(l) ==
  /\ nodes < MaxNodes /\ l \in Lists \ {held[t] : t \in Threads}
  /\ nodes' = MaxNodes
  /\ UNCHANGED pool
  /\ tag' = [tag EXCEPT ![l] = Tags - 1]
  /\ size' = [size EXCEPT ![l] = MaxNodes]
  /\ grown' = (Searching # {})
  /\ UNCHANGED <<mass, held, seen, cacheVars>>

\* resizeIndex: a new pool of one list of the new size.
Resize(l) ==
  /\ nodes < MaxNodes /\ l \in Lists \ {held[t] : t \in Threads}
  /\ nodes' = MaxNodes
  /\ pool' = <<l>>
  /\ tag' = [tag EXCEPT ![l] = Tags - 1]
  /\ size' = [size EXCEPT ![l] = MaxNodes]
  /\ grown' = (Searching # {})
  /\ UNCHANGED <<mass, held, seen, cacheVars>>

(***************************************************************************)
(* The cache of vectors.                                                   *)
(***************************************************************************)

\* getCacheIndex, and the stripe of its lock.
Index(n) == n % CacheSize
\* Mutant: the lock is chosen by the id, not by its slot.
StripeOfId(n) == n % Stripes

Stripe(n) == Index(n) % Stripes

Cached(n) == slot[Index(n)].life # 0 /\ slot[Index(n)].id = n

\* The caller holds the stripe's lock shared while it uses a pointer into the cache.
Locked(n) == \E t \in Threads : read[t].pc = "view" /\ Stripe(read[t].id) = Stripe(n)

\* Mutant: a slot that has the id is taken to have the vector.
InsertedOnce(n, v) ==
  LET s == slot[Index(n)]
  IN  IF s.id = n THEN [id |-> n, data |-> s.data, life |-> 3]
      ELSE IF s.life > 1 THEN [id |-> s.id, data |-> s.data, life |-> s.life - 1]
      ELSE [id |-> n, data |-> v, life |-> 2]

\* insert: the vector of the slot's id is refreshed; another id's must have lost its lives.
Inserted(n, v) ==
  LET s == slot[Index(n)]
  IN  IF s.id = n THEN [id |-> n, data |-> v, life |-> 3]
      ELSE IF s.life > 1 THEN [id |-> s.id, data |-> s.data, life |-> s.life - 1]
      ELSE [id |-> n, data |-> v, life |-> 2]

\* A search marks an element it has not visited, and finds its vector in the cache.
VisitCached(t, n) ==
  /\ held[t] # None /\ read[t] = Nothing /\ n < nodes /\ ~Visited(t, n) /\ Cached(n)
  /\ mass' = [mass EXCEPT ![held[t]] = [@ EXCEPT ![n] = tag[held[t]]]]
  /\ seen' = [seen EXCEPT ![t] = @ \cup {n}]
  /\ slot' = [slot EXCEPT ![Index(n)] = [id |-> n, data |-> slot[Index(n)].data, life |-> 3]]
  /\ read' = [read EXCEPT ![t] = [pc |-> "view", id |-> n, data |-> slot[Index(n)].data]]
  /\ UNCHANGED <<nodes, pool, tag, size, held, grown, stored, dirty, late>>

\* Or does not, and reads it from the storage.
VisitStored(t, n) ==
  /\ held[t] # None /\ read[t] = Nothing /\ n < nodes /\ ~Visited(t, n) /\ ~Cached(n)
  /\ mass' = [mass EXCEPT ![held[t]] = [@ EXCEPT ![n] = tag[held[t]]]]
  /\ seen' = [seen EXCEPT ![t] = @ \cup {n}]
  /\ read' = [read EXCEPT ![t] = [pc |-> "fetched", id |-> n, data |-> stored[n]]]
  /\ UNCHANGED <<nodes, pool, tag, size, held, grown, slot, stored, dirty, late>>

\* The vector is compared with the query, and the lock released.
EndView(t) ==
  /\ read[t].pc = "view"
  /\ read' = [read EXCEPT ![t] = Nothing]
  /\ UNCHANGED <<nodes, visitVars, grown, slot, stored, dirty, late>>

\* What was fetched is cached, unless the stripe is locked: try_to_lock.
Fill(t) ==
  LET n == read[t].id
      v == read[t].data
  IN  /\ read[t].pc = "fetched"
      /\ slot' = IF Locked(n) THEN slot ELSE [slot EXCEPT ![Index(n)] = Inserted(n, v)]
      /\ late' = (late \/ (v # stored[n] /\ n \notin dirty))
      /\ read' = [read EXCEPT ![t] = Nothing]
      /\ UNCHANGED <<nodes, visitVars, grown, stored, dirty>>

\* An update stores the vector, and addPoint<false> invalidates the slot without its lock.
Store(n) ==
  /\ n < nodes /\ stored[n] < MaxVersion /\ n \notin dirty
  /\ stored' = [stored EXCEPT ![n] = @ + 1]
  /\ dirty' = dirty \cup {n}
  /\ UNCHANGED <<nodes, visitVars, grown, slot, read, late>>

Invalidate(n) ==
  /\ n \in dirty
  /\ slot' = IF slot[Index(n)].id = n
               THEN [slot EXCEPT ![Index(n)] = [id |-> n, data |-> slot[Index(n)].data, life |-> 0]]
               ELSE slot
  /\ dirty' = dirty \ {n}
  /\ UNCHANGED <<nodes, visitVars, grown, stored, read, late>>

MemoryNext ==
  \/ \E t \in Threads :
       \/ TakeList(t) \/ ReleaseList(t) \/ EndView(t) \/ Fill(t)
       \/ \E l \in Lists : NewList(t, l)
       \/ \E n \in Nodes : VisitCached(t, n) \/ VisitStored(t, n)
  \/ \E l \in Lists : Resize(l)
  \/ \E n \in Nodes : Store(n) \/ Invalidate(n)

MemorySpec == MemoryInit /\ [][MemoryNext]_vars

-----------------------------------------------------------------------------
MemoryTypeOK ==
  /\ nodes \in 1 .. MaxNodes
  /\ pool \in Seq(Lists)
  /\ tag \in [Lists -> 0 .. Tags - 1]
  /\ mass \in [Lists -> [Nodes -> 0 .. Tags - 1]]
  /\ size \in [Lists -> 1 .. MaxNodes]
  /\ held \in [Threads -> Lists \cup {None}]
  /\ seen \in [Threads -> SUBSET Nodes]
  /\ grown \in BOOLEAN /\ late \in BOOLEAN
  /\ slot \in [Slots -> [id : Nodes \cup {None}, data : 0 .. MaxVersion, life : 0 .. 3]]
  /\ stored \in [Nodes -> 0 .. MaxVersion]
  /\ dirty \subseteq Nodes
  /\ read \in [Threads -> {Nothing} \cup [pc : {"view", "fetched"}, id : Nodes, data : 0 .. MaxVersion]]

\* No two searches share a list.
ListsApart ==
  /\ \A i, j \in DOMAIN pool : pool[i] = pool[j] => i = j
  /\ \A t \in Searching : \A i \in DOMAIN pool : pool[i] # held[t]
  /\ \A t, u \in Searching : held[t] = held[u] => t = u

\* A search takes an element for visited exactly if it has visited it itself, however often
\* its list was used before and whatever its memory held.
VisitedExact == \A t \in Searching, n \in Nodes : Visited(t, n) <=> n \in seen[t]

\* The lists at hand are as large as the graph, unless it grew under a search.
ListsFit ==
  ~grown => /\ \A t \in Searching : size[held[t]] = nodes
            /\ \A i \in DOMAIN pool : size[pool[i]] = nodes

\* A vector in use through a pointer into the cache is not replaced.
ViewsHold ==
  \A t \in Threads : read[t].pc = "view" =>
    slot[Index(read[t].id)].id = read[t].id /\ slot[Index(read[t].id)].data = read[t].data

\* What the cache gives is what is stored, or about to be invalidated, unless a search cached
\* a vector it had read before the update.
CacheFresh ==
  ~late => \A n \in Nodes : Cached(n) => slot[Index(n)].data = stored[n] \/ n \in dirty
=============================================================================
