-------------------------- MODULE SearchMemoryProofs --------------------------
(***************************************************************************)
(* Proofs about the memory that searches share: no two use one visited     *)
(* list, a search sees its own visits only, a vector in use stays in the   *)
(* cache, and a cached vector is the stored one as far as the code sees to *)
(* it.                                                                     *)
(***************************************************************************)
EXTENDS SearchMemory, TLAPS

\* What is modulo the size of the cache is a slot.
LEMMA IndexIsSlot == \A n \in Nodes : Index(n) \in Slots
  BY MemoryAssumption DEF Index, Nodes, Slots

LEMMA NoneIsNoNode == None \notin Nodes /\ None \notin Lists
  BY MemoryAssumption DEF Nodes

-----------------------------------------------------------------------------
\* The types hold in every state.
LEMMA TypeInit == MemoryInit => MemoryTypeOK
<1> SUFFICES ASSUME MemoryInit PROVE MemoryTypeOK
  OBVIOUS
<1> USE MemoryAssumption, NoneIsNoNode
<1>1. pool \in Seq(Lists)
  BY DEF MemoryInit
<1>2. /\ nodes \in 1 .. MaxNodes /\ tag \in [Lists -> 0 .. Tags - 1]
      /\ mass \in [Lists -> [Nodes -> 0 .. Tags - 1]] /\ size \in [Lists -> 1 .. MaxNodes]
  BY DEF MemoryInit
<1>3. /\ slot \in [Slots -> [id : Nodes \cup {None}, data : 0 .. MaxVersion, life : 0 .. 3]]
      /\ stored \in [Nodes -> 0 .. MaxVersion]
  BY DEF MemoryInit
<1>4. QED
  BY <1>1, <1>2, <1>3 DEF MemoryInit, MemoryTypeOK

LEMMA InsertedType ==
  ASSUME NEW n \in Nodes, NEW v \in 0 .. MaxVersion, MemoryTypeOK
  PROVE  Inserted(n, v) \in [id : Nodes \cup {None}, data : 0 .. MaxVersion, life : 0 .. 3]
  BY IndexIsSlot, MemoryAssumption DEF Inserted, MemoryTypeOK

LEMMA ResetType ==
  ASSUME NEW l \in Lists, MemoryTypeOK, Reset(l)
  PROVE  /\ tag' \in [Lists -> 0 .. Tags - 1]
         /\ mass' \in [Lists -> [Nodes -> 0 .. Tags - 1]]
  BY MemoryAssumption DEF Reset, MemoryTypeOK

\* The types of the visited lists, and of the cache.
ListTypes ==
  /\ nodes \in 1 .. MaxNodes
  /\ pool \in Seq(Lists)
  /\ tag \in [Lists -> 0 .. Tags - 1]
  /\ mass \in [Lists -> [Nodes -> 0 .. Tags - 1]]
  /\ size \in [Lists -> 1 .. MaxNodes]
  /\ held \in [Threads -> Lists \cup {None}]
  /\ seen \in [Threads -> SUBSET Nodes]
  /\ grown \in BOOLEAN

CacheTypes ==
  /\ late \in BOOLEAN
  /\ slot \in [Slots -> [id : Nodes \cup {None}, data : 0 .. MaxVersion, life : 0 .. 3]]
  /\ stored \in [Nodes -> 0 .. MaxVersion]
  /\ dirty \subseteq Nodes
  /\ read \in [Threads -> {Nothing} \cup [pc : {"view", "fetched"}, id : Nodes, data : 0 .. MaxVersion]]

LEMMA BothTypes == MemoryTypeOK <=> ListTypes /\ CacheTypes
  BY DEF MemoryTypeOK, ListTypes, CacheTypes

LEMMA CacheTypesStay ==
  ASSUME MemoryTypeOK, UNCHANGED cacheVars, ListTypes'
  PROVE  MemoryTypeOK'
<1>1. CacheTypes'
  BY BothTypes DEF CacheTypes, cacheVars
<1>2. QED
  BY <1>1, BothTypes DEF MemoryTypeOK, ListTypes, CacheTypes

LEMMA TypeStep == MemoryTypeOK /\ [MemoryNext]_vars => MemoryTypeOK'
<1> SUFFICES ASSUME MemoryTypeOK, [MemoryNext]_vars PROVE MemoryTypeOK'
  OBVIOUS
<1> USE MemoryAssumption, NoneIsNoNode
<1>1. CASE \E t \in Threads : TakeList(t)
  <2> PICK t \in Threads : TakeList(t)
    BY <1>1
  <2>1. Head(pool) \in Lists /\ Tail(pool) \in Seq(Lists)
    BY DEF TakeList, MemoryTypeOK
  <2>2. QED
    <3>1. ListTypes'
      BY <2>1, ResetType DEF TakeList, MemoryTypeOK, ListTypes
    <3>2. QED
      BY <3>1, CacheTypesStay DEF TakeList
<1>2. CASE \E t \in Threads, l \in Lists : NewList(t, l)
  <2> PICK t \in Threads, l \in Lists : NewList(t, l)
    BY <1>2
  <2>1. tag' \in [Lists -> 0 .. Tags - 1] /\ mass' \in [Lists -> [Nodes -> 0 .. Tags - 1]]
    BY DEF NewList, MemoryTypeOK
  <2>2. ListTypes'
    BY <2>1 DEF NewList, MemoryTypeOK, ListTypes
  <2>3. QED
    BY <2>2, CacheTypesStay DEF NewList
<1>3. CASE \E t \in Threads : ReleaseList(t)
  <2> PICK t \in Threads : ReleaseList(t)
    BY <1>3
  <2>1. <<held[t]>> \o pool \in Seq(Lists)
    BY DEF ReleaseList, MemoryTypeOK
  <2>2. QED
    <3>1. ListTypes'
      BY <2>1 DEF ReleaseList, MemoryTypeOK, ListTypes
    <3>2. QED
      BY <3>1, CacheTypesStay DEF ReleaseList
<1>4. CASE \E l \in Lists : Resize(l)
  <2>1. ListTypes' /\ UNCHANGED cacheVars
    BY <1>4 DEF Resize, MemoryTypeOK, ListTypes
  <2>2. QED
    BY <2>1, CacheTypesStay
<1>5. CASE \E t \in Threads, n \in Nodes : VisitCached(t, n)
  <2> PICK t \in Threads, n \in Nodes : VisitCached(t, n)
    BY <1>5
  <2>1. ListTypes'
    BY IndexIsSlot DEF VisitCached, MemoryTypeOK, ListTypes
  <2>2. CacheTypes'
    BY IndexIsSlot DEF VisitCached, MemoryTypeOK, CacheTypes
  <2>3. QED
    BY <2>1, <2>2 DEF MemoryTypeOK, ListTypes, CacheTypes
<1>6. CASE \E t \in Threads, n \in Nodes : VisitStored(t, n)
  BY <1>6 DEF VisitStored, MemoryTypeOK
<1>7. CASE \E t \in Threads : EndView(t)
  BY <1>7 DEF EndView, MemoryTypeOK, visitVars
<1>8. CASE \E t \in Threads : Fill(t)
  <2> PICK t \in Threads : Fill(t)
    BY <1>8
  <2>1. read[t].id \in Nodes /\ read[t].data \in 0 .. MaxVersion
    BY DEF Fill, MemoryTypeOK, Nothing
  <2>2. Inserted(read[t].id, read[t].data)
          \in [id : Nodes \cup {None}, data : 0 .. MaxVersion, life : 0 .. 3]
    BY <2>1, InsertedType
  <2>3. slot' \in [Slots -> [id : Nodes \cup {None}, data : 0 .. MaxVersion, life : 0 .. 3]]
    BY <2>1, <2>2, IndexIsSlot DEF Fill, MemoryTypeOK
  <2>4. QED
    BY <2>3 DEF Fill, MemoryTypeOK, visitVars
<1>9. CASE \E n \in Nodes : Store(n)
  <2> PICK n \in Nodes : Store(n)
    BY <1>9
  <2>1. stored' \in [Nodes -> 0 .. MaxVersion] /\ dirty' \subseteq Nodes
    BY DEF Store, MemoryTypeOK
  <2>2. QED
    BY <2>1 DEF Store, MemoryTypeOK, visitVars
<1>10. CASE \E n \in Nodes : Invalidate(n)
  BY <1>10, IndexIsSlot DEF Invalidate, MemoryTypeOK, visitVars
<1>11. CASE UNCHANGED vars
  BY <1>11 DEF MemoryTypeOK, vars, visitVars, cacheVars
<1>12. QED
  BY <1>1, <1>2, <1>3, <1>4, <1>5, <1>6, <1>7, <1>8, <1>9, <1>10, <1>11 DEF MemoryNext

\* The memory of the searches is well formed (visited_list_pool.h, vector_cache.h).
THEOREM MemoryTypes == MemorySpec => []MemoryTypeOK
  BY TypeInit, TypeStep, PTL DEF MemorySpec

-----------------------------------------------------------------------------
(***************************************************************************)
(* The visited lists.  No list holds a tag above its own, so that the next *)
(* tag marks nothing; when the tags wrap the list is cleared.              *)
(***************************************************************************)
TagsBelow == \A l \in Lists, n \in Nodes : mass[l][n] <= tag[l]

VisitInv == MemoryTypeOK /\ ListsApart /\ TagsBelow /\ VisitedExact

LEMMA VisitInvInit == MemoryInit => VisitInv
<1> SUFFICES ASSUME MemoryInit PROVE VisitInv
  OBVIOUS
<1>1. MemoryTypeOK
  BY TypeInit
<1>2. ListsApart /\ VisitedExact
  BY NoneIsNoNode DEF MemoryInit, ListsApart, VisitedExact, Searching
<1>3. TagsBelow
  BY MemoryAssumption DEF MemoryInit, TagsBelow
<1>4. QED
  BY <1>1, <1>2, <1>3 DEF VisitInv

LEMMA ResetForgets ==
  ASSUME NEW l \in Lists, MemoryTypeOK, TagsBelow, Reset(l)
  PROVE  /\ TagsBelow'
         /\ \A n \in Nodes : mass'[l][n] # tag'[l]
         /\ \A k \in Lists \ {l} : tag'[k] = tag[k] /\ mass'[k] = mass[k]
<1> USE MemoryAssumption DEF MemoryTypeOK, TagsBelow, Reset
<1>1. CASE tag[l] + 1 = Tags
  BY <1>1
<1>2. CASE tag[l] + 1 # Tags
  <2>1. tag[l] \in Nat /\ tag[l] + 1 # 0
    OBVIOUS
  <2>2. tag' = [tag EXCEPT ![l] = tag[l] + 1] /\ mass' = mass
    BY <1>2, <2>1 DEF Reset
  <2>3. QED
    BY <2>1, <2>2
<1>3. QED
  BY <1>1, <1>2

\* An element is marked in one list, and in that only.
LEMMA MarkVisits ==
  ASSUME NEW t \in Searching, NEW n \in Nodes, VisitInv, UNCHANGED <<pool, tag, held>>,
         mass' = [mass EXCEPT ![held[t]] = [@ EXCEPT ![n] = tag[held[t]]]],
         seen' = [seen EXCEPT ![t] = @ \cup {n}]
  PROVE  ListsApart' /\ TagsBelow' /\ VisitedExact'
<1> USE DEF VisitInv, MemoryTypeOK
<1>1. ListsApart'
  BY DEF ListsApart, Searching
<1>2. TagsBelow'
  BY MemoryAssumption DEF TagsBelow, Searching
<1>3. ASSUME NEW u \in Searching, NEW m \in Nodes
      PROVE  mass'[held[u]][m] = tag[held[u]] <=> m \in seen'[u]
  <2>1. CASE u = t
    BY <2>1 DEF VisitedExact, Visited, Searching
  <2>2. CASE u # t
    <3>1. held[u] # held[t]
      BY <2>2 DEF ListsApart
    <3>2. mass'[held[u]] = mass[held[u]] /\ seen'[u] = seen[u]
      BY <2>2, <3>1 DEF Searching
    <3>3. QED
      BY <3>2 DEF VisitedExact, Visited
  <2>3. QED
    BY <2>1, <2>2
<1>4. QED
  BY <1>1, <1>2, <1>3 DEF VisitedExact, Visited, Searching

LEMMA VisitInvStep == VisitInv /\ [MemoryNext]_vars => VisitInv'
<1> SUFFICES ASSUME VisitInv, [MemoryNext]_vars PROVE ListsApart' /\ TagsBelow' /\ VisitedExact'
  BY TypeStep DEF VisitInv
<1> USE NoneIsNoNode
<1>1. CASE \E t \in Threads : TakeList(t)
  <2> PICK t \in Threads : TakeList(t)
    BY <1>1
  <2> DEFINE l == Head(pool)
  <2>1. /\ l \in Lists /\ l = pool[1] /\ DOMAIN pool = 1 .. Len(pool) /\ Len(pool) \in Nat \ {0}
        /\ Tail(pool) \in Seq(Lists) /\ Len(Tail(pool)) = Len(pool) - 1
        /\ DOMAIN Tail(pool) = 1 .. Len(pool) - 1
        /\ \A i \in 1 .. Len(pool) - 1 : Tail(pool)[i] = pool[i + 1]
    BY DEF TakeList, VisitInv, MemoryTypeOK
  <2>2. \A u \in Searching : held[u] # l /\ u # t
    BY <2>1 DEF VisitInv, ListsApart, TakeList, Searching
  <2>3. held' = [held EXCEPT ![t] = l] /\ pool' = Tail(pool) /\ seen' = [seen EXCEPT ![t] = {}]
    BY DEF TakeList
  <2>4. Searching' = Searching \cup {t} /\ held'[t] = l /\ \A u \in Searching : held'[u] = held[u]
    BY <2>1, <2>2, <2>3 DEF Searching, VisitInv, MemoryTypeOK
  <2>5. /\ TagsBelow' /\ \A n \in Nodes : mass'[l][n] # tag'[l]
        /\ \A k \in Lists \ {l} : tag'[k] = tag[k] /\ mass'[k] = mass[k]
    BY <2>1, ResetForgets DEF TakeList, VisitInv
  <2>6. \A i, j \in DOMAIN pool' : pool'[i] = pool'[j] => i = j
    BY <2>1, <2>3 DEF VisitInv, ListsApart
  <2>7. \A u \in Searching' : \A i \in DOMAIN pool' : pool'[i] # held'[u]
    BY <2>1, <2>3, <2>4 DEF VisitInv, ListsApart
  <2>8. \A u, w \in Searching' : held'[u] = held'[w] => u = w
    BY <2>2, <2>4 DEF VisitInv, ListsApart
  <2>9. \A n \in Nodes : mass'[held'[t]][n] = tag'[held'[t]] <=> n \in seen'[t]
    BY <2>3, <2>4, <2>5 DEF VisitInv, MemoryTypeOK
  <2>10. \A u \in Searching, n \in Nodes :
           mass'[held'[u]][n] = tag'[held'[u]] <=> n \in seen'[u]
    BY <2>2, <2>3, <2>4, <2>5 DEF VisitInv, VisitedExact, Visited, MemoryTypeOK, Searching
  <2>11. QED
    BY <2>4, <2>5, <2>6, <2>7, <2>8, <2>9, <2>10 DEF ListsApart, VisitedExact, Visited
<1>2. CASE \E t \in Threads, l \in Lists : NewList(t, l)
  <2> PICK t \in Threads, l \in Lists : NewList(t, l)
    BY <1>2
  <2>1. \A u \in Searching : held[u] # l /\ u # t
    BY DEF NewList, Unused, Searching
  <2>2. /\ held' = [held EXCEPT ![t] = l] /\ tag' = [tag EXCEPT ![l] = 1] /\ pool' = <<>>
        /\ mass' = [mass EXCEPT ![l] = [n \in Nodes |-> 0]] /\ seen' = [seen EXCEPT ![t] = {}]
    BY DEF NewList
  <2>3. Searching' = Searching \cup {t} /\ held'[t] = l /\ \A u \in Searching : held'[u] = held[u]
    BY <2>1, <2>2 DEF Searching, VisitInv, MemoryTypeOK
  <2>4. TagsBelow'
    BY <2>2, MemoryAssumption DEF VisitInv, TagsBelow, MemoryTypeOK
  <2>5. ListsApart'
    BY <2>1, <2>2, <2>3 DEF VisitInv, ListsApart
  <2>6. \A n \in Nodes : mass'[held'[t]][n] = tag'[held'[t]] <=> n \in seen'[t]
    BY <2>2, <2>3 DEF VisitInv, MemoryTypeOK
  <2>7. \A u \in Searching, n \in Nodes :
           mass'[held'[u]][n] = tag'[held'[u]] <=> n \in seen'[u]
    BY <2>1, <2>2, <2>3 DEF VisitInv, VisitedExact, Visited, MemoryTypeOK, Searching
  <2>8. QED
    BY <2>3, <2>4, <2>5, <2>6, <2>7 DEF VisitedExact, Visited
<1>3. CASE \E t \in Threads : ReleaseList(t)
  <2> PICK t \in Threads : ReleaseList(t)
    BY <1>3
  <2> DEFINE l == held[t]
  <2>1. l \in Lists /\ t \in Searching
    BY DEF ReleaseList, VisitInv, MemoryTypeOK, Searching
  <2>2. /\ pool' = <<l>> \o pool /\ held' = [held EXCEPT ![t] = None] /\ tag' = tag /\ mass' = mass
        /\ seen' = [seen EXCEPT ![t] = {}]
    BY DEF ReleaseList
  <2>3. /\ DOMAIN pool = 1 .. Len(pool) /\ Len(pool) \in Nat /\ DOMAIN pool' = 1 .. Len(pool) + 1
        /\ pool'[1] = l /\ \A i \in DOMAIN pool' : i # 1 => i - 1 \in DOMAIN pool /\ pool'[i] = pool[i - 1]
    BY <2>1, <2>2 DEF VisitInv, MemoryTypeOK
  <2>4. Searching' = Searching \ {t} /\ \A u \in Searching' : held'[u] = held[u] /\ seen'[u] = seen[u]
    BY <2>2 DEF Searching, VisitInv, MemoryTypeOK
  <2>5. \A u \in Searching' : held'[u] # l
    BY <2>1, <2>4 DEF VisitInv, ListsApart
  <2>6. \A i \in DOMAIN pool : pool[i] # l
    BY <2>1 DEF VisitInv, ListsApart
  <2>7. \A i, j \in DOMAIN pool' : pool'[i] = pool'[j] => i = j
    BY <2>3, <2>6 DEF VisitInv, ListsApart
  <2>8. \A u \in Searching' : \A i \in DOMAIN pool' : pool'[i] # held'[u]
    BY <2>3, <2>4, <2>5 DEF VisitInv, ListsApart
  <2>9. TagsBelow' /\ VisitedExact'
    BY <2>2, <2>4 DEF VisitInv, TagsBelow, VisitedExact, Visited
  <2>10. QED
    BY <2>4, <2>7, <2>8, <2>9 DEF VisitInv, ListsApart
<1>4. CASE \E l \in Lists : Resize(l)
  <2> PICK l \in Lists : Resize(l)
    BY <1>4
  <2>1. \A u \in Searching : held[u] # l
    BY DEF Resize, Searching
  <2>2. /\ pool' = <<l>> /\ tag' = [tag EXCEPT ![l] = Tags - 1] /\ mass' = mass
        /\ held' = held /\ seen' = seen /\ Searching' = Searching
    BY DEF Resize, Searching
  <2>3. ListsApart'
    BY <2>1, <2>2 DEF VisitInv, ListsApart
  <2>4. TagsBelow'
    BY <2>2, MemoryAssumption DEF VisitInv, TagsBelow, MemoryTypeOK
  <2>5. VisitedExact'
    BY <2>1, <2>2 DEF VisitInv, VisitedExact, Visited, MemoryTypeOK, Searching
  <2>6. QED
    BY <2>3, <2>4, <2>5
<1>5. CASE \E t \in Threads, n \in Nodes : VisitCached(t, n) \/ VisitStored(t, n)
  <2> PICK t \in Threads, n \in Nodes : VisitCached(t, n) \/ VisitStored(t, n)
    BY <1>5
  <2>1. /\ t \in Searching /\ UNCHANGED <<pool, tag, held>>
        /\ mass' = [mass EXCEPT ![held[t]] = [@ EXCEPT ![n] = tag[held[t]]]]
        /\ seen' = [seen EXCEPT ![t] = @ \cup {n}]
    BY DEF VisitCached, VisitStored, Searching
  <2>2. QED
    BY <2>1, MarkVisits
<1>6. CASE \/ \E t \in Threads : EndView(t) \/ Fill(t)
           \/ \E n \in Nodes : Store(n) \/ Invalidate(n)
           \/ UNCHANGED vars
  <2>1. UNCHANGED visitVars
    BY <1>6 DEF EndView, Fill, Store, Invalidate, vars
  <2>2. QED
    BY <2>1 DEF VisitInv, ListsApart, TagsBelow, VisitedExact, Visited, Searching, visitVars
<1>7. QED
  BY <1>1, <1>2, <1>3, <1>4, <1>5, <1>6 DEF MemoryNext

\* No two searches, and no search and the pool, share a list (visited_list_pool.h:50-69).
THEOREM ListsStayApart == MemorySpec => []ListsApart
<1>1. VisitInv => ListsApart
  BY DEF VisitInv
<1>2. QED
  BY <1>1, VisitInvInit, VisitInvStep, PTL DEF MemorySpec

\* A search sees its own visits and no others, though lists are used again and their 16-bit
\* tags wrap (visited_list_pool.h:23-29).
THEOREM SearchesSeeOwnVisits == MemorySpec => []VisitedExact
<1>1. VisitInv => VisitedExact
  BY DEF VisitInv
<1>2. QED
  BY <1>1, VisitInvInit, VisitInvStep, PTL DEF MemorySpec

-----------------------------------------------------------------------------
(***************************************************************************)
(* The cache.                                                              *)
(***************************************************************************)
LEMMA ViewsInit == MemoryInit => ViewsHold /\ CacheFresh
  BY IndexIsSlot DEF MemoryInit, ViewsHold, CacheFresh, Cached, Nothing

LEMMA InsertedKeeps ==
  ASSUME NEW n \in Nodes, NEW v \in 0 .. MaxVersion, MemoryTypeOK
  PROVE  LET s == slot[Index(n)]
             i == Inserted(n, v)
         IN  \/ i.id = n /\ i.data = v
             \/ i.id = s.id /\ i.data = s.data /\ s.life # 0 /\ s.id # n
  BY IndexIsSlot DEF Inserted, MemoryTypeOK

\* A view's slot is not written: its stripe is locked.
LEMMA FillKeepsViews ==
  ASSUME NEW t \in Threads, MemoryTypeOK, ViewsHold, Fill(t)
  PROVE  ViewsHold'
<1> USE DEF MemoryTypeOK
<1>1. ASSUME NEW u \in Threads, read'[u].pc = "view"
      PROVE  slot'[Index(read'[u].id)] = slot[Index(read[u].id)] /\ read'[u] = read[u]
  <2>1. u # t /\ read'[u] = read[u]
    BY <1>1 DEF Fill, Nothing
  <2>2. read[u].id \in Nodes /\ read[t].id \in Nodes
    BY <1>1, <2>1 DEF Fill, Nothing
  <2>3. CASE Locked(read[t].id)
    BY <2>1, <2>3 DEF Fill
  <2>4. CASE ~Locked(read[t].id)
    <3>1. Stripe(read[u].id) # Stripe(read[t].id)
      BY <1>1, <2>1, <2>4 DEF Locked
    <3>2. Index(read[u].id) # Index(read[t].id)
      BY <3>1 DEF Stripe
    <3>3. QED
      BY <2>1, <2>2, <2>4, <3>2, IndexIsSlot DEF Fill
  <2>5. QED
    BY <2>3, <2>4
<1>2. QED
  BY <1>1 DEF ViewsHold

LEMMA FillKeepsFresh ==
  ASSUME NEW t \in Threads, MemoryTypeOK, CacheFresh, Fill(t)
  PROVE  CacheFresh'
<1> DEFINE n == read[t].id
           v == read[t].data
<1>1. n \in Nodes /\ v \in 0 .. MaxVersion /\ stored' = stored /\ dirty' = dirty
  BY DEF Fill, MemoryTypeOK, Nothing
<1>2. SUFFICES ASSUME ~late', NEW m \in Nodes, Cached(m)'
               PROVE  slot'[Index(m)].data = stored[m] \/ m \in dirty
  BY <1>1 DEF CacheFresh
<1>3. ~late /\ (v = stored[n] \/ n \in dirty)
  BY <1>1, <1>2 DEF Fill
<1>4. CASE slot'[Index(m)] = slot[Index(m)]
  BY <1>2, <1>3, <1>4 DEF CacheFresh, Cached
<1>5. CASE slot'[Index(m)] # slot[Index(m)]
  <2>1. Index(m) = Index(n) /\ slot'[Index(m)] = Inserted(n, v)
    BY <1>1, <1>5, IndexIsSlot DEF Fill, MemoryTypeOK
  <2>2. Inserted(n, v).id = m
    BY <1>2, <2>1 DEF Cached
  <2>3. CASE m = n
    <3>1. Inserted(n, v).data = v
      BY <1>1, <2>2, <2>3, InsertedKeeps
    <3>2. QED
      BY <1>3, <2>1, <2>3, <3>1
  <2>4. CASE m # n
    <3>1. slot[Index(m)].id = m /\ slot[Index(m)].life # 0 /\ Inserted(n, v).data = slot[Index(m)].data
      BY <1>1, <2>1, <2>2, <2>4, InsertedKeeps
    <3>2. QED
      BY <1>3, <2>1, <3>1 DEF CacheFresh, Cached
  <2>5. QED
    BY <2>3, <2>4
<1>6. QED
  BY <1>4, <1>5

LEMMA CacheStep ==
  MemoryTypeOK /\ ViewsHold /\ CacheFresh /\ [MemoryNext]_vars => ViewsHold' /\ CacheFresh'
<1> SUFFICES ASSUME MemoryTypeOK, ViewsHold, CacheFresh, [MemoryNext]_vars
             PROVE  ViewsHold' /\ CacheFresh'
  OBVIOUS
<1>1. CASE \E t \in Threads : Fill(t)
  BY <1>1, FillKeepsViews, FillKeepsFresh
<1>2. CASE \E t \in Threads, n \in Nodes : VisitCached(t, n)
  <2> PICK t \in Threads, n \in Nodes : VisitCached(t, n)
    BY <1>2
  <2>1. /\ stored' = stored /\ dirty' = dirty /\ late' = late
        /\ \A s \in Slots : slot'[s].id = slot[s].id /\ slot'[s].data = slot[s].data
        /\ \A m \in Nodes : Cached(m)' => Cached(m)
    BY IndexIsSlot DEF VisitCached, Cached, MemoryTypeOK
  <2>2. slot[Index(n)].id = n
    BY DEF VisitCached, Cached
  <2>3. CacheFresh'
    BY <2>1, IndexIsSlot DEF CacheFresh
  <2>4. ASSUME NEW u \in Threads, read'[u].pc = "view"
        PROVE  /\ slot'[Index(read'[u].id)].id = read'[u].id
               /\ slot'[Index(read'[u].id)].data = read'[u].data
    <3>1. CASE u = t
      BY <2>1, <2>2, <3>1, IndexIsSlot DEF VisitCached, MemoryTypeOK
    <3>2. CASE u # t
      <4>1. read'[u] = read[u] /\ read[u].id \in Nodes
        BY <2>4, <3>2 DEF VisitCached, MemoryTypeOK, Nothing
      <4>2. QED
        BY <2>1, <2>4, <4>1, IndexIsSlot DEF ViewsHold
    <3>3. QED
      BY <3>1, <3>2
  <2>5. QED
    BY <2>3, <2>4 DEF ViewsHold
<1>3. CASE \E t \in Threads, n \in Nodes : VisitStored(t, n)
  BY <1>3 DEF VisitStored, ViewsHold, CacheFresh, Cached, MemoryTypeOK
<1>4. CASE \E t \in Threads : EndView(t)
  BY <1>4 DEF EndView, ViewsHold, CacheFresh, Cached, Nothing, MemoryTypeOK
<1>5. CASE \E n \in Nodes : Store(n)
  BY <1>5 DEF Store, ViewsHold, CacheFresh, Cached, MemoryTypeOK
<1>6. CASE \E n \in Nodes : Invalidate(n)
  <2> PICK n \in Nodes : Invalidate(n)
    BY <1>6
  <2>1. /\ stored' = stored /\ dirty' = dirty \ {n} /\ late' = late /\ read' = read
        /\ \A s \in Slots : slot'[s].id = slot[s].id /\ slot'[s].data = slot[s].data
        /\ \A m \in Nodes : Cached(m)' => Cached(m) /\ m # n
    BY IndexIsSlot DEF Invalidate, Cached, MemoryTypeOK
  <2>2. \A t \in Threads : read[t].pc = "view" => Index(read[t].id) \in Slots
    BY IndexIsSlot DEF MemoryTypeOK, Nothing
  <2>3. QED
    BY <2>1, <2>2, IndexIsSlot DEF ViewsHold, CacheFresh
<1>7. CASE UNCHANGED cacheVars
  BY <1>7 DEF cacheVars, ViewsHold, CacheFresh, Cached
<1>8. ASSUME \/ \E t \in Threads : TakeList(t) \/ ReleaseList(t) \/ \E l \in Lists : NewList(t, l)
             \/ \E l \in Lists : Resize(l)
             \/ UNCHANGED vars
      PROVE  UNCHANGED cacheVars
  BY <1>8 DEF TakeList, ReleaseList, NewList, Resize, vars
<1>9. QED
  BY <1>1, <1>2, <1>3, <1>4, <1>5, <1>6, <1>7, <1>8 DEF MemoryNext

LEMMA CacheInv == MemorySpec => [](MemoryTypeOK /\ ViewsHold /\ CacheFresh)
  BY TypeInit, TypeStep, ViewsInit, CacheStep, PTL DEF MemorySpec

\* A cached vector is not overwritten while a search reads it through a pointer
\* (vector_cache.h:120-166, hnswalg.h:806-813).
THEOREM ViewsStayTrue == MemorySpec => []ViewsHold
  BY CacheInv, PTL

\* A cached vector is the stored one or about to be invalidated, until a search caches what
\* it had read before an update (vector_cache.h:183-207).
THEOREM CacheStaysFresh == MemorySpec => []CacheFresh
  BY CacheInv, PTL

-----------------------------------------------------------------------------
(***************************************************************************)
(* The sizes of the lists.  The graph grows once, with a new pool; a list  *)
(* of another size stays in a search's hands only if one was under way.    *)
(***************************************************************************)
LEMMA ListsFitStep == MemoryTypeOK /\ ListsFit /\ [MemoryNext]_vars => ListsFit'
<1> SUFFICES ASSUME MemoryTypeOK, ListsFit, [MemoryNext]_vars, ~grown'
             PROVE  /\ \A t \in Searching' : size'[held'[t]] = nodes'
                    /\ \A i \in DOMAIN pool' : size'[pool'[i]] = nodes'
  BY DEF ListsFit
<1> USE NoneIsNoNode
<1>1. CASE \E t \in Threads : TakeList(t)
  <2> PICK t \in Threads : TakeList(t)
    BY <1>1
  <2>1. /\ 1 \in DOMAIN pool /\ Head(pool) = pool[1] /\ held' = [held EXCEPT ![t] = Head(pool)]
        /\ \A i \in DOMAIN pool' : i + 1 \in DOMAIN pool /\ pool'[i] = pool[i + 1]
        /\ UNCHANGED <<nodes, size, grown>>
    BY DEF TakeList, MemoryTypeOK
  <2>2. QED
    BY <2>1 DEF ListsFit, Searching, MemoryTypeOK
<1>2. CASE \E t \in Threads, l \in Lists : NewList(t, l)
  <2> PICK t \in Threads, l \in Lists : NewList(t, l)
    BY <1>2
  <2>1. /\ held' = [held EXCEPT ![t] = l] /\ size' = [size EXCEPT ![l] = nodes]
        /\ DOMAIN pool' = {} /\ UNCHANGED <<nodes, grown>>
    BY DEF NewList
  <2>2. QED
    BY <2>1 DEF ListsFit, Searching, MemoryTypeOK
<1>3. CASE \E t \in Threads : ReleaseList(t)
  <2> PICK t \in Threads : ReleaseList(t)
    BY <1>3
  <2>1. /\ held[t] \in Lists /\ pool' = <<held[t]>> \o pool /\ held' = [held EXCEPT ![t] = None]
        /\ UNCHANGED <<nodes, size, grown>>
    BY DEF ReleaseList, MemoryTypeOK
  <2>2. \A i \in DOMAIN pool' : pool'[i] = held[t] \/ \E j \in DOMAIN pool : pool'[i] = pool[j]
    BY <2>1 DEF MemoryTypeOK
  <2>3. t \in Searching /\ Searching' \subseteq Searching /\ \A u \in Searching' : held'[u] = held[u]
    BY <2>1 DEF Searching, MemoryTypeOK
  <2>4. QED
    BY <2>1, <2>2, <2>3 DEF ListsFit
<1>4. CASE \E l \in Lists : Resize(l)
  <2> PICK l \in Lists : Resize(l)
    BY <1>4
  <2>1. Searching' = {} /\ pool' = <<l>> /\ size' = [size EXCEPT ![l] = MaxNodes] /\ nodes' = MaxNodes
    BY DEF Resize, Searching
  <2>2. QED
    BY <2>1 DEF MemoryTypeOK
<1>5. ASSUME \/ \E t \in Threads : EndView(t) \/ Fill(t)
             \/ \E t \in Threads, n \in Nodes : VisitCached(t, n) \/ VisitStored(t, n)
             \/ \E n \in Nodes : Store(n) \/ Invalidate(n)
             \/ UNCHANGED vars
      PROVE  UNCHANGED <<nodes, pool, size, held, grown>>
  BY <1>5 DEF EndView, Fill, VisitCached, VisitStored, Store, Invalidate, vars, visitVars
<1>6. CASE UNCHANGED <<nodes, pool, size, held, grown>>
  BY <1>6 DEF ListsFit, Searching
<1>7. QED
  BY <1>1, <1>2, <1>3, <1>4, <1>5, <1>6 DEF MemoryNext

\* The lists at hand are as large as the graph, so that no search marks beyond the end of its
\* list, unless the graph was resized while one was under way (hnswalg.h:728-775).
THEOREM ListsStayFit == MemorySpec => []ListsFit
<1>1. MemoryInit => ListsFit
  BY NoneIsNoNode DEF MemoryInit, ListsFit, Searching
<1>2. QED
  BY <1>1, TypeInit, TypeStep, ListsFitStep, PTL DEF MemorySpec
=============================================================================
