--------------------------- MODULE IndexCacheProofs ---------------------------
(***************************************************************************)
(* Proofs about the cache of indices: the map, the list and the sums of    *)
(* sizes agree, and acknowledged writes last, are served and are saved     *)
(* before an eviction, for any requests, indices, sizes and bounds.        *)
(***************************************************************************)
EXTENDS IndexCache, SumProofs, SequenceTheorems

-------------------------------------------------------------------------------
(* The invariant.                                                          *)

\* A request does what it was asked.
Asked == \A r \in Requests : pc[r] # "idle" => <<r, req[r].kind, req[r].index>> \in Asks

Kinded ==
  \A r \in Requests :
    /\ pc[r] \in {"askRestore", "copy", "restoreMeta", "restoreLoad"} => req[r].kind = "restore"
    /\ pc[r] \in {"open", "publish"} => req[r].kind = "create"
    /\ pc[r] \in {"lockToErase", "erase", "move"} => req[r].kind = "delete"

\* Who is between a lock of indices_mutex_ and its release.
Locking == {"load", "evict", "evicting", "fetch", "erase", "move"}

Locked ==
  \A r \in Requests :
    pc[r] \in Locking \/ (pc[r] = "recover" /\ req[r].kind # "restore") => mapMutex = r

\* A creation that has opened the databases of an index: nobody else makes an entry of it.
PublishesNew(r) ==
  LET x == Index(r) IN
  /\ indices[x] = 0 /\ opened[r] # 0
  /\ \/ dir[x] = opened[r]
     \/ dir[x] = 0 /\ \E d \in Requests : <<d, "delete", x>> \in Asks

Publishing ==
  /\ \A r \in Requests : pc[r] = "publish" => PublishesNew(r)
  /\ \A q, r \in Requests : pc[q] = "publish" /\ pc[r] = "publish" /\ Index(q) = Index(r) => q = r

\* The indices from a place of the list on.
ListedFrom(k) == {list[i] : i \in k .. Len(list)}

\* What an eviction still counts is what it has not looked at yet: the end of the list.
StillCounted(r) == \E k \in 0 .. Len(list) : total[r] = SizeOf(ListedFrom(k + 1))

Evicting == \A r \in Requests : pc[r] = "evicting" => StillCounted(r)

CacheInv == CacheTypeOK /\ ListMatches /\ Asked /\ Kinded /\ Locked /\ Publishing /\ Evicting

\* What an index holds when nothing is known of it but its place among the indices.
LEMMA RequestIs ==
  ASSUME CacheInv, NEW r \in Requests, pc[r] # "idle"
  PROVE  /\ Index(r) \in Indexes /\ req[r].kind \in Kinds
         /\ <<r, req[r].kind, Index(r)>> \in Asks
<1>1. <<r, req[r].kind, req[r].index>> \in Asks
  BY DEF CacheInv, Asked
<1>2. <<r, req[r].kind, req[r].index>> \in Requests \X Kinds \X Indexes
  BY <1>1, IndexCacheAssumption
<1>3. QED
  BY <1>1, <1>2 DEF Index

-------------------------------------------------------------------------------
(* Sizes.                                                                  *)

LEMMA SizeIs ==
  ASSUME NEW S \in SUBSET Indexes, IsFiniteSet(S), NEW A \in SUBSET S
  PROVE  /\ SizeOf(A) = Sums(Restrict(Size, S))[A]
         /\ SizeOf(A) \in Nat
         /\ Restrict(Size, S) \in [S -> Nat]
<1>1. Restrict(Size, S) \in [S -> Nat] /\ \A x \in S : Restrict(Size, S)[x] = Size[x]
  BY IndexCacheAssumption DEF Restrict
<1>2. Restrict(Size, A) \in [A -> Nat] /\ \A x \in A : Restrict(Size, A)[x] = Size[x]
  BY IndexCacheAssumption DEF Restrict
<1>3. SizeOf(A) = Sums(Restrict(Size, S))[A]
  BY <1>1, <1>2, SumOfPart DEF SizeOf
<1>4. SizeOf(A) \in Nat
  BY <1>1, <1>3, SumsTyped
<1>5. QED
  BY <1>1, <1>3, <1>4

\* An index taken away takes its size with it.
LEMMA SizeWithout ==
  ASSUME NEW S \in SUBSET Indexes, IsFiniteSet(S), NEW x \in S
  PROVE  /\ SizeOf(S) \in Nat /\ SizeOf(S \ {x}) \in Nat /\ Size[x] \in Nat
         /\ SizeOf(S) = Size[x] + SizeOf(S \ {x})
<1> DEFINE f == Restrict(Size, S)
<1>1. S \in SUBSET S /\ S \ {x} \in SUBSET S
  OBVIOUS
<1>2. /\ SizeOf(S) = Sums(f)[S] /\ SizeOf(S) \in Nat
      /\ SizeOf(S \ {x}) = Sums(f)[S \ {x}] /\ SizeOf(S \ {x}) \in Nat
      /\ f \in [S -> Nat]
  BY <1>1, SizeIs
<1>3. f[x] = Size[x] /\ Size[x] \in Nat
  BY IndexCacheAssumption DEF Restrict
<1> HIDE DEF f
<1>4. Sums(f)[S] = f[x] + Sums(f)[S \ {x}]
  <2>1. IsFiniteSet(S) /\ x \in S /\ S \in SUBSET S /\ f \in [S -> Nat]
    BY <1>1, <1>2
  <2>2. QED
    BY <2>1, SumWithout
<1>5. QED
  BY <1>2, <1>3, <1>4

LEMMA NoSize == SizeOf({}) = 0
<1>1. SizeOf({}) = SumFunction(Restrict(Size, {})) /\ Restrict(Size, {}) \in [{} -> Nat]
  BY DEF SizeOf, Restrict
<1>2. QED
  BY <1>1, SumOfFunction, FS_EmptySet

\* The end of the list is finitely many indices.
LEMMA ListedIs ==
  ASSUME list \in Seq(Indexes), NEW k \in Nat \ {0}
  PROVE  /\ ListedFrom(k) \in SUBSET Indexes /\ IsFiniteSet(ListedFrom(k))
         /\ ListedFrom(k) \in SUBSET {list[i] : i \in DOMAIN list}
<1>1. Len(list) \in Nat /\ DOMAIN list = 1 .. Len(list) /\ \A i \in 1 .. Len(list) : list[i] \in Indexes
  BY LenProperties
<1>2. IsFiniteSet(k .. Len(list))
  BY <1>1, FS_Interval
<1>3. IsFiniteSet({list[i] : i \in k .. Len(list)})
  BY <1>2, ImageFinite
<1>4. QED
  BY <1>1, <1>3 DEF ListedFrom

-------------------------------------------------------------------------------
(* Types.                                                                  *)

\* A changed entry is an entry.
LEMMA EntryTyped ==
  ASSUME entry \in [Indexes -> [Numbers -> Entries]], NEW x, NEW n, NEW e \in Entries
  PROVE  [entry EXCEPT ![x][n] = e] \in [Indexes -> [Numbers -> Entries]]
OBVIOUS

\* What a request with a good reference works on.
LEMMA LiveEntry ==
  ASSUME CacheInv, NEW r \in Requests, pc[r] # "idle", Live(r)
  PROVE  /\ Index(r) \in Indexes /\ ref[r] \in Numbers /\ Entry(r) \in Entries
         /\ indices[Index(r)] = ref[r]
<1>1. Index(r) \in Indexes
  BY RequestIs
<1>2. ref[r] \in 0 .. MaxEntries /\ ref[r] # 0 /\ MaxEntries \in Nat
  BY IndexCacheAssumption DEF CacheInv, CacheTypeOK, Live
<1>3. ref[r] \in Numbers
  BY <1>2 DEF Numbers
<1>4. QED
  BY <1>1, <1>3 DEF CacheInv, CacheTypeOK, Entry, Live

\* Steps that change at most the step, the reference, and who holds indices_mutex_.
LEMMA ControlTyped ==
  ASSUME CacheInv, NEW r \in Requests,
         \/ Find(r) \/ LockMap(r) \/ LoadFails(r) \/ RecoveryFails(r) \/ Fetch(r) \/ EvictEnds(r)
         \/ Read(r) \/ Autosave(r) \/ CreateAsks(r) \/ LockToEvict(r) \/ LockToErase(r)
         \/ RestoreAsks(r) \/ CreateStoresMeta(r) \/ RestoreStoresMeta(r)
  PROVE  CacheTypeOK'
<1>1. CacheTypeOK /\ Index(r) \in Indexes
  <2>1. pc[r] # "idle"
    BY DEF Find, LockMap, LoadFails, RecoveryFails, Fetch, EvictEnds, Read, Autosave, CreateAsks,
           LockToEvict, LockToErase, RestoreAsks, CreateStoresMeta, RestoreStoresMeta, At, Using
  <2>2. QED
    BY <2>1, RequestIs DEF CacheInv
<1>2. indices[Index(r)] \in 0 .. MaxEntries
  BY <1>1 DEF CacheTypeOK
<1>3. pc' \in [Requests -> Stages]
  <2>1. \E stage \in Stages : Goto(r, stage)
    <3>1. CASE Find(r) \/ LockMap(r) \/ LoadFails(r) \/ RecoveryFails(r) \/ Fetch(r)
      BY <3>1, Zenon DEF Find, LockMap, LoadFails, RecoveryFails, Fetch, Work, Stages
    <3>2. CASE EvictEnds(r)
      BY <3>2 DEF EvictEnds, AfterEviction, Stages
    <3>3. CASE Read(r) \/ Autosave(r) \/ CreateAsks(r) \/ LockToEvict(r) \/ LockToErase(r)
      BY <3>3 DEF Read, Autosave, CreateAsks, LockToEvict, LockToErase, Stages
    <3>4. CASE RestoreAsks(r) \/ CreateStoresMeta(r) \/ RestoreStoresMeta(r)
      BY <3>4 DEF RestoreAsks, CreateStoresMeta, RestoreStoresMeta, Stages
    <3>5. QED
      BY <3>1, <3>2, <3>3, <3>4
  <2>2. QED
    BY <1>1, <2>1 DEF Goto, CacheTypeOK
<1>4. ref' \in [Requests -> 0 .. MaxEntries]
  BY <1>1, <1>2 DEF CacheTypeOK, Find, LockMap, LoadFails, RecoveryFails, Fetch, EvictEnds, Read,
              Autosave, CreateAsks, LockToEvict, LockToErase, RestoreAsks, CreateStoresMeta,
              RestoreStoresMeta, own, world
<1>5. mapMutex' \in Requests \cup {NoRequest} /\ meta' \subseteq Indexes
  BY <1>1 DEF CacheTypeOK, Find, LockMap, LoadFails, RecoveryFails, Fetch, EvictEnds, Read, Autosave,
              CreateAsks, LockToEvict, LockToErase, RestoreAsks, CreateStoresMeta, RestoreStoresMeta,
              AfterEviction, own, world, disk
<1>6. UNCHANGED <<req, records, total, opened, cached, dir, dirs, image, log, wal, acked, undefined>>
  BY DEF Find, LockMap, LoadFails, RecoveryFails, Fetch, EvictEnds, Read, Autosave, CreateAsks,
         LockToEvict, LockToErase, RestoreAsks, CreateStoresMeta, RestoreStoresMeta, own, world, disk
<1>7. QED
  BY <1>1, <1>3, <1>4, <1>5, <1>6 DEF CacheTypeOK, cached

\* Steps that change the entry a request has a reference to.
LEMMA EntryStepTyped ==
  ASSUME CacheInv, NEW r \in Requests,
         \/ Replay(r) \/ SaveFails(r) \/ LogFails(r) \/ SaveDone(r) \/ LockOp(r) \/ Link(r) \/ Mark(r)
         \/ Unlock(r)
  PROVE  CacheTypeOK'
<1>1. CacheTypeOK /\ Index(r) \in Indexes /\ Entry(r) \in Entries /\ dir[Index(r)] \in 0 .. MaxEntries
  <2>1. pc[r] # "idle" /\ Live(r)
    BY DEF Replay, SaveFails, LogFails, SaveDone, LockOp, Link, Mark, Unlock, Using, At
  <2>2. QED
    BY <2>1, LiveEntry DEF CacheInv, CacheTypeOK
<1>2. pc' \in [Requests -> Stages]
  <2>1. pc \in [Requests -> Stages]
    BY <1>1 DEF CacheTypeOK
  <2>2. CASE Replay(r)
    BY <2>1, <2>2 DEF Replay, Goto, Stages
  <2>3. CASE SaveFails(r) \/ LogFails(r)
    BY <2>1, <2>3 DEF SaveFails, LogFails, Goto, Stages
  <2>4. CASE SaveDone(r)
    BY <2>1, <2>4 DEF SaveDone, AfterSave, Recovered, Goto, Stages
  <2>5. CASE LockOp(r) \/ Link(r) \/ Mark(r) \/ Unlock(r)
    BY <2>1, <2>5 DEF LockOp, Link, Mark, Unlock, Goto, Stages
  <2>6. QED
    BY <2>2, <2>3, <2>4, <2>5
<1>3. Entry(r).graph \in Graphs /\ Entry(r).updated \in BOOLEAN /\ Entry(r).holder \in Requests \cup {NoRequest}
  BY <1>1 DEF Entries
<1>4. \E e \in Entries : SetEntry(r, e)
  <2>1. CASE Replay(r)
    <3>1. [Entry(r) EXCEPT !.graph = @ \cup records[r], !.updated = TRUE] \in Entries
      BY <1>1 DEF CacheTypeOK, Entries, Graphs
    <3>2. QED
      BY <2>1, <3>1 DEF Replay
  <2>2. CASE SaveFails(r)
    <3>1. [Entry(r) EXCEPT !.holder = IF @ = r THEN NoRequest ELSE @] \in Entries
      BY <1>1, <1>3 DEF Entries
    <3>2. QED
      BY <2>2, <3>1 DEF SaveFails
  <2>3. CASE SaveDone(r)
    <3>1. [Entry(r) EXCEPT !.updated = FALSE] \in Entries
      BY <1>1 DEF Entries
    <3>2. QED
      BY <2>3, <3>1 DEF SaveDone
  <2>4. CASE LockOp(r)
    <3>1. [Entry(r) EXCEPT !.holder = r] \in Entries
      BY <1>1 DEF Entries
    <3>2. QED
      BY <2>4, <3>1 DEF LockOp
  <2>5. CASE Link(r)
    <3>1. [Entry(r) EXCEPT !.graph = @ \cup {r}] \in Entries
      BY <1>1 DEF Entries, Graphs, Writes
    <3>2. QED
      BY <2>5, <3>1 DEF Link
  <2>6. CASE Mark(r)
    <3>1. [Entry(r) EXCEPT !.updated = TRUE] \in Entries
      BY <1>1 DEF Entries
    <3>2. QED
      BY <2>6, <3>1 DEF Mark
  <2>7. CASE Unlock(r)
    <3>1. [Entry(r) EXCEPT !.holder = NoRequest] \in Entries
      BY <1>1 DEF Entries
    <3>2. QED
      BY <2>7, <3>1 DEF Unlock
  <2>8. CASE LogFails(r)
    <3>1. [Entry(r) EXCEPT !.holder = NoRequest] \in Entries
      BY <1>1 DEF Entries
    <3>2. QED
      BY <2>8, <3>1 DEF LogFails
  <2>9. QED
    BY <2>1, <2>2, <2>3, <2>4, <2>5, <2>6, <2>7, <2>8
<1>5. entry' \in [Indexes -> [Numbers -> Entries]]
  BY <1>1, <1>4, EntryTyped DEF SetEntry, CacheTypeOK
<1>6. acked' \in [Indexes -> [0 .. MaxEntries -> Graphs]]
  <2>1. CASE acked' = acked
    BY <1>1, <2>1 DEF CacheTypeOK
  <2>2. CASE acked' = [acked EXCEPT ![Index(r)][dir[Index(r)]] = @ \cup {r}]
    <3>1. acked[Index(r)] \in [0 .. MaxEntries -> Graphs]
      BY <1>1 DEF CacheTypeOK
    <3>2. acked[Index(r)][dir[Index(r)]] \in Graphs
      BY <1>1, <3>1
    <3>3. acked[Index(r)][dir[Index(r)]] \cup {r} \in Graphs
      BY <3>2 DEF Graphs, Writes
    <3>4. QED
      BY <1>1, <2>2, <3>3 DEF CacheTypeOK
  <2>3. QED
    BY <2>1, <2>2 DEF Replay, SaveFails, LogFails, SaveDone, LockOp, Link, Mark, Unlock
<1>7. UNCHANGED <<own, indices, list, made, mapMutex, disk, undefined>>
  BY DEF Replay, SaveFails, LogFails, SaveDone, LockOp, Link, Mark, Unlock
<1>8. QED
  BY <1>1, <1>2, <1>5, <1>6, <1>7 DEF CacheTypeOK, own, disk

\* All of the list is all that is loaded.
LEMMA AllListed ==
  ASSUME CacheInv
  PROVE  /\ ListedFrom(1) = Loaded /\ Len(list) \in Nat /\ SizeOf(Loaded) \in Nat
         /\ DOMAIN list = 1 .. Len(list) /\ \A i \in 1 .. Len(list) : list[i] \in Loaded
<1>1. list \in Seq(Indexes) /\ {list[i] : i \in DOMAIN list} = Loaded
  BY DEF CacheInv, CacheTypeOK, ListMatches
<1>2. Len(list) \in Nat /\ DOMAIN list = 1 .. Len(list)
  BY <1>1, LenProperties
<1>3. ListedFrom(1) = Loaded
  BY <1>1, <1>2 DEF ListedFrom
<1>4. Loaded \in SUBSET Indexes /\ IsFiniteSet(Loaded)
  BY <1>1, <1>3, ListedIs
<1>5. SizeOf(Loaded) \in Nat
  BY <1>4, SizeIs
<1>6. QED
  BY <1>1, <1>2, <1>3, <1>5

\* An index looked at is the last of those still counted, and its size is still counted.
LEMMA EvictedIs ==
  ASSUME CacheInv, NEW r \in Requests, EvictLast(r)
  PROVE  \E k \in 0 .. (Len(list) - 1) :
           LET x == Last(list)  rest == {list[i] : i \in (k + 1) .. (Len(list) - 1)} IN
           /\ x \in Loaded
           /\ total[r] - Size[x] = SizeOf(rest) /\ total[r] - Size[x] \in Nat
<1>1. list \in Seq(Indexes) /\ pc[r] = "evicting" /\ StillEvicting(r)
  BY DEF CacheInv, CacheTypeOK, EvictLast, At
<1>2. PICK k \in 0 .. Len(list) : total[r] = SizeOf(ListedFrom(k + 1))
  BY <1>1 DEF CacheInv, Evicting, StillCounted
<1>3. Len(list) \in Nat /\ DOMAIN list = 1 .. Len(list) /\ \A i \in 1 .. Len(list) : list[i] \in Loaded
  BY AllListed
<1>4. k # Len(list)
  <2>1. SUFFICES ASSUME k = Len(list) PROVE FALSE
    OBVIOUS
  <2>2. ListedFrom(k + 1) = {}
    BY <1>3, <2>1 DEF ListedFrom
  <2>3. total[r] = 0
    BY <1>2, <2>2, NoSize
  <2>4. QED
    BY <1>1, <2>3, IndexCacheAssumption DEF StillEvicting
<1> DEFINE x == Last(list)  n == Len(list)  rest == {list[i] : i \in (k + 1) .. (n - 1)}
           S == ListedFrom(k + 1)
<1>5. k \in 0 .. (n - 1) /\ n \in 1 .. n /\ n \in (k + 1) .. n /\ n \in Nat
  <2> HIDE DEF n
  <2>1. n \in Nat /\ k \in 0 .. n /\ k # n
    BY <1>2, <1>3, <1>4 DEF n
  <2>2. QED
    BY <2>1
<1>6. S \in SUBSET Indexes /\ IsFiniteSet(S)
  BY <1>1, <1>5, ListedIs
<1>7. x \in S /\ x \in Loaded /\ x = list[n]
  BY <1>3, <1>5 DEF Last, ListedFrom
<1>8. rest = S \ {x}
  <2>1. \A i, j \in 1 .. n : list[i] = list[j] => i = j
    BY <1>3 DEF CacheInv, ListMatches
  <2>2. \A i \in (k + 1) .. (n - 1) : list[i] # x
    BY <1>5, <1>7, <2>1
  <2>3. \A i \in (k + 1) .. n : i = n \/ i \in (k + 1) .. (n - 1)
    BY <1>5
  <2>4. rest \subseteq S
    BY <1>5 DEF ListedFrom
  <2>5. QED
    BY <1>7, <2>2, <2>3, <2>4 DEF ListedFrom
<1>9. /\ SizeOf(S) = Size[x] + SizeOf(S \ {x})
      /\ SizeOf(S) \in Nat /\ SizeOf(S \ {x}) \in Nat /\ Size[x] \in Nat
  BY <1>6, <1>7, SizeWithout
<1>10. total[r] - Size[x] = SizeOf(rest) /\ total[r] - Size[x] \in Nat
  <2> DEFINE a == SizeOf(S)  b == SizeOf(rest)  c == Size[x]
  <2>1. total[r] = a /\ a = c + b /\ a \in Nat /\ b \in Nat /\ c \in Nat
    BY <1>2, <1>8, <1>9
  <2> HIDE DEF a, b, c
  <2>2. total[r] - c = b
    BY <2>1
  <2>3. QED
    BY <2>1, <2>2 DEF b, c
<1>11. QED
  BY <1>5, <1>7, <1>10

\* The list with an index in front, and without its last.
LEMMA FrontOf ==
  ASSUME NEW l \in Seq(Indexes), NEW x \in Indexes
  PROVE  /\ <<x>> \o l \in Seq(Indexes) /\ Len(<<x>> \o l) = Len(l) + 1 /\ Len(l) \in Nat
         /\ (<<x>> \o l)[1] = x /\ \A i \in 1 .. Len(l) : (<<x>> \o l)[i + 1] = l[i]
<1>1. <<x>> \in Seq(Indexes) /\ Len(<<x>>) = 1 /\ <<x>>[1] = x
  OBVIOUS
<1>2. Len(l) \in Nat
  BY LenProperties
<1>3. /\ <<x>> \o l \in Seq(Indexes) /\ Len(<<x>> \o l) = 1 + Len(l)
      /\ \A i \in 1 .. (1 + Len(l)) : (<<x>> \o l)[i] = IF i <= 1 THEN <<x>>[i] ELSE l[i - 1]
  BY <1>1, ConcatProperties
<1>4. QED
  BY <1>1, <1>2, <1>3

LEMMA WithoutLast ==
  ASSUME NEW l \in Seq(Indexes), Len(l) # 0
  PROVE  /\ Front(l) \in Seq(Indexes) /\ Len(Front(l)) = Len(l) - 1
         /\ \A i \in 1 .. (Len(l) - 1) : Front(l)[i] = l[i]
<1>1. Len(l) \in Nat /\ \A i \in 1 .. Len(l) : l[i] \in Indexes
  BY LenProperties
<1> DEFINE n == Len(l) - 1
<1>2. n \in Int /\ 1 \in Int /\ \A i \in 1 .. n : l[i] \in Indexes
  BY <1>1
<1>3. /\ SubSeq(l, 1, n) \in Seq(Indexes)
      /\ Len(SubSeq(l, 1, n)) = IF 1 <= n THEN n - 1 + 1 ELSE 0
      /\ \A i \in 1 .. (n - 1 + 1) : SubSeq(l, 1, n)[i] = l[1 + i - 1]
  BY <1>2, SubSeqProperties
<1>4. n \in Nat /\ n = Len(l) - 1 /\ n - 1 + 1 = n /\ \A i \in 1 .. n : 1 + i - 1 = i
  BY <1>1
<1>5. SubSeq(l, 1, n) = Front(l)
  BY DEF Front
<1> HIDE DEF n
<1>6. Len(Front(l)) = n /\ \A i \in 1 .. n : Front(l)[i] = l[i]
  BY <1>3, <1>4, <1>5
<1>7. QED
  BY <1>3, <1>4, <1>5, <1>6

\* The list without an index: RemoveFirst takes out one place.
LEMMA RemovedIs ==
  ASSUME NEW l \in Seq(Indexes), NEW x, \A i, j \in DOMAIN l : l[i] = l[j] => i = j
  PROVE  /\ RemoveFirst(l, x) \in Seq(Indexes)
         /\ LET m == RemoveFirst(l, x) IN
            /\ \A i, j \in DOMAIN m : m[i] = m[j] => i = j
            /\ {m[i] : i \in DOMAIN m} = {l[i] : i \in DOMAIN l} \ {x}
<1> DEFINE m == RemoveFirst(l, x)
<1>1. Len(l) \in Nat /\ DOMAIN l = 1 .. Len(l) /\ \A i \in 1 .. Len(l) : l[i] \in Indexes
  BY LenProperties
<1>2. CASE ~ \E i \in 1 .. Len(l) : l[i] = x
  <2>1. m = l
    BY <1>2 DEF RemoveFirst
  <2>2. QED
    BY <1>1, <1>2, <2>1
<1>3. CASE \E i \in 1 .. Len(l) : l[i] = x
  <2> DEFINE I == {i \in 1 .. Len(l) : l[i] = x}
  <2>1. PICK p \in 1 .. Len(l) : l[p] = x
    BY <1>3
  <2>2. I = {p}
    BY <1>1, <2>1
  <2>3. SelectInSeq(l, LAMBDA v : v = x) = Min(I)
    BY <2>2 DEF SelectInSeq
  <2>4. Min(I) = p
    <3>1. I \in SUBSET Nat /\ I # {}
      BY <2>2
    <3>2. Min(I) \in I
      BY <3>1, MinOf
    <3>3. QED
      BY <2>2, <3>2
  <2>5. m = RemoveAt(l, p)
    BY <1>3, <2>3, <2>4 DEF RemoveFirst
  <2> DEFINE a == SubSeq(l, 1, p - 1)  b == SubSeq(l, p + 1, Len(l))  n == Len(l)
  <2>6. /\ a \in Seq(Indexes) /\ Len(a) = p - 1 /\ \A i \in 1 .. (p - 1) : a[i] = l[i]
    BY <1>1, <2>1, SubSeqProperties
  <2>7. /\ b \in Seq(Indexes) /\ Len(b) = n - p /\ \A i \in 1 .. (n - p) : b[i] = l[p + i]
    <3>1. p + 1 \in Int /\ n \in Int /\ \A i \in (p + 1) .. n : l[i] \in Indexes
      BY <1>1, <2>1
    <3>2. /\ b \in Seq(Indexes) /\ Len(b) = IF p + 1 <= n THEN n - (p + 1) + 1 ELSE 0
          /\ \A i \in 1 .. (n - (p + 1) + 1) : b[i] = l[p + 1 + i - 1]
      BY <3>1, SubSeqProperties
    <3> HIDE DEF b
    <3>3. /\ n \in Nat /\ p \in 1 .. n /\ n - (p + 1) + 1 = n - p
          /\ (p + 1 <= n) = (n - p > 0) /\ \A i \in 1 .. (n - p) : p + 1 + i - 1 = p + i
      BY <1>1, <2>1
    <3> HIDE DEF n
    <3>4. \A i \in 1 .. (n - p) : b[i] = l[p + i]
      BY <3>2, <3>3
    <3>5. Len(b) = n - p
      BY <3>2, <3>3
    <3>6. QED
      BY <3>2, <3>4, <3>5
  <2>8. /\ m \in Seq(Indexes) /\ Len(m) = n - 1
        /\ \A i \in 1 .. (n - 1) : m[i] = IF i <= p - 1 THEN a[i] ELSE b[i - (p - 1)]
    <3> HIDE DEF a, b
    <3>1. m = a \o b
      BY <2>5 DEF RemoveAt, a, b
    <3> HIDE DEF m
    <3>2. Len(a) + Len(b) = n - 1 /\ Len(a) = p - 1
      BY <1>1, <2>1, <2>6, <2>7
    <3>3. a \in Seq(Indexes) /\ b \in Seq(Indexes)
      BY <2>6, <2>7
    <3> HIDE DEF n
    <3>4. /\ a \o b \in Seq(Indexes) /\ Len(a \o b) = Len(a) + Len(b)
          /\ \A i \in 1 .. (Len(a) + Len(b)) :
               (a \o b)[i] = IF i <= Len(a) THEN a[i] ELSE b[i - Len(a)]
      BY <3>3, ConcatProperties
    <3>5. QED
      BY <3>1, <3>2, <3>4
  <2>9. \A i \in 1 .. (n - 1) : m[i] = IF i < p THEN l[i] ELSE l[i + 1]
    <3> HIDE DEF m, a, b
    <3>1. TAKE i \in 1 .. (n - 1)
    <3>2. CASE i < p
      BY <1>1, <2>1, <2>6, <2>8, <3>2
    <3>3. CASE ~(i < p)
      <4>1. i - (p - 1) \in 1 .. (n - p) /\ p + (i - (p - 1)) = i + 1
        BY <1>1, <2>1, <3>3
      <4>2. QED
        BY <1>1, <2>1, <2>7, <2>8, <3>3, <4>1
    <3>4. QED
      BY <3>2, <3>3
  <2>10. DOMAIN m = 1 .. (n - 1)
    BY <2>8, LenProperties
  <2> HIDE DEF m, a, b, I
  <2>11. \A i \in 1 .. n : l[i] = x <=> i = p
    BY <1>1, <2>1
  <2>12. ASSUME NEW i \in 1 .. n, i # p PROVE \E j \in 1 .. (n - 1) : m[j] = l[i]
    <3>1. CASE i < p
      BY <1>1, <2>1, <2>9, <3>1
    <3>2. CASE i > p
      <4>1. i - 1 \in 1 .. (n - 1) /\ ~(i - 1 < p) /\ (i - 1) + 1 = i
        BY <1>1, <2>1, <3>2
      <4>2. QED
        BY <2>9, <4>1
    <3>3. QED
      BY <1>1, <2>1, <2>12, <3>1, <3>2
  <2>13. ASSUME NEW j \in 1 .. (n - 1) PROVE \E i \in 1 .. n : i # p /\ m[j] = l[i]
    <3>1. CASE j < p
      BY <1>1, <2>1, <2>9, <3>1
    <3>2. CASE ~(j < p)
      <4>1. j + 1 \in 1 .. n /\ j + 1 # p
        BY <1>1, <2>1, <3>2
      <4>2. QED
        BY <2>9, <3>2, <4>1
    <3>3. QED
      BY <3>1, <3>2
  <2>14. {m[j] : j \in 1 .. (n - 1)} = {l[i] : i \in 1 .. n} \ {x}
    <3>1. ASSUME NEW j \in 1 .. (n - 1) PROVE m[j] \in {l[i] : i \in 1 .. n} \ {x}
      BY <2>11, <2>13
    <3>2. ASSUME NEW i \in 1 .. n, l[i] # x PROVE l[i] \in {m[j] : j \in 1 .. (n - 1)}
      <4>1. PICK j \in 1 .. (n - 1) : m[j] = l[i]
        BY <2>11, <2>12, <3>2
      <4>2. QED
        BY <4>1
    <3>3. QED
      BY <3>1, <3>2
  <2>15. ASSUME NEW i \in 1 .. (n - 1), NEW j \in 1 .. (n - 1), m[i] = m[j] PROVE i = j
    BY <1>1, <2>1, <2>9, <2>15
  <2>16. m \in Seq(Indexes) /\ {m[i] : i \in DOMAIN m} = {l[i] : i \in DOMAIN l} \ {x}
    BY <1>1, <2>8, <2>10, <2>14
  <2>17. \A i, j \in DOMAIN m : m[i] = m[j] => i = j
    BY <2>10, <2>15
  <2>18. QED
    BY <2>16, <2>17 DEF m
<1>4. QED
  BY <1>2, <1>3

\* What a publication changes.
LEMMA PublishTyped ==
  ASSUME CacheTypeOK, NEW x \in Indexes, NEW e \in Entries, Publish(x, e)
  PROVE  /\ made' \in [Indexes -> 0 .. MaxEntries] /\ indices' \in [Indexes -> 0 .. MaxEntries]
         /\ entry' \in [Indexes -> [Numbers -> Entries]] /\ list' \in Seq(Indexes)
         /\ made[x] + 1 \in 0 .. MaxEntries /\ made[x] + 1 # 0
<1>1. made[x] \in 0 .. MaxEntries /\ made[x] < MaxEntries /\ MaxEntries \in Nat
  BY IndexCacheAssumption DEF CacheTypeOK, Publish
<1>2. made[x] + 1 \in 0 .. MaxEntries /\ made[x] + 1 # 0
  BY <1>1
<1>3. made' \in [Indexes -> 0 .. MaxEntries] /\ indices' \in [Indexes -> 0 .. MaxEntries]
  BY <1>1, <1>2 DEF CacheTypeOK, Publish
<1>4. entry' \in [Indexes -> [Numbers -> Entries]]
  BY EntryTyped DEF CacheTypeOK, Publish
<1>5. list' \in Seq(Indexes)
  BY FrontOf DEF CacheTypeOK, Publish
<1>6. QED
  BY <1>2, <1>3, <1>4, <1>5

\* A new entry is an entry.
LEMMA FreshTyped ==
  ASSUME NEW g \in Graphs, NEW b \in BOOLEAN
  PROVE  Fresh(g, b) \in Entries
BY DEF Fresh, Entries

LEMMA PublicationTyped ==
  ASSUME CacheInv, NEW r \in Requests, Load(r) \/ RestoreLoads(r) \/ CreatePublishes(r)
  PROVE  CacheTypeOK'
<1> DEFINE x == Index(r)
<1>1. CacheTypeOK /\ x \in Indexes
  <2>1. pc[r] # "idle"
    BY DEF Load, RestoreLoads, CreatePublishes, At
  <2>2. QED
    BY <2>1, RequestIs DEF CacheInv
<1>2. UNCHANGED <<req, records, total, opened, mapMutex, disk, acked, undefined>>
  BY DEF Load, RestoreLoads, CreatePublishes, own
<1>3. pc' \in [Requests -> Stages]
  BY <1>1 DEF CacheTypeOK, Load, RestoreLoads, CreatePublishes, Goto, Stages
<1>4. CASE cached' = cached /\ ref' = ref
  BY <1>1, <1>2, <1>3, <1>4 DEF CacheTypeOK, cached, disk
<1>5. CASE \E e \in Entries : Publish(x, e) /\ ref' \in {ref, [ref EXCEPT ![r] = made[x] + 1]}
  <2>1. PICK e \in Entries : Publish(x, e) /\ ref' \in {ref, [ref EXCEPT ![r] = made[x] + 1]}
    BY <1>5
  <2>2. /\ made' \in [Indexes -> 0 .. MaxEntries] /\ indices' \in [Indexes -> 0 .. MaxEntries]
        /\ entry' \in [Indexes -> [Numbers -> Entries]] /\ list' \in Seq(Indexes)
        /\ made[x] + 1 \in 0 .. MaxEntries
    BY <1>1, <2>1, PublishTyped
  <2>3. ref' \in [Requests -> 0 .. MaxEntries]
    BY <1>1, <2>1, <2>2 DEF CacheTypeOK
  <2>4. QED
    BY <1>1, <1>2, <1>3, <2>2, <2>3 DEF CacheTypeOK, disk
<1>6. CASE Load(r) \/ RestoreLoads(r)
  <2>1. CASE cached' = cached /\ ref' = ref
    BY <1>4, <2>1
  <2>2. CASE Publish(x, Fresh(image[x][dir[x]].graph, FALSE)) /\ Loadable(r)
    <3>1. dir[x] \in 0 .. MaxEntries /\ dir[x] # 0 /\ MaxEntries \in Nat
      BY <1>1, <2>2, IndexCacheAssumption DEF CacheTypeOK, Loadable, Saved
    <3>2. dir[x] \in Numbers
      BY <3>1 DEF Numbers
    <3>3. image[x][dir[x]].graph \in Graphs
      BY <1>1, <3>2 DEF CacheTypeOK
    <3>4. Fresh(image[x][dir[x]].graph, FALSE) \in Entries
      BY <3>3, FreshTyped
    <3>5. ref' \in {ref, [ref EXCEPT ![r] = made[x] + 1]}
      BY <1>6 DEF Load, RestoreLoads
    <3>6. QED
      BY <1>5, <2>2, <3>4, <3>5
  <2>3. QED
    BY <1>6, <2>1, <2>2 DEF Load, RestoreLoads
<1>7. CASE CreatePublishes(r)
  <2>1. ref' = ref
    BY <1>7 DEF CreatePublishes, own
  <2>2. CASE indices[x] = 0
    <3>1. Publish(x, Fresh({}, TRUE))
      BY <1>7, <2>2 DEF CreatePublishes
    <3>2. Fresh({}, TRUE) \in Entries
      BY FreshTyped DEF Graphs
    <3>3. QED
      BY <1>5, <2>1, <3>1, <3>2
  <2>3. CASE indices[x] # 0
    <3>1. PublishesNew(r)
      BY <1>7 DEF CacheInv, Publishing, CreatePublishes, At
    <3>2. QED
      BY <2>3, <3>1 DEF PublishesNew
  <2>4. QED
    BY <2>2, <2>3
<1>8. QED
  BY <1>6, <1>7

\* Evictions and deletions.
LEMMA EvictionTyped ==
  ASSUME CacheInv, NEW r \in Requests, Evict(r) \/ EvictLast(r) \/ Erase(r)
  PROVE  CacheTypeOK'
<1>1. CacheTypeOK /\ Index(r) \in Indexes /\ pc[r] # "idle"
  <2>1. pc[r] # "idle"
    BY DEF Evict, EvictLast, Erase, At
  <2>2. QED
    BY <2>1, RequestIs DEF CacheInv
<1>2. UNCHANGED <<req, ref, records, opened, entry, made, disk, acked, undefined>>
  BY DEF Evict, EvictLast, Erase, own, cached
<1>3. /\ pc' \in [Requests -> Stages] /\ mapMutex' \in Requests \cup {NoRequest}
      /\ indices' \in [Indexes -> 0 .. MaxEntries]
  <2>1. CASE Evict(r)
    BY <1>1, <2>1 DEF CacheTypeOK, Evict, AfterEviction, Goto, Stages, cached
  <2>2. CASE EvictLast(r)
    <3>1. pc' = pc /\ mapMutex' = mapMutex
      BY <2>2 DEF EvictLast
    <3>2. indices' = indices \/ indices' = [indices EXCEPT ![Last(list)] = 0]
      BY <2>2, Zenon DEF EvictLast
    <3>3. indices \in [Indexes -> 0 .. MaxEntries] /\ 0 \in 0 .. MaxEntries
      BY <1>1, IndexCacheAssumption DEF CacheTypeOK
    <3>4. indices' \in [Indexes -> 0 .. MaxEntries]
      BY <3>2, <3>3
    <3>5. QED
      BY <1>1, <3>1, <3>4 DEF CacheTypeOK
  <2>3. CASE Erase(r)
    BY <1>1, <2>3, IndexCacheAssumption DEF CacheTypeOK, Erase, Goto, Stages
  <2>4. QED
    BY <2>1, <2>2, <2>3
<1>4. total' \in [Requests -> Nat]
  <2>1. CASE Evict(r)
    <3>1. SizeOf(Loaded) \in Nat
      BY AllListed
    <3>2. QED
      BY <1>1, <2>1, <3>1 DEF CacheTypeOK, Evict
  <2>2. CASE EvictLast(r)
    <3>1. total[r] - Size[Last(list)] \in Nat
      BY <2>2, EvictedIs
    <3>2. QED
      BY <1>1, <2>2, <3>1 DEF CacheTypeOK, EvictLast
  <2>3. CASE Erase(r)
    BY <1>1, <2>3 DEF CacheTypeOK, Erase, own
  <2>4. QED
    BY <2>1, <2>2, <2>3
<1>5. list' \in Seq(Indexes)
  <2>1. CASE Evict(r)
    BY <1>1, <2>1 DEF CacheTypeOK, Evict, cached
  <2>2. CASE EvictLast(r)
    <3>1. Last(list) \in Indexes /\ Len(list) # 0
      <4>1. PICK k \in 0 .. (Len(list) - 1) : Last(list) \in Loaded
        BY <2>2, EvictedIs
      <4>2. Len(list) # 0
        BY <4>1
      <4>3. QED
        BY <4>1, <4>2 DEF Loaded
    <3>2. Front(list) \in Seq(Indexes)
      BY <1>1, <3>1, WithoutLast DEF CacheTypeOK
    <3>3. <<Last(list)>> \o Front(list) \in Seq(Indexes)
      BY <3>1, <3>2, FrontOf
    <3>4. QED
      BY <2>2, <3>2, <3>3 DEF EvictLast
  <2>3. CASE Erase(r)
    <3>1. RemoveFirst(list, Index(r)) \in Seq(Indexes)
      BY <1>1, RemovedIs DEF CacheInv, CacheTypeOK, ListMatches
    <3>2. QED
      BY <1>1, <2>3, <3>1 DEF CacheTypeOK, Erase
  <2>4. QED
    BY <2>1, <2>2, <2>3
<1>6. QED
  BY <1>1, <1>2, <1>3, <1>4, <1>5 DEF CacheTypeOK, disk

\* Directories, images and logs.
LEMMA DiskIs ==
  ASSUME CacheTypeOK, NEW x \in Indexes
  PROVE  /\ dir[x] \in 0 .. MaxEntries /\ dirs[x] \in 0 .. MaxEntries /\ MaxEntries \in Nat
         /\ LogAt(x) \in Graphs
         /\ Wal(x) \in [dir : 0 .. MaxEntries, count : Nat]
         /\ \A n \in Numbers : log[x][n] \in Graphs
<1>1. dir[x] \in 0 .. MaxEntries /\ dirs[x] \in 0 .. MaxEntries /\ MaxEntries \in Nat
  BY IndexCacheAssumption DEF CacheTypeOK
<1>2. log[x] \in [Numbers -> Graphs]
  BY DEF CacheTypeOK
<1>3. LogAt(x) \in Graphs
  <2>1. {} \in Graphs
    BY DEF Graphs
  <2>2. dir[x] # 0 => dir[x] \in Numbers
    BY <1>1 DEF Numbers
  <2>3. QED
    BY <1>2, <2>1, <2>2 DEF LogAt
<1>4. Wal(x) \in [dir : 0 .. MaxEntries, count : Nat]
  <2>1. wal[x] \in [dir : 0 .. MaxEntries, count : Nat]
    BY DEF CacheTypeOK
  <2>2. QED
    BY <1>1, <2>1 DEF Wal
<1>5. QED
  BY <1>1, <1>2, <1>3, <1>4

LEMMA ReadLogTyped ==
  ASSUME CacheInv, NEW r \in Requests, ReadLog(r)
  PROVE  CacheTypeOK'
<1>1. CacheTypeOK /\ Index(r) \in Indexes
  BY RequestIs DEF CacheInv, ReadLog, Using, At
<1>2. Wal(Index(r)) \in [dir : 0 .. MaxEntries, count : Nat] /\ LogAt(Index(r)) \in Graphs
  BY <1>1, DiskIs
<1>3. /\ pc' \in [Requests -> Stages] /\ records' \in [Requests -> Graphs]
      /\ wal' \in [Indexes -> [dir : 0 .. MaxEntries, count : Nat]]
  <2>1. wal' \in [Indexes -> [dir : 0 .. MaxEntries, count : Nat]]
    BY <1>1, <1>2 DEF CacheTypeOK, ReadLog
  <2>2. records' \in [Requests -> Graphs]
    BY <1>1, <1>2 DEF CacheTypeOK, ReadLog
  <2>3. Goto(r, "replay") \/ Goto(r, "answer") \/ Goto(r, "evict")
    BY DEF ReadLog, Recovered
  <2>4. pc' \in [Requests -> Stages]
    BY <1>1, <2>3 DEF CacheTypeOK, Goto, Stages
  <2>5. QED
    BY <2>1, <2>2, <2>4
<1>4. UNCHANGED <<req, ref, total, opened, cached, mapMutex, dir, dirs, image, log, meta, acked, undefined>>
  BY DEF ReadLog
<1>5. QED
  BY <1>1, <1>3, <1>4 DEF CacheTypeOK, cached

LEMMA SaveTyped ==
  ASSUME CacheInv, NEW r \in Requests, SaveImage(r) \/ SaveClear(r) \/ LogWrite(r)
  PROVE  CacheTypeOK'
<1> DEFINE x == Index(r)
<1>1. CacheTypeOK /\ x \in Indexes /\ Entry(r) \in Entries
  <2>1. pc[r] # "idle" /\ Live(r)
    BY DEF SaveImage, SaveClear, LogWrite, Using, At
  <2>2. QED
    BY <2>1, LiveEntry DEF CacheInv
<1>2. /\ dir[x] \in 0 .. MaxEntries /\ Wal(x) \in [dir : 0 .. MaxEntries, count : Nat]
      /\ \A n \in Numbers : log[x][n] \in Graphs
  BY <1>1, DiskIs
<1>3. pc' \in [Requests -> Stages]
  <2>1. pc \in [Requests -> Stages]
    BY <1>1 DEF CacheTypeOK
  <2>2. CASE SaveImage(r)
    BY <2>1, <2>2 DEF SaveImage, AfterSave, Recovered, Goto, Stages
  <2>3. CASE SaveClear(r) \/ LogWrite(r)
    BY <2>1, <2>3 DEF SaveClear, LogWrite, Goto, Stages
  <2>4. QED
    BY <2>2, <2>3
<1>4. image' \in [Indexes -> [Numbers -> [there : BOOLEAN, graph : Graphs]]]
  <2>1. CASE image' = image
    BY <1>1, <2>1 DEF CacheTypeOK
  <2>2. CASE image' = [image EXCEPT ![x][dir[x]] = [there |-> TRUE, graph |-> Entry(r).graph]]
    <3>1. [there |-> TRUE, graph |-> Entry(r).graph] \in [there : BOOLEAN, graph : Graphs]
      BY <1>1 DEF Entries
    <3>2. QED
      BY <1>1, <2>2, <3>1 DEF CacheTypeOK
  <2>3. QED
    BY <2>1, <2>2 DEF SaveImage, SaveClear, LogWrite
<1>5. log' \in [Indexes -> [Numbers -> Graphs]]
  <2>1. CASE log' = log
    BY <1>1, <2>1 DEF CacheTypeOK
  <2>2. CASE \E n : log' = [log EXCEPT ![x][n] = {}]
    <3>1. PICK n : log' = [log EXCEPT ![x][n] = {}]
      BY <2>2
    <3>2. {} \in Graphs
      BY DEF Graphs
    <3>3. QED
      BY <1>1, <3>1, <3>2 DEF CacheTypeOK
  <2>3. CASE \E n : log' = [log EXCEPT ![x][n] = @ \cup {r}]
    <3>1. PICK n : log' = [log EXCEPT ![x][n] = @ \cup {r}]
      BY <2>3
    <3>2. n \in Numbers => log[x][n] \cup {r} \in Graphs
      BY <1>2 DEF Graphs, Writes
    <3>3. QED
      BY <1>1, <3>1, <3>2 DEF CacheTypeOK
  <2>4. QED
    BY <2>1, <2>2, <2>3 DEF SaveImage, SaveClear, LogWrite
<1>6. wal' \in [Indexes -> [dir : 0 .. MaxEntries, count : Nat]]
  <2>1. CASE wal' = wal
    BY <1>1, <2>1 DEF CacheTypeOK
  <2>2. CASE SaveClear(r)
    <3>1. wal[x].dir \in 0 .. MaxEntries
      BY <1>1 DEF CacheTypeOK
    <3>2. [dir |-> IF dir[x] = 0 THEN wal[x].dir ELSE dir[x], count |-> 0] \in [dir : 0 .. MaxEntries, count : Nat]
      BY <1>2, <3>1
    <3>3. QED
      BY <1>1, <2>2, <3>2 DEF CacheTypeOK, SaveClear
  <2>3. CASE LogWrite(r)
    <3>1. [Wal(x) EXCEPT !.count = @ + 1] \in [dir : 0 .. MaxEntries, count : Nat]
      BY <1>2
    <3>2. QED
      BY <1>1, <2>3, <3>1 DEF CacheTypeOK, LogWrite
  <2>4. QED
    BY <2>1, <2>2, <2>3 DEF SaveImage
<1>7. UNCHANGED <<own, cached, mapMutex, dir, dirs, meta, acked, undefined>>
  BY DEF SaveImage, SaveClear, LogWrite
<1>8. QED
  BY <1>1, <1>3, <1>4, <1>5, <1>6, <1>7 DEF CacheTypeOK, own, cached

\* A directory is made, copied to, or moved away.
LEMMA DirectoryTyped ==
  ASSUME CacheInv, NEW r \in Requests,
         CreateOpens(r) \/ Move(r) \/ RestoreCopies(r) \/ RestoreFails(r) \/ RestoreAnswers(r)
  PROVE  CacheTypeOK'
<1> DEFINE x == Index(r)
<1>1. CacheTypeOK /\ x \in Indexes
  <2>1. pc[r] # "idle"
    BY DEF CreateOpens, Move, RestoreCopies, RestoreFails, RestoreAnswers, Using, At
  <2>2. QED
    BY <2>1, RequestIs DEF CacheInv
<1>2. dir[x] \in 0 .. MaxEntries /\ dirs[x] \in 0 .. MaxEntries /\ MaxEntries \in Nat
  BY <1>1, DiskIs
<1>3. pc' \in [Requests -> Stages]
  BY <1>1 DEF CacheTypeOK, CreateOpens, Move, RestoreCopies, RestoreFails, RestoreAnswers, Goto, Stages
<1>4. UNCHANGED <<req, ref, records, total, cached, log>>
  BY DEF CreateOpens, Move, RestoreCopies, RestoreFails, RestoreAnswers, own, disk, CopyBackup
<1>5. /\ dir' \in [Indexes -> 0 .. MaxEntries] /\ dirs' \in [Indexes -> 0 .. MaxEntries]
  <2>1. CASE dir' = dir /\ dirs' = dirs
    BY <1>1, <2>1 DEF CacheTypeOK
  <2>2. CASE Move(r)
    BY <1>1, <1>2, <2>2 DEF CacheTypeOK, Move
  <2>3. CASE /\ dir[x] = 0 => dirs[x] < MaxEntries
             /\ dirs' = [dirs EXCEPT ![x] = IF dir[x] # 0 THEN @ ELSE @ + 1]
             /\ dir' = [dir EXCEPT ![x] = IF @ # 0 THEN @ ELSE dirs[x] + 1]
    <3>1. dir[x] = 0 => dirs[x] + 1 \in 0 .. MaxEntries
      BY <1>2, <2>3
    <3>2. QED
      BY <1>1, <1>2, <2>3, <3>1 DEF CacheTypeOK
  <2>4. QED
    BY <2>1, <2>2, <2>3 DEF CreateOpens, RestoreCopies, RestoreFails, RestoreAnswers, CopyBackup, disk
<1>6. dir'[x] \in 0 .. MaxEntries
  BY <1>1, <1>5
<1>7. opened' \in [Requests -> 0 .. MaxEntries] /\ wal' \in [Indexes -> [dir : 0 .. MaxEntries, count : Nat]]
  <2>1. CASE opened' = opened /\ wal' = wal
    BY <1>1, <2>1 DEF CacheTypeOK
  <2>2. CASE /\ opened' = [opened EXCEPT ![r] = dir'[x]]
             /\ wal' = [wal EXCEPT ![x] = IF wal[x].dir # 0 THEN @ ELSE [dir |-> dir'[x], count |-> 0]]
    <3>1. wal[x] \in [dir : 0 .. MaxEntries, count : Nat]
      BY <1>1 DEF CacheTypeOK
    <3>2. [dir |-> dir'[x], count |-> 0] \in [dir : 0 .. MaxEntries, count : Nat]
      BY <1>6
    <3>3. QED
      BY <1>1, <1>6, <2>2, <3>1, <3>2 DEF CacheTypeOK
  <2>3. QED
    BY <2>1, <2>2 DEF CreateOpens, Move, RestoreCopies, RestoreFails, RestoreAnswers, CopyBackup, own, disk
<1>8. image' \in [Indexes -> [Numbers -> [there : BOOLEAN, graph : Graphs]]]
  <2>1. CASE image' = image
    BY <1>1, <2>1 DEF CacheTypeOK
  <2>2. CASE image' = [image EXCEPT ![x][dir'[x]] = [there |-> TRUE, graph |-> Backed]]
    <3>1. [there |-> TRUE, graph |-> Backed] \in [there : BOOLEAN, graph : Graphs]
      BY DEF Graphs, Writes
    <3>2. QED
      BY <1>1, <2>2, <3>1 DEF CacheTypeOK
  <2>3. QED
    BY <2>1, <2>2 DEF CreateOpens, Move, RestoreCopies, RestoreFails, RestoreAnswers, CopyBackup, disk
<1>9. acked' \in [Indexes -> [0 .. MaxEntries -> Graphs]]
  <2>1. CASE acked' = acked
    BY <1>1, <2>1 DEF CacheTypeOK
  <2>2. CASE acked' = [acked EXCEPT ![x][dir[x]] = @ \cup Backed]
    <3>1. acked[x] \in [0 .. MaxEntries -> Graphs]
      BY <1>1 DEF CacheTypeOK
    <3>2. acked[x][dir[x]] \in Graphs
      BY <1>2, <3>1
    <3>3. acked[x][dir[x]] \cup Backed \in Graphs
      BY <3>2 DEF Graphs, Writes
    <3>4. QED
      BY <1>1, <2>2, <3>3 DEF CacheTypeOK
  <2>3. QED
    BY <2>1, <2>2 DEF CreateOpens, Move, RestoreCopies, RestoreFails, RestoreAnswers, CopyBackup
<1>10. mapMutex' \in Requests \cup {NoRequest} /\ meta' \subseteq Indexes /\ undefined' \in BOOLEAN
  BY <1>1 DEF CacheTypeOK, CreateOpens, Move, RestoreCopies, RestoreFails, RestoreAnswers, CopyBackup, disk
<1>11. QED
  BY <1>1, <1>3, <1>4, <1>5, <1>7, <1>8, <1>9, <1>10 DEF CacheTypeOK, cached

LEMMA BeginTyped ==
  ASSUME CacheInv, NEW r \in Requests, NEW ask \in Asks, ask[1] = r, Begin(r, ask[2], ask[3])
  PROVE  CacheTypeOK' /\ ask[2] \in Kinds /\ ask[3] \in Indexes /\ ask = <<r, ask[2], ask[3]>>
<1>1. ask[2] \in Kinds /\ ask[3] \in Indexes /\ ask = <<r, ask[2], ask[3]>>
  <2>1. ask \in Requests \X Kinds \X Indexes
    BY IndexCacheAssumption
  <2>2. QED
    BY <2>1
<1>2. CacheTypeOK /\ ref' = ref /\ records' = records /\ total' = total /\ opened' = opened /\ world' = world
  BY DEF CacheInv, Begin
<1>3. pc' \in [Requests -> Stages]
  <2>1. \E stage \in Stages : Goto(r, stage)
    BY <1>1 DEF Begin, Kinds, Stages
  <2>2. QED
    BY <1>2, <2>1 DEF CacheTypeOK, Goto
<1>4. req' \in [Requests -> [kind : Kinds \cup {"none"}, index : Indexes \cup {"none"}]]
  <2>1. [kind |-> ask[2], index |-> ask[3]] \in [kind : Kinds \cup {"none"}, index : Indexes \cup {"none"}]
    BY <1>1
  <2>2. QED
    BY <1>2, <2>1 DEF CacheTypeOK, Begin
<1>5. QED
  BY <1>1, <1>2, <1>3, <1>4 DEF CacheTypeOK, world, cached, disk

\* The types are kept.
LEMMA TypesKept == CacheInv /\ [Next]_vars => CacheTypeOK'
<1> SUFFICES ASSUME CacheInv, [Next]_vars PROVE CacheTypeOK'
  OBVIOUS
<1>1. CASE UNCHANGED vars
  BY <1>1 DEF CacheInv, CacheTypeOK, vars, own, world, cached, disk
<1>2. ASSUME NEW r \in Requests, Step(r) PROVE CacheTypeOK'
  BY <1>2, ControlTyped, EntryStepTyped, PublicationTyped, EvictionTyped, ReadLogTyped, SaveTyped,
     DirectoryTyped DEF Step, GetStep
<1>3. ASSUME NEW r \in Requests, UseErased(r) PROVE CacheTypeOK'
  BY <1>3 DEF UseErased, CacheInv, CacheTypeOK, own, cached, disk
<1>4. ASSUME NEW r \in Requests, NEW ask \in Asks, ask[1] = r, Begin(r, ask[2], ask[3]) PROVE CacheTypeOK'
  BY <1>4, BeginTyped
<1>5. QED
  BY <1>1, <1>2, <1>3, <1>4 DEF Next, Rest

-------------------------------------------------------------------------------
(* Who does what, and who holds indices_mutex_.                            *)

\* How a step moves its request on.
MovesOn(r) ==
  /\ req' = req /\ pc[r] # "idle" /\ pc'[r] # "idle"
  /\ \A q \in Requests \ {r} : pc'[q] = pc[q]
  /\ pc'[r] \in {"copy", "restoreMeta", "restoreLoad"} =>
       pc[r] \in {"askRestore", "copy", "restoreMeta", "restoreLoad"}
  /\ pc'[r] # "askRestore" /\ pc'[r] # "lockToErase"
  /\ pc'[r] = "open" => req[r].kind = "create"
  /\ pc'[r] = "publish" => CreateOpens(r)
  /\ pc'[r] \in {"erase", "move"} => pc[r] \in {"lockToErase", "erase"}
  /\ pc'[r] \in Locking \/ (pc'[r] = "recover" /\ req[r].kind # "restore") => mapMutex' = r
  /\ mapMutex' = mapMutex \/ mapMutex = NoRequest \/ mapMutex = r
  /\ pc'[r] = "evicting" => Evict(r) \/ EvictLast(r)

LEMMA LookupMoves ==
  ASSUME CacheInv, NEW r \in Requests,
         \/ Find(r) \/ LockMap(r) \/ LoadFails(r) \/ Load(r) \/ RecoveryFails(r) \/ Replay(r) \/ Fetch(r)
  PROVE  MovesOn(r)
<1>1. pc \in [Requests -> Stages] /\ Locked
  BY DEF CacheInv, CacheTypeOK
<1>2. CASE Find(r) \/ LockMap(r)
  BY <1>1, <1>2 DEF MovesOn, Find, LockMap, At, Goto, Work, Locking, own, world
<1>3. CASE LoadFails(r) \/ Fetch(r)
  BY <1>1, <1>3 DEF MovesOn, LoadFails, Fetch, At, Goto, Work, Locking, own, Locked
<1>4. CASE Load(r)
  BY <1>1, <1>4 DEF MovesOn, Load, At, Goto, Locking, Locked
<1>5. CASE RecoveryFails(r) \/ Replay(r)
  BY <1>1, <1>5 DEF MovesOn, RecoveryFails, Replay, At, Using, Goto, Locking, own, world
<1>6. QED
  BY <1>2, <1>3, <1>4, <1>5

LEMMA EvictMoves ==
  ASSUME CacheInv, NEW r \in Requests,
         ReadLog(r) \/ Evict(r) \/ EvictEnds(r) \/ EvictLast(r)
  PROVE  MovesOn(r)
<1>1. pc \in [Requests -> Stages] /\ Locked
  BY DEF CacheInv, CacheTypeOK
<1>2. CASE ReadLog(r)
  <2>1. pc[r] = "recover" /\ req' = req /\ mapMutex' = mapMutex
    BY <1>2 DEF ReadLog, Using, At
  <2>2. \/ Goto(r, "replay")
        \/ Goto(r, "answer")
        \/ Goto(r, "evict") /\ req[r].kind # "restore"
    BY <1>2 DEF ReadLog, Recovered
  <2>3. QED
    BY <1>1, <2>1, <2>2 DEF MovesOn, Goto, Locking, Locked
<1>3. CASE Evict(r) \/ EvictEnds(r)
  <2>1. pc[r] \in {"evict", "evicting"} /\ req' = req /\ mapMutex = r
    BY <1>1, <1>3 DEF Evict, EvictEnds, At, own, Locked, Locking
  <2>2. \/ Goto(r, "evicting") /\ mapMutex' = mapMutex /\ Evict(r)
        \/ AfterEviction(r)
    BY <1>3 DEF Evict, EvictEnds
  <2>3. \/ Goto(r, "evicting") /\ mapMutex' = mapMutex /\ Evict(r)
        \/ Goto(r, "open") /\ req[r].kind = "create"
        \/ Goto(r, "fetch") /\ mapMutex' = mapMutex
    BY <2>2 DEF AfterEviction
  <2>4. QED
    BY <1>1, <2>1, <2>3 DEF MovesOn, Goto, Locking
<1>4. CASE EvictLast(r)
  <2>1. pc[r] = "evicting" /\ req' = req /\ pc' = pc /\ mapMutex' = mapMutex
    BY <1>4 DEF EvictLast, At
  <2>2. mapMutex = r
    BY <1>1, <2>1 DEF Locked, Locking
  <2>3. QED
    BY <1>4, <2>1, <2>2 DEF MovesOn
<1>5. QED
  BY <1>2, <1>3, <1>4

LEMMA SaveMoves ==
  ASSUME CacheInv, NEW r \in Requests,
         SaveImage(r) \/ SaveFails(r) \/ SaveClear(r) \/ SaveDone(r)
  PROVE  MovesOn(r)
<1>1. pc \in [Requests -> Stages]
  BY DEF CacheInv, CacheTypeOK
<1>2. pc[r] \in {"saveImage", "saveClear", "saveDone"} /\ req' = req /\ mapMutex' = mapMutex
  BY DEF SaveImage, SaveFails, SaveClear, SaveDone, Using, At, own
<1>3. \/ Goto(r, "saveClear") \/ Goto(r, "saveDone") \/ Goto(r, "done") \/ Goto(r, "unlock") \/ Goto(r, "answer")
      \/ Goto(r, "evict") /\ mapMutex = r
  BY DEF SaveImage, SaveFails, SaveClear, SaveDone, AfterSave, Recovered
<1>4. QED
  BY <1>1, <1>2, <1>3 DEF MovesOn, Goto, Locking

LEMMA WorkMoves ==
  ASSUME CacheInv, NEW r \in Requests,
         \/ LockOp(r) \/ LogWrite(r) \/ LogFails(r) \/ Link(r) \/ Mark(r) \/ Unlock(r) \/ Read(r) \/ Autosave(r)
  PROVE  MovesOn(r)
<1>1. pc \in [Requests -> Stages]
  BY DEF CacheInv, CacheTypeOK
<1>2. /\ pc[r] \in {"lockOp", "log", "link", "mark", "unlock", "use", "autosave"}
      /\ req' = req /\ mapMutex' = mapMutex
  BY DEF LockOp, LogWrite, LogFails, Link, Mark, Unlock, Read, Autosave, Using, At, own, world
<1>3. \/ Goto(r, "log") \/ Goto(r, "link") \/ Goto(r, "mark") \/ Goto(r, "saveImage") \/ Goto(r, "unlock")
      \/ Goto(r, "find") \/ Goto(r, "done")
  BY DEF LockOp, LogWrite, LogFails, Link, Mark, Unlock, Read, Autosave
<1>4. QED
  BY <1>1, <1>2, <1>3 DEF MovesOn, Goto, Locking

LEMMA CreateMoves ==
  ASSUME CacheInv, NEW r \in Requests,
         \/ CreateAsks(r) \/ LockToEvict(r) \/ CreateOpens(r) \/ CreatePublishes(r)
         \/ CreateStoresMeta(r) \/ LockToErase(r) \/ Erase(r) \/ Move(r)
  PROVE  MovesOn(r)
<1>1. pc \in [Requests -> Stages] /\ Locked
  BY DEF CacheInv, CacheTypeOK
<1>2. CASE CreateAsks(r) \/ CreatePublishes(r) \/ CreateStoresMeta(r)
  <2>1. pc[r] \in {"askMeta", "publish", "storeMeta"} /\ req' = req /\ mapMutex' = mapMutex
    BY <1>2 DEF CreateAsks, CreatePublishes, CreateStoresMeta, At, own, world
  <2>2. Goto(r, "done") \/ Goto(r, "lockToEvict") \/ Goto(r, "storeMeta") \/ Goto(r, "find")
    BY <1>2 DEF CreateAsks, CreatePublishes, CreateStoresMeta
  <2>3. QED
    BY <1>1, <2>1, <2>2 DEF MovesOn, Goto, Locking
<1>3. CASE LockToEvict(r) \/ LockToErase(r)
  <2>1. req' = req /\ mapMutex = NoRequest /\ mapMutex' = r
    BY <1>3 DEF LockToEvict, LockToErase, own
  <2>2. (Goto(r, "evict") /\ pc[r] = "lockToEvict") \/ (Goto(r, "erase") /\ pc[r] = "lockToErase")
    BY <1>3 DEF LockToEvict, LockToErase, At
  <2>3. QED
    BY <1>1, <2>1, <2>2 DEF MovesOn, Goto, Locking
<1>4. CASE CreateOpens(r)
  <2>1. pc[r] = "open" /\ req' = req /\ mapMutex' = mapMutex /\ (Goto(r, "done") \/ Goto(r, "publish"))
    BY <1>4 DEF CreateOpens, At
  <2>2. QED
    BY <1>1, <1>4, <2>1 DEF MovesOn, Goto, Locking
<1>5. CASE Erase(r) \/ Move(r)
  <2>1. pc[r] \in {"erase", "move"} /\ req' = req
    BY <1>5 DEF Erase, Move, At, own
  <2>2. mapMutex = r
    BY <1>1, <2>1 DEF Locked, Locking
  <2>3. (Goto(r, "move") /\ mapMutex' = mapMutex /\ pc[r] = "erase") \/ Goto(r, "done")
    BY <1>5 DEF Erase, Move, At
  <2>4. QED
    BY <1>1, <2>1, <2>2, <2>3 DEF MovesOn, Goto, Locking
<1>6. QED
  BY <1>2, <1>3, <1>4, <1>5

LEMMA RestoreMoves ==
  ASSUME CacheInv, NEW r \in Requests,
         \/ RestoreAsks(r) \/ RestoreCopies(r) \/ RestoreFails(r) \/ RestoreStoresMeta(r)
         \/ RestoreLoads(r) \/ RestoreAnswers(r)
  PROVE  MovesOn(r)
<1>1. pc \in [Requests -> Stages] /\ Kinded
  BY DEF CacheInv, CacheTypeOK
<1>2. req' = req /\ mapMutex' = mapMutex
  BY DEF RestoreAsks, RestoreCopies, RestoreFails, RestoreStoresMeta, RestoreLoads, RestoreAnswers,
         CopyBackup, own, world
<1>3. pc[r] \in {"askRestore", "copy", "restoreMeta", "restoreLoad", "answer"}
  BY DEF RestoreAsks, RestoreCopies, RestoreFails, RestoreStoresMeta, RestoreLoads, RestoreAnswers, Using, At
<1>4. \/ Goto(r, "done")
      \/ pc[r] # "answer" /\ (Goto(r, "copy") \/ Goto(r, "restoreMeta") \/ Goto(r, "restoreLoad") \/ Goto(r, "recover"))
  BY DEF RestoreAsks, RestoreCopies, RestoreFails, RestoreStoresMeta, RestoreLoads, RestoreAnswers, Using, At
<1>5. pc[r] # "answer" => req[r].kind = "restore"
  BY <1>1, <1>3 DEF Kinded
<1>6. QED
  BY <1>1, <1>2, <1>3, <1>4, <1>5 DEF MovesOn, Goto, Locking

LEMMA StepMovesOn ==
  ASSUME CacheInv, NEW r \in Requests, Step(r)
  PROVE  MovesOn(r)
BY LookupMoves, EvictMoves, SaveMoves, WorkMoves, CreateMoves, RestoreMoves DEF Step, GetStep

\* How a request begins.
LEMMA Begins ==
  ASSUME CacheInv, NEW r \in Requests, NEW ask \in Asks, ask[1] = r, Begin(r, ask[2], ask[3])
  PROVE  /\ pc[r] = "idle" /\ world' = world
         /\ req'[r].kind = ask[2] /\ req'[r].index = ask[3] /\ <<r, ask[2], ask[3]>> \in Asks
         /\ \A q \in Requests \ {r} : pc'[q] = pc[q] /\ req'[q] = req[q]
         /\ pc'[r] \in {"find", "autosave", "askMeta", "lockToErase", "askRestore"}
         /\ pc'[r] = "lockToErase" => ask[2] = "delete"
         /\ pc'[r] = "askRestore" => ask[2] = "restore"
         /\ UNCHANGED <<ref, records, total, opened>>
<1>1. ask[2] \in Kinds /\ ask = <<r, ask[2], ask[3]>>
  BY BeginTyped
<1>2. pc \in [Requests -> Stages] /\ req \in [Requests -> [kind : Kinds \cup {"none"}, index : Indexes \cup {"none"}]]
  BY DEF CacheInv, CacheTypeOK
<1>3. req' = [req EXCEPT ![r] = [kind |-> ask[2], index |-> ask[3]]] /\ pc[r] = "idle"
  BY DEF Begin, At
<1>4. \/ Goto(r, "find") \/ Goto(r, "autosave") \/ Goto(r, "askMeta")
      \/ Goto(r, "lockToErase") /\ ask[2] = "delete"
      \/ Goto(r, "askRestore") /\ ask[2] = "restore"
  BY <1>1 DEF Begin, Kinds
<1>5. /\ req'[r].kind = ask[2] /\ req'[r].index = ask[3] /\ <<r, ask[2], ask[3]>> \in Asks
      /\ \A q \in Requests \ {r} : req'[q] = req[q]
  BY <1>1, <1>2, <1>3
<1>6. \A q \in Requests \ {r} : pc'[q] = pc[q]
  BY <1>2, <1>4 DEF Goto
<1>7. /\ pc'[r] \in {"find", "autosave", "askMeta", "lockToErase", "askRestore"}
      /\ pc'[r] = "lockToErase" => ask[2] = "delete"
      /\ pc'[r] = "askRestore" => ask[2] = "restore"
  BY <1>2, <1>4 DEF Goto
<1>8. world' = world /\ UNCHANGED <<ref, records, total, opened>>
  BY DEF Begin
<1>9. QED
  BY <1>3, <1>5, <1>6, <1>7, <1>8

LEMMA AskedKept == CacheInv /\ [Next]_vars => Asked' /\ Kinded' /\ Locked'
<1> SUFFICES ASSUME CacheInv, [Next]_vars PROVE Asked' /\ Kinded' /\ Locked'
  OBVIOUS
<1>1. Asked /\ Kinded /\ Locked /\ NoRequest \notin Requests
  BY IndexCacheAssumption DEF CacheInv
<1>2. CASE pc' = pc /\ req' = req /\ mapMutex' = mapMutex
  BY <1>1, <1>2 DEF Asked, Kinded, Locked
<1>3. ASSUME NEW r \in Requests, Step(r) PROVE Asked' /\ Kinded' /\ Locked'
  <2>1. MovesOn(r)
    BY <1>3, StepMovesOn
  <2>2. Asked'
    BY <1>1, <2>1 DEF Asked, MovesOn
  <2>3. Kinded'
    <3>1. \A q \in Requests \ {r} : pc'[q] = pc[q] /\ req'[q] = req[q]
      BY <2>1 DEF MovesOn
    <3>2. pc'[r] = "publish" => pc[r] = "open"
      BY <2>1 DEF MovesOn, CreateOpens, At
    <3>3. QED
      BY <1>1, <2>1, <3>1, <3>2 DEF Kinded, MovesOn
  <2>4. Locked'
    BY <1>1, <2>1 DEF Locked, MovesOn
  <2>5. QED
    BY <2>2, <2>3, <2>4
<1>4. ASSUME NEW r \in Requests, NEW ask \in Asks, ask[1] = r, Begin(r, ask[2], ask[3])
      PROVE  Asked' /\ Kinded' /\ Locked'
  <2>1. /\ req'[r].kind = ask[2] /\ req'[r].index = ask[3] /\ <<r, ask[2], ask[3]>> \in Asks
        /\ \A q \in Requests \ {r} : pc'[q] = pc[q] /\ req'[q] = req[q]
        /\ pc'[r] \in {"find", "autosave", "askMeta", "lockToErase", "askRestore"}
        /\ pc'[r] = "lockToErase" => ask[2] = "delete"
        /\ pc'[r] = "askRestore" => ask[2] = "restore"
        /\ mapMutex' = mapMutex
    BY <1>4, Begins DEF world
  <2>2. Asked'
    BY <1>1, <2>1 DEF Asked
  <2>3. Kinded'
    BY <1>1, <2>1 DEF Kinded
  <2>4. Locked'
    BY <1>1, <2>1 DEF Locked, Locking
  <2>5. QED
    BY <2>2, <2>3, <2>4
<1>5. CASE UNCHANGED vars
  BY <1>2, <1>5 DEF vars, own, world
<1>6. ASSUME NEW r \in Requests, UseErased(r) PROVE Asked' /\ Kinded' /\ Locked'
  BY <1>2, <1>6 DEF UseErased, own
<1>7. QED
  BY <1>3, <1>4, <1>5, <1>6 DEF Next, Rest

-------------------------------------------------------------------------------
(* The list and the map.                                                   *)

\* The steps that change neither.
LEMMA SameList ==
  ASSUME NEW r \in Requests, Step(r)
  PROVE  \/ indices' = indices /\ list' = list /\ made' = made
         \/ Load(r) \/ RestoreLoads(r) \/ CreatePublishes(r) \/ EvictLast(r) \/ Erase(r)
BY DEF Step, GetStep, Find, LockMap, LoadFails, ReadLog, RecoveryFails, Replay, Fetch, Evict, EvictEnds,
       SaveImage, SaveFails, SaveClear, SaveDone, LockOp, LogWrite, LogFails, Link, Mark, Unlock, Read,
       Autosave, CreateAsks, LockToEvict, CreateOpens, CreateStoresMeta, LockToErase, Move, RestoreAsks,
       RestoreCopies, RestoreFails, CopyBackup, RestoreStoresMeta, RestoreAnswers, cached, world

\* What a load, a restore or a creation publishes was not there.
LEMMA Publications ==
  ASSUME CacheInv, NEW r \in Requests, Load(r) \/ RestoreLoads(r) \/ CreatePublishes(r)
  PROVE  /\ Index(r) \in Indexes
         /\ \/ indices' = indices /\ list' = list
            \/ /\ indices[Index(r)] = 0
               /\ \E n \in Nat \ {0} : indices' = [indices EXCEPT ![Index(r)] = n]
               /\ list' = <<Index(r)>> \o list
               /\ Load(r) => mapMutex = r
               /\ CreatePublishes(r) \/ Loadable(r)
<1> DEFINE x == Index(r)
<1>1. x \in Indexes /\ CacheTypeOK
  <2>1. pc[r] # "idle"
    BY DEF Load, RestoreLoads, CreatePublishes, At
  <2>2. QED
    BY <2>1, RequestIs DEF CacheInv
<1>2. ASSUME NEW e, Publish(x, e)
      PROVE  /\ \E n \in Nat \ {0} : indices' = [indices EXCEPT ![x] = n]
             /\ list' = <<x>> \o list
  <2>1. made[x] + 1 \in Nat \ {0}
    BY <1>1, IndexCacheAssumption DEF CacheTypeOK
  <2>2. QED
    BY <1>2, <2>1 DEF Publish
<1>3. CASE Load(r)
  <2>1. mapMutex = r /\ Loadable(r)
    BY <1>3 DEF CacheInv, Locked, Locking, Load, At
  <2>2. indices[x] = 0
    BY <2>1 DEF Loadable
  <2>3. QED
    BY <1>1, <1>2, <1>3, <2>1, <2>2, Zenon DEF Load
<1>4. CASE RestoreLoads(r)
  <2>1. CASE Loadable(r)
    <3>1. indices[x] = 0
      BY <2>1 DEF Loadable
    <3>2. Load(r) => FALSE
      BY <1>4 DEF Load, RestoreLoads, At
    <3>3. QED
      BY <1>1, <1>2, <1>4, <2>1, <3>1, <3>2, Zenon DEF RestoreLoads
  <2>2. CASE ~Loadable(r)
    BY <1>1, <1>4, <2>2 DEF RestoreLoads, cached
  <2>3. QED
    BY <2>1, <2>2
<1>5. CASE CreatePublishes(r)
  <2>1. indices[x] = 0
    BY <1>5 DEF CacheInv, Publishing, PublishesNew, CreatePublishes, At
  <2>2. Load(r) => FALSE
    BY <1>5 DEF Load, CreatePublishes, At
  <2>3. QED
    BY <1>1, <1>2, <1>5, <2>1, <2>2, Zenon DEF CreatePublishes
<1>6. QED
  BY <1>3, <1>4, <1>5

\* What an eviction does to map and list.
LEMMA Evictions ==
  ASSUME CacheInv, NEW r \in Requests, EvictLast(r)
  PROVE  LET x == Last(list) IN
         /\ x \in Loaded /\ Len(list) \in Nat \ {0} /\ list[Len(list)] = x
         /\ total' = [total EXCEPT ![r] = total[r] - Size[x]]
         /\ \/ indices' = indices /\ list' = <<x>> \o Front(list)
            \/ indices' = [indices EXCEPT ![x] = 0] /\ list' = Front(list)
<1> DEFINE x == Last(list)
<1>1. PICK k \in 0 .. (Len(list) - 1) : x \in Loaded
  BY EvictedIs
<1>2. Len(list) \in Nat
  BY AllListed
<1>3. Len(list) \in Nat \ {0} /\ list[Len(list)] = x
  BY <1>1, <1>2 DEF Last
<1>4. indices[x] # 0
  BY <1>1 DEF Loaded
<1>5. total' = [total EXCEPT ![r] = total[r] - Size[x]]
  BY <1>4 DEF EvictLast
<1>6. \/ indices' = indices /\ list' = <<x>> \o Front(list)
      \/ indices' = [indices EXCEPT ![x] = 0] /\ list' = Front(list)
  BY Zenon DEF EvictLast
<1>7. QED
  BY <1>1, <1>3, <1>5, <1>6

\* The list and the map go together.
Together(l, m) ==
  /\ \A i, j \in DOMAIN l : l[i] = l[j] => i = j
  /\ {l[i] : i \in DOMAIN l} = {x \in Indexes : m[x] # 0}

\* The same, place by place.
LEMMA TogetherIs ==
  ASSUME NEW l \in Seq(Indexes), NEW m
  PROVE  Together(l, m) <=>
           /\ \A i, j \in 1 .. Len(l) : l[i] = l[j] => i = j
           /\ \A i \in 1 .. Len(l) : l[i] \in Indexes /\ m[l[i]] # 0
           /\ \A y \in Indexes : m[y] # 0 => \E i \in 1 .. Len(l) : l[i] = y
<1>1. DOMAIN l = 1 .. Len(l) /\ \A i \in 1 .. Len(l) : l[i] \in Indexes
  BY LenProperties
<1> DEFINE d == DOMAIN l
<1>2. {l[i] : i \in d} = {x \in Indexes : m[x] # 0} <=>
        /\ \A i \in d : l[i] \in Indexes /\ m[l[i]] # 0
        /\ \A y \in Indexes : m[y] # 0 => \E i \in d : l[i] = y
  <2> HIDE DEF d
  <2>1. ASSUME {l[i] : i \in d} = {x \in Indexes : m[x] # 0}
        PROVE  /\ \A i \in d : l[i] \in Indexes /\ m[l[i]] # 0
               /\ \A y \in Indexes : m[y] # 0 => \E i \in d : l[i] = y
    <3>1. \A i \in d : l[i] \in {x \in Indexes : m[x] # 0}
      BY <2>1
    <3>2. \A y \in Indexes : m[y] # 0 => y \in {l[i] : i \in d}
      BY <2>1
    <3>3. QED
      BY <3>1, <3>2
  <2>2. ASSUME /\ \A i \in d : l[i] \in Indexes /\ m[l[i]] # 0
               /\ \A y \in Indexes : m[y] # 0 => \E i \in d : l[i] = y
        PROVE  {l[i] : i \in d} = {x \in Indexes : m[x] # 0}
    BY <2>2
  <2>3. QED
    BY <2>1, <2>2
<1>3. QED
  BY <1>1, <1>2 DEF Together

LEMMA ListKept == CacheInv /\ [Next]_vars => ListMatches'
<1> SUFFICES ASSUME CacheInv, [Next]_vars PROVE ListMatches'
  OBVIOUS
<1>1. /\ list \in Seq(Indexes) /\ indices \in [Indexes -> 0 .. MaxEntries] /\ Together(list, indices)
      /\ DOMAIN list = 1 .. Len(list) /\ Len(list) \in Nat
      /\ \A i \in 1 .. Len(list) : list[i] \in Indexes
  BY LenProperties DEF CacheInv, CacheTypeOK, ListMatches, Loaded, Together
<1>2. SUFFICES Together(list', indices')
  BY DEF ListMatches, Loaded, Together
<1>3. CASE list' = list /\ indices' = indices
  BY <1>1, <1>3
<1>4. ASSUME NEW r \in Requests, Load(r) \/ RestoreLoads(r) \/ CreatePublishes(r), ~(list' = list /\ indices' = indices)
      PROVE  Together(list', indices')
  <2> DEFINE x == Index(r)  m == <<x>> \o list  n == Len(list)
  <2>1. x \in Indexes /\ indices[x] = 0 /\ list' = m
    BY <1>4, Publications
  <2>2. PICK e \in Nat \ {0} : indices' = [indices EXCEPT ![x] = e]
    BY <1>4, Publications
  <2>3. m \in Seq(Indexes) /\ Len(m) = n + 1 /\ m[1] = x /\ \A i \in 1 .. n : m[i + 1] = list[i]
    BY <1>1, <2>1, FrontOf
  <2>4. DOMAIN m = 1 .. (n + 1)
    BY <2>3, LenProperties
  <2> HIDE DEF m
  <2>5. \A i \in 1 .. n : list[i] # x
    BY <1>1, <2>1 DEF Together
  <2>6. \A i \in 2 .. (n + 1) : i - 1 \in 1 .. n /\ m[i] = list[i - 1]
    BY <1>1, <2>3
  <2>7. \A i, j \in 1 .. (n + 1) : m[i] = m[j] => i = j
    <3>1. TAKE i, j \in 1 .. (n + 1)
    <3>2. HAVE m[i] = m[j]
    <3>3. CASE i = 1 \/ j = 1
      BY <1>1, <2>3, <2>5, <2>6, <3>2, <3>3
    <3>4. CASE i # 1 /\ j # 1
      <4>1. i \in 2 .. (n + 1) /\ j \in 2 .. (n + 1)
        BY <1>1, <3>4
      <4>2. list[i - 1] = list[j - 1] /\ i - 1 \in 1 .. n /\ j - 1 \in 1 .. n
        BY <2>6, <3>2, <4>1
      <4>3. i - 1 = j - 1
        BY <1>1, <4>2 DEF Together
      <4>4. QED
        BY <4>1, <4>3
    <3>5. QED
      BY <3>3, <3>4
  <2>8. {m[i] : i \in 1 .. (n + 1)} = {list[i] : i \in 1 .. n} \cup {x}
    <3>1. ASSUME NEW i \in 1 .. (n + 1) PROVE m[i] \in {list[j] : j \in 1 .. n} \cup {x}
      <4>1. CASE i = 1
        BY <2>3, <4>1
      <4>2. CASE i # 1
        <5>1. i \in 2 .. (n + 1)
          BY <1>1, <4>2
        <5>2. QED
          BY <2>6, <5>1
      <4>3. QED
        BY <4>1, <4>2
    <3>2. ASSUME NEW j \in 1 .. n PROVE list[j] \in {m[i] : i \in 1 .. (n + 1)}
      <4>1. j + 1 \in 1 .. (n + 1) /\ m[j + 1] = list[j]
        BY <1>1, <2>3
      <4>2. QED
        BY <4>1
    <3>3. 1 \in 1 .. (n + 1)
      BY <1>1
    <3>4. QED
      BY <2>3, <3>1, <3>2, <3>3
  <2>9. {y \in Indexes : indices'[y] # 0} = {y \in Indexes : indices[y] # 0} \cup {x}
    BY <1>1, <2>1, <2>2
  <2>10. \A i \in 1 .. (n + 1) : m[i] \in Indexes /\ indices'[m[i]] # 0
    <3>1. TAKE i \in 1 .. (n + 1)
    <3>2. m[i] = x \/ \E j \in 1 .. n : m[i] = list[j]
      BY <2>8
    <3>3. \A j \in 1 .. n : list[j] \in Indexes /\ indices[list[j]] # 0
      BY <1>1, TogetherIs
    <3>4. CASE m[i] = x
      BY <2>1, <2>2, <3>4, <1>1
    <3>5. CASE \E j \in 1 .. n : m[i] = list[j]
      <4>1. m[i] \in Indexes /\ indices[m[i]] # 0
        BY <3>3, <3>5
      <4>2. QED
        BY <1>1, <2>1, <2>2, <4>1
    <3>6. QED
      BY <3>2, <3>4, <3>5
  <2>11. \A y \in Indexes : indices'[y] # 0 => \E i \in 1 .. (n + 1) : m[i] = y
    <3>1. TAKE y \in Indexes
    <3>2. HAVE indices'[y] # 0
    <3>3. y = x \/ \E j \in 1 .. n : list[j] = y
      BY <1>1, <2>9, <3>2, TogetherIs
    <3>4. y \in {list[j] : j \in 1 .. n} \cup {x}
      BY <3>3
    <3>5. y \in {m[i] : i \in 1 .. (n + 1)}
      BY <2>8, <3>4
    <3>6. QED
      BY <3>5
  <2>12. m \in Seq(Indexes) /\ Len(m) = n + 1
    BY <2>3
  <2>13. Together(m, indices')
    BY <2>7, <2>10, <2>11, <2>12, TogetherIs
  <2>14. QED
    BY <2>1, <2>13
<1>5. ASSUME NEW r \in Requests, EvictLast(r) PROVE Together(list', indices')
  <2> DEFINE x == Last(list)  f == Front(list)  n == Len(list)
  <2>1. /\ x \in Loaded /\ n \in Nat \ {0} /\ list[n] = x
        /\ \/ indices' = indices /\ list' = <<x>> \o f
           \/ indices' = [indices EXCEPT ![x] = 0] /\ list' = f
    BY <1>5, Evictions
  <2>2. f \in Seq(Indexes) /\ Len(f) = n - 1 /\ \A i \in 1 .. (n - 1) : f[i] = list[i]
    BY <1>1, <2>1, WithoutLast
  <2>3. DOMAIN f = 1 .. (n - 1) /\ x \in Indexes
    BY <2>1, <2>2, LenProperties DEF Loaded
  <2>4. \A i \in 1 .. (n - 1) : i \in 1 .. n /\ i # n
    BY <2>1
  <2> HIDE DEF f, x
  <2>5. \A i \in 1 .. (n - 1) : f[i] # x
    <3>1. \A i, j \in 1 .. n : list[i] = list[j] => i = j
      BY <1>1, TogetherIs
    <3>2. n \in 1 .. n
      BY <2>1
    <3>3. QED
      BY <2>1, <2>2, <2>4, <3>1, <3>2
  <2>6. \A i, j \in 1 .. (n - 1) : f[i] = f[j] => i = j
    BY <1>1, <2>2, <2>4 DEF Together
  <2>7. {f[i] : i \in 1 .. (n - 1)} = {list[i] : i \in 1 .. n} \ {x}
    <3>1. ASSUME NEW i \in 1 .. (n - 1) PROVE f[i] \in {list[j] : j \in 1 .. n} \ {x}
      BY <2>2, <2>4, <2>5
    <3>2. ASSUME NEW j \in 1 .. n, list[j] # x PROVE list[j] \in {f[i] : i \in 1 .. (n - 1)}
      <4>1. j \in 1 .. (n - 1)
        BY <2>1, <3>2
      <4>2. QED
        BY <2>2, <4>1
    <3>3. QED
      BY <3>1, <3>2
  <2>8. CASE indices' = [indices EXCEPT ![x] = 0] /\ list' = f
    <3>1. {y \in Indexes : indices'[y] # 0} = {y \in Indexes : indices[y] # 0} \ {x}
      BY <1>1, <2>3, <2>8
    <3>2. \A i \in 1 .. (n - 1) : f[i] \in Indexes /\ indices'[f[i]] # 0
      <4>1. \A i \in 1 .. n : list[i] \in Indexes /\ indices[list[i]] # 0
        BY <1>1, TogetherIs
      <4>2. QED
        BY <1>1, <2>2, <2>3, <2>4, <2>5, <2>8, <4>1
    <3>3. \A y \in Indexes : indices'[y] # 0 => \E i \in 1 .. (n - 1) : f[i] = y
      <4>1. TAKE y \in Indexes
      <4>2. HAVE indices'[y] # 0
      <4>3. y # x /\ indices[y] # 0
        BY <1>1, <3>1, <4>2
      <4>4. \E j \in 1 .. n : list[j] = y
        BY <1>1, <4>3, TogetherIs
      <4>5. y \in {f[i] : i \in 1 .. (n - 1)}
        BY <2>7, <4>3, <4>4
      <4>6. QED
        BY <4>5
    <3>4. Together(f, indices')
      <4> DEFINE m == indices'  k == n - 1
      <4>1. f \in Seq(Indexes) /\ Len(f) = k
        BY <2>2
      <4>2. /\ \A i, j \in 1 .. k : f[i] = f[j] => i = j
            /\ \A i \in 1 .. k : f[i] \in Indexes /\ m[f[i]] # 0
            /\ \A y \in Indexes : m[y] # 0 => \E i \in 1 .. k : f[i] = y
        BY <2>6, <3>2, <3>3
      <4> HIDE DEF m, k
      <4>3. Together(f, m)
        BY <4>1, <4>2, TogetherIs
      <4>4. QED
        BY <4>3 DEF m
    <3>5. QED
      BY <2>8, <3>4
  <2>9. CASE indices' = indices /\ list' = <<x>> \o f
    <3> DEFINE m == <<x>> \o f
    <3>1. m \in Seq(Indexes) /\ Len(m) = n /\ m[1] = x /\ \A i \in 1 .. (n - 1) : m[i + 1] = f[i]
      <4>1. m \in Seq(Indexes) /\ Len(m) = Len(f) + 1 /\ m[1] = x /\ \A i \in 1 .. Len(f) : m[i + 1] = f[i]
        BY <2>2, <2>3, FrontOf
      <4>2. QED
        BY <2>1, <2>2, <4>1
    <3>2. DOMAIN m = 1 .. n
      BY <3>1, LenProperties
    <3> HIDE DEF m
    <3>3. \A i \in 2 .. n : i - 1 \in 1 .. (n - 1) /\ m[i] = f[i - 1]
      BY <2>1, <3>1
    <3>4. \A i, j \in 1 .. n : m[i] = m[j] => i = j
      <4>1. TAKE i, j \in 1 .. n
      <4>2. HAVE m[i] = m[j]
      <4>3. CASE i = 1 \/ j = 1
        BY <2>1, <2>5, <3>1, <3>3, <4>2, <4>3
      <4>4. CASE i # 1 /\ j # 1
        <5>1. i \in 2 .. n /\ j \in 2 .. n
          BY <2>1, <4>4
        <5>2. i - 1 = j - 1
          BY <2>6, <3>3, <4>2, <5>1
        <5>3. QED
          BY <5>1, <5>2
      <4>5. QED
        BY <4>3, <4>4
    <3>5. {m[i] : i \in 1 .. n} = {list[i] : i \in 1 .. n}
      <4>1. ASSUME NEW i \in 1 .. n PROVE m[i] \in {list[j] : j \in 1 .. n}
        <5>1. CASE i = 1
          BY <2>1, <3>1, <5>1
        <5>2. CASE i # 1
          <6>1. i \in 2 .. n
            BY <2>1, <5>2
          <6>2. m[i] = f[i - 1] /\ i - 1 \in 1 .. (n - 1)
            BY <3>3, <6>1
          <6>3. QED
            BY <2>7, <6>2
        <5>3. QED
          BY <5>1, <5>2
      <4>2. ASSUME NEW j \in 1 .. n PROVE list[j] \in {m[i] : i \in 1 .. n}
        <5>1. CASE j = n
          BY <2>1, <3>1, <5>1
        <5>2. CASE j # n
          <6>1. j \in 1 .. (n - 1) /\ j + 1 \in 1 .. n
            BY <2>1, <5>2
          <6>2. m[j + 1] = list[j]
            BY <2>2, <3>1, <6>1
          <6>3. QED
            BY <6>1, <6>2
        <5>3. QED
          BY <5>1, <5>2
      <4>3. QED
        BY <4>1, <4>2
    <3>6. \A i \in 1 .. n : m[i] \in Indexes /\ indices[m[i]] # 0
      <4>1. \A i \in 1 .. n : list[i] \in Indexes /\ indices[list[i]] # 0
        BY <1>1, TogetherIs
      <4>2. \A i \in 1 .. n : \E j \in 1 .. n : m[i] = list[j]
        BY <3>5
      <4>3. QED
        BY <4>1, <4>2
    <3>7. \A y \in Indexes : indices[y] # 0 => \E i \in 1 .. n : m[i] = y
      <4>1. \A y \in Indexes : indices[y] # 0 => \E j \in 1 .. n : list[j] = y
        BY <1>1, TogetherIs
      <4>2. \A j \in 1 .. n : \E i \in 1 .. n : m[i] = list[j]
        BY <3>5
      <4>3. QED
        BY <4>1, <4>2
    <3>8. Together(m, indices)
      BY <3>1, <3>4, <3>6, <3>7, TogetherIs
    <3>9. QED
      BY <2>9, <3>8 DEF m
  <2>10. QED
    BY <2>1, <2>8, <2>9
<1>6. ASSUME NEW r \in Requests, Erase(r) PROVE Together(list', indices')
  <2> DEFINE x == Index(r)  m == RemoveFirst(list, x)
  <2>1. x \in Indexes
    BY <1>6, RequestIs DEF Erase, At
  <2>2. CASE indices[x] = 0
    <3>1. indices' = indices /\ list' = list
      BY <1>1, <1>6, <2>1, <2>2 DEF Erase
    <3>2. QED
      BY <1>1, <3>1
  <2>3. CASE indices[x] # 0
    <3>1. /\ \A i, j \in DOMAIN m : m[i] = m[j] => i = j
          /\ {m[i] : i \in DOMAIN m} = {list[i] : i \in DOMAIN list} \ {x}
      BY <1>1, RemovedIs DEF Together
    <3>2. indices' = [indices EXCEPT ![x] = 0] /\ list' = m
      BY <1>6, <2>3 DEF Erase
    <3> HIDE DEF m
    <3>3. {y \in Indexes : indices'[y] # 0} = {y \in Indexes : indices[y] # 0} \ {x}
      BY <1>1, <2>1, <3>2
    <3>4. {list[i] : i \in DOMAIN list} = {y \in Indexes : indices[y] # 0}
      BY <1>1 DEF Together
    <3>5. QED
      BY <3>1, <3>2, <3>3, <3>4 DEF Together
  <2>4. QED
    BY <2>2, <2>3
<1>7. ASSUME NEW r \in Requests, Step(r) PROVE Together(list', indices')
  BY <1>3, <1>4, <1>5, <1>6, <1>7, SameList
<1>8. CASE UNCHANGED vars
  BY <1>3, <1>8 DEF vars, world, cached
<1>9. ASSUME NEW r \in Requests, UseErased(r) \/ \E ask \in Asks : ask[1] = r /\ Begin(r, ask[2], ask[3])
      PROVE  Together(list', indices')
  BY <1>3, <1>9 DEF UseErased, Begin, world, cached
<1>10. QED
  BY <1>7, <1>8, <1>9 DEF Next, Rest

-------------------------------------------------------------------------------
(* A creation that has opened the databases is alone with its index.       *)

\* Whoever may make the same index again, if it may be deleted, is the same request.
LEMMA SameMaker ==
  ASSUME OneMaker, CacheInv, NEW q \in Requests, NEW r \in Requests,
         pc[q] # "idle", pc[r] # "idle", Index(q) = Index(r),
         req[q].kind \in {"create", "restore"}, req[r].kind \in {"create", "restore"},
         \E d \in Requests : <<d, "delete", Index(q)>> \in Asks
  PROVE  q = r
<1>1. /\ Index(q) \in Indexes /\ <<q, req[q].kind, Index(q)>> \in Asks
      /\ <<r, req[r].kind, Index(q)>> \in Asks
  BY RequestIs
<1>2. QED
  BY <1>1 DEF OneMaker

\* While one is at it, nobody loads the index, opens its databases or makes its directory.
LEMMA NoOther ==
  ASSUME OneMaker, CacheInv, NEW q \in Requests, pc[q] = "publish", NEW r \in Requests, r # q,
         Index(r) = Index(q)
  PROVE  /\ ~Loadable(r) /\ pc[r] # "publish"
         /\ (pc[r] # "idle" /\ req[r].kind \in {"create", "restore"}) =>
              dir[Index(q)] # 0 /\ OpenedByOther(r)
<1> DEFINE x == Index(q)
<1>1. PublishesNew(q) /\ req[q].kind = "create"
  BY DEF CacheInv, Publishing, Kinded
<1>2. pc[r] # "publish"
  BY DEF CacheInv, Publishing
<1>3. dir[x] = opened[q] => OpenedByOther(r)
  BY <1>1 DEF PublishesNew, OpenedByOther
<1>4. ~Loadable(r)
  BY <1>1, <1>3 DEF Loadable, Saved, PublishesNew
<1>5. ASSUME pc[r] # "idle", req[r].kind \in {"create", "restore"}
      PROVE  dir[x] # 0 /\ OpenedByOther(r)
  <2>1. ~ \E d \in Requests : <<d, "delete", x>> \in Asks
    BY <1>1, <1>5, SameMaker
  <2>2. QED
    BY <1>1, <1>3, <2>1 DEF PublishesNew
<1>6. QED
  BY <1>2, <1>4, <1>5

\* The steps that change a directory or what a creation has opened.
LEMMA SameDirectories ==
  ASSUME NEW r \in Requests, Step(r)
  PROVE  \/ dir' = dir /\ opened' = opened
         \/ CreateOpens(r) \/ Move(r) \/ RestoreCopies(r) \/ RestoreFails(r)
BY DEF Step, GetStep, Find, LockMap, LoadFails, Load, ReadLog, RecoveryFails, Replay, Fetch, Evict, EvictEnds,
       EvictLast, SaveImage, SaveFails, SaveClear, SaveDone, LockOp, LogWrite, LogFails, Link, Mark, Unlock, Read,
       Autosave, CreateAsks, LockToEvict, CreatePublishes, CreateStoresMeta, LockToErase, Erase, RestoreAsks,
       RestoreStoresMeta, RestoreLoads, RestoreAnswers, own, disk, world

\* What others do leaves a creation alone with its index.
LEMMA OthersLeave ==
  ASSUME OneMaker, CacheInv, NEW q \in Requests, pc[q] = "publish", NEW r \in Requests, r # q, Step(r)
  PROVE  PublishesNew(q)'
<1> DEFINE x == Index(q)
<1>1. /\ PublishesNew(q) /\ req' = req /\ x \in Indexes /\ pc[r] # "idle" /\ Index(r) \in Indexes
      /\ CacheTypeOK /\ Kinded
  BY StepMovesOn, RequestIs DEF CacheInv, Publishing, MovesOn
<1>2. Index(q)' = x
  BY <1>1 DEF Index
<1>3. indices'[x] = 0
  <2>1. indices[x] = 0 /\ indices \in [Indexes -> 0 .. MaxEntries]
    BY <1>1 DEF PublishesNew, CacheTypeOK
  <2>2. CASE indices' = indices
    BY <2>1, <2>2
  <2>3. CASE EvictLast(r) \/ Erase(r)
    <3>1. \E y : indices' = [indices EXCEPT ![y] = 0] \/ indices' = indices
      <4>1. CASE EvictLast(r)
        BY <4>1, Evictions
      <4>2. CASE Erase(r)
        BY <4>2 DEF Erase
      <4>3. QED
        BY <2>3, <4>1, <4>2
    <3>2. QED
      BY <1>1, <2>1, <3>1
  <2>4. CASE Load(r) \/ RestoreLoads(r) \/ CreatePublishes(r)
    <3>1. CASE Index(r) = x
      <4>1. ~Loadable(r) /\ pc[r] # "publish"
        BY <3>1, NoOther
      <4>2. ~CreatePublishes(r)
        BY <4>1 DEF CreatePublishes, At
      <4>3. indices' = indices
        BY <2>4, <4>1, <4>2, Publications
      <4>4. QED
        BY <2>2, <4>3
    <3>2. CASE Index(r) # x
      <4>1. indices' = indices \/ \E n \in Nat \ {0} : indices' = [indices EXCEPT ![Index(r)] = n]
        BY <2>4, Publications
      <4>2. QED
        BY <1>1, <2>1, <3>2, <4>1
    <3>3. QED
      BY <3>1, <3>2
  <2>5. QED
    BY <2>2, <2>3, <2>4, SameList
<1>4. /\ opened'[q] = opened[q]
      /\ \/ dir'[x] = dir[x]
         \/ dir'[x] = 0 /\ \E d \in Requests : <<d, "delete", x>> \in Asks
  <2>1. dir \in [Indexes -> 0 .. MaxEntries] /\ opened \in [Requests -> 0 .. MaxEntries]
    BY <1>1 DEF CacheTypeOK
  <2>2. CASE dir' = dir /\ opened' = opened
    BY <2>2
  <2>3. CASE Move(r)
    <3>1. opened' = opened /\ dir' = [dir EXCEPT ![Index(r)] = 0] /\ pc[r] = "move"
      BY <2>3 DEF Move, own, At
    <3>2. req[r].kind = "delete" /\ <<r, req[r].kind, Index(r)>> \in Asks
      BY <1>1, <3>1, RequestIs DEF Kinded
    <3>3. QED
      BY <1>1, <2>1, <3>1, <3>2
  <2>4. CASE CreateOpens(r)
    <3>1. pc[r] = "open" /\ req[r].kind = "create"
      BY <1>1, <2>4 DEF CreateOpens, At, Kinded
    <3>2. CASE Index(r) = x
      <4>1. OpenedByOther(r)
        BY <1>1, <3>1, <3>2, NoOther
      <4>2. dir' = dir /\ opened' = opened
        BY <2>4, <4>1 DEF CreateOpens
      <4>3. QED
        BY <4>2
    <3>3. CASE Index(r) # x
      <4>1. opened' = opened \/ opened' = [opened EXCEPT ![r] = dir'[Index(r)]]
        BY <2>4 DEF CreateOpens
      <4>2. dir' = dir \/ \E n : dir' = [dir EXCEPT ![Index(r)] = n]
        BY <2>4, Zenon DEF CreateOpens
      <4>3. QED
        BY <1>1, <2>1, <3>3, <4>1, <4>2
    <3>4. QED
      BY <3>2, <3>3
  <2>5. CASE RestoreCopies(r) \/ RestoreFails(r)
    <3>1. pc[r] = "copy" /\ req[r].kind = "restore"
      BY <1>1, <2>5 DEF RestoreCopies, RestoreFails, At, Kinded
    <3>2. opened' = opened /\ dir' = [dir EXCEPT ![Index(r)] = IF @ # 0 THEN @ ELSE dirs[Index(r)] + 1]
      BY <2>5 DEF RestoreCopies, RestoreFails, CopyBackup, own
    <3>3. Index(r) = x => dir[x] # 0
      BY <1>1, <3>1, NoOther
    <3>4. dir'[x] = dir[x]
      BY <1>1, <2>1, <3>2, <3>3
    <3>5. QED
      BY <3>2, <3>4
  <2>6. QED
    BY <2>2, <2>3, <2>4, <2>5, SameDirectories
<1>5. QED
  BY <1>1, <1>2, <1>3, <1>4 DEF PublishesNew

\* Who opens the databases finds nobody who has.
LEMMA OpenerIs ==
  ASSUME OneMaker, CacheInv, NEW r \in Requests, CreateOpens(r), pc'[r] = "publish"
  PROVE  /\ PublishesNew(r)'
         /\ \A q \in Requests : pc[q] = "publish" => Index(q) # Index(r)
<1> DEFINE x == Index(r)
<1>1. pc[r] = "open" /\ CacheTypeOK /\ Kinded /\ x \in Indexes
  BY RequestIs DEF CreateOpens, At, CacheInv
<1>2. ~(indices[x] # 0 \/ OpenedByOther(r))
  BY <1>1 DEF CreateOpens, Goto, CacheTypeOK
<1>3. /\ indices[x] = 0 /\ indices' = indices /\ req' = req
      /\ dir' = [dir EXCEPT ![x] = IF @ # 0 THEN @ ELSE dirs[x] + 1]
      /\ opened' = [opened EXCEPT ![r] = dir'[x]]
  BY <1>2 DEF CreateOpens, cached
<1>4. dir[x] \in 0 .. MaxEntries /\ dirs[x] \in 0 .. MaxEntries /\ MaxEntries \in Nat
  BY <1>1, DiskIs
<1>5. dir'[x] # 0
  BY <1>1, <1>3, <1>4 DEF CacheTypeOK
<1>6. opened'[r] = dir'[x]
  BY <1>1, <1>3 DEF CacheTypeOK
<1>7. PublishesNew(r)'
  BY <1>3, <1>5, <1>6 DEF PublishesNew, Index
<1>8. ASSUME NEW q \in Requests, pc[q] = "publish", Index(q) = x PROVE FALSE
  <2>1. r # q
    BY <1>1, <1>8
  <2>2. req[r].kind = "create"
    BY <1>1 DEF Kinded
  <2>3. OpenedByOther(r)
    BY <1>1, <1>8, <2>1, <2>2, NoOther
  <2>4. QED
    BY <1>2, <2>3
<1>9. QED
  BY <1>7, <1>8

LEMMA PublishingKept == OneMaker /\ CacheInv /\ [Next]_vars => Publishing'
<1> SUFFICES ASSUME OneMaker, CacheInv, [Next]_vars PROVE Publishing'
  OBVIOUS
<1>1. Publishing
  BY DEF CacheInv
<1>2. CASE pc' = pc /\ req' = req /\ indices' = indices /\ opened' = opened /\ dir' = dir
  <2>1. \A q \in Requests : Index(q)' = Index(q)
    BY <1>2 DEF Index
  <2>2. \A q \in Requests : PublishesNew(q) => PublishesNew(q)'
    BY <1>2, <2>1 DEF PublishesNew
  <2>3. QED
    BY <1>1, <1>2, <2>1, <2>2 DEF Publishing
<1>3. ASSUME NEW r \in Requests, Step(r) PROVE Publishing'
  <2>1. MovesOn(r)
    BY <1>3, StepMovesOn
  <2>2. \A q \in Requests : Index(q)' = Index(q)
    BY <2>1 DEF MovesOn, Index
  <2>3. ASSUME NEW q \in Requests, pc'[q] = "publish" PROVE (pc[q] = "publish" /\ q # r) \/ (q = r /\ CreateOpens(r))
    BY <2>1, <2>3 DEF MovesOn
  <2>4. ASSUME NEW q \in Requests, pc'[q] = "publish" PROVE PublishesNew(q)'
    BY <1>3, <2>3, <2>4, OthersLeave, OpenerIs
  <2>5. ASSUME NEW p \in Requests, NEW q \in Requests, pc'[p] = "publish", pc'[q] = "publish",
               Index(p)' = Index(q)'
        PROVE  p = q
    <3>1. Index(p) = Index(q)
      BY <2>2, <2>5
    <3>2. CASE p = r
      BY <2>3, <2>5, <3>1, <3>2, OpenerIs
    <3>3. CASE q = r
      BY <2>3, <2>5, <3>1, <3>3, OpenerIs
    <3>4. CASE p # r /\ q # r
      BY <1>1, <2>3, <2>5, <3>1, <3>4 DEF Publishing
    <3>5. QED
      BY <3>2, <3>3, <3>4
  <2>6. QED
    BY <2>4, <2>5 DEF Publishing
<1>4. ASSUME NEW r \in Requests, NEW ask \in Asks, ask[1] = r, Begin(r, ask[2], ask[3])
      PROVE  Publishing'
  <2>1. /\ pc'[r] # "publish" /\ opened' = opened /\ indices' = indices /\ dir' = dir
        /\ \A q \in Requests \ {r} : pc'[q] = pc[q] /\ req'[q] = req[q]
    BY <1>4, Begins DEF world, cached, disk
  <2>2. \A q \in Requests \ {r} : Index(q)' = Index(q)
    BY <2>1 DEF Index
  <2>3. \A q \in Requests \ {r} : PublishesNew(q) => PublishesNew(q)'
    BY <2>1, <2>2 DEF PublishesNew
  <2>4. QED
    BY <1>1, <2>1, <2>2, <2>3 DEF Publishing
<1>5. CASE UNCHANGED vars
  BY <1>2, <1>5 DEF vars, own, world, cached, disk
<1>6. ASSUME NEW r \in Requests, UseErased(r) PROVE Publishing'
  BY <1>2, <1>6 DEF UseErased, own, cached, disk
<1>7. QED
  BY <1>3, <1>4, <1>5, <1>6 DEF Next, Rest

-------------------------------------------------------------------------------
(* What an eviction counts.                                                *)

\* Steps that leave a total alone, or list an index in front.
LEMMA SameTotal ==
  ASSUME NEW r \in Requests, Step(r)
  PROVE  total' = total \/ Evict(r) \/ EvictLast(r)
BY DEF Step, GetStep, Find, LockMap, LoadFails, Load, ReadLog, RecoveryFails, Replay, Fetch, EvictEnds,
       SaveImage, SaveFails, SaveClear, SaveDone, LockOp, LogWrite, LogFails, Link, Mark, Unlock, Read,
       Autosave, CreateAsks, LockToEvict, CreateOpens, CreatePublishes, CreateStoresMeta, LockToErase, Erase, Move,
       RestoreAsks, RestoreCopies, RestoreFails, CopyBackup, RestoreStoresMeta, RestoreLoads, RestoreAnswers,
       own, world

\* The end of a list does not change when an index is put in front.
LEMMA SameEnd ==
  ASSUME NEW l \in Seq(Indexes), NEW x \in Indexes, NEW k \in 0 .. Len(l)
  PROVE  LET m == <<x>> \o l IN
         /\ k + 1 \in 0 .. Len(m)
         /\ {m[i] : i \in (k + 2) .. Len(m)} = {l[i] : i \in (k + 1) .. Len(l)}
<1> DEFINE m == <<x>> \o l  n == Len(l)
<1>1. Len(m) = n + 1 /\ n \in Nat /\ \A i \in 1 .. n : m[i + 1] = l[i]
  BY FrontOf
<1> HIDE DEF m
<1>2. k \in 0 .. n /\ k + 1 \in 0 .. (n + 1)
  BY <1>1
<1>3. ASSUME NEW i \in (k + 2) .. (n + 1) PROVE m[i] \in {l[j] : j \in (k + 1) .. n}
  <2>1. i - 1 \in (k + 1) .. n /\ i - 1 \in 1 .. n /\ (i - 1) + 1 = i
    BY <1>1, <1>2
  <2>2. m[i] = l[i - 1]
    BY <1>1, <2>1
  <2>3. QED
    BY <2>1, <2>2
<1>4. ASSUME NEW j \in (k + 1) .. n PROVE l[j] \in {m[i] : i \in (k + 2) .. (n + 1)}
  <2>1. j + 1 \in (k + 2) .. (n + 1) /\ j \in 1 .. n
    BY <1>1, <1>2
  <2>2. m[j + 1] = l[j]
    BY <1>1, <2>1
  <2>3. QED
    BY <2>1, <2>2
<1>5. {m[i] : i \in (k + 2) .. (n + 1)} = {l[i] : i \in (k + 1) .. n}
  BY <1>3, <1>4
<1>6. QED
  BY <1>1, <1>2, <1>5 DEF m

LEMMA EvictingKept == CacheInv /\ [Next]_vars => Evicting'
<1> SUFFICES ASSUME CacheInv, [Next]_vars PROVE Evicting'
  OBVIOUS
<1>1. Evicting /\ Locked /\ CacheTypeOK /\ list \in Seq(Indexes)
  BY DEF CacheInv, CacheTypeOK
<1>2. ASSUME NEW q \in Requests, StillCounted(q), total'[q] = total[q], list' = list PROVE StillCounted(q)'
  <2>1. \A k : ListedFrom(k)' = ListedFrom(k)
    BY <1>2 DEF ListedFrom
  <2>2. QED
    BY <1>2, <2>1 DEF StillCounted
<1>3. ASSUME NEW q \in Requests, StillCounted(q), total'[q] = total[q],
             NEW x \in Indexes, list' = <<x>> \o list
      PROVE  StillCounted(q)'
  <2>1. PICK k \in 0 .. Len(list) : total[q] = SizeOf(ListedFrom(k + 1))
    BY <1>3 DEF StillCounted
  <2>2. k + 1 \in 0 .. Len(list') /\ k \in Nat
    BY <1>1, <1>3, <2>1, SameEnd
  <2>3. {list'[i] : i \in (k + 2) .. Len(list')} = ListedFrom(k + 1)
    <3>1. list \in Seq(Indexes) /\ x \in Indexes /\ k \in 0 .. Len(list) /\ list' = <<x>> \o list
      BY <1>1, <1>3, <2>1
    <3>2. {list'[i] : i \in (k + 2) .. Len(list')} = {list[i] : i \in (k + 1) .. Len(list)}
      BY <3>1, SameEnd
    <3>3. QED
      BY <3>2 DEF ListedFrom
  <2>4. (k + 1) + 1 = k + 2
    BY <2>2
  <2>5. ListedFrom((k + 1) + 1)' = ListedFrom(k + 1)
    BY <2>3, <2>4 DEF ListedFrom
  <2>6. total'[q] = SizeOf(ListedFrom((k + 1) + 1))'
    BY <1>3, <2>1, <2>5 DEF SizeOf
  <2>7. QED
    BY <2>2, <2>6 DEF StillCounted
<1>4. ASSUME NEW r \in Requests, Evict(r), pc'[r] = "evicting" PROVE StillCounted(r)'
  <2>1. pc[r] = "evict" /\ list' = list
    BY <1>4 DEF Evict, At, cached
  <2>2. SizeOf(Loaded) > MaxMemory
    BY <1>1, <1>4, <2>1 DEF Evict, AfterEviction, Goto, CacheTypeOK
  <2>3. total'[r] = SizeOf(Loaded)
    BY <1>1, <1>4, <2>2 DEF Evict, CacheTypeOK
  <2>4. ListedFrom(1) = Loaded /\ Len(list) \in Nat
    BY AllListed
  <2>5. ListedFrom(0 + 1)' = Loaded
    BY <2>1, <2>4 DEF ListedFrom
  <2>6. 0 \in 0 .. Len(list')
    BY <2>1, <2>4
  <2>7. total'[r] = SizeOf(ListedFrom(0 + 1))'
    BY <2>3, <2>5 DEF SizeOf
  <2>8. QED
    BY <2>6, <2>7 DEF StillCounted
<1>5. ASSUME NEW r \in Requests, EvictLast(r) PROVE StillCounted(r)'
  <2> DEFINE x == Last(list)  f == Front(list)  n == Len(list)
  <2>1. /\ x \in Loaded /\ n \in Nat \ {0} /\ list[n] = x
        /\ total' = [total EXCEPT ![r] = total[r] - Size[x]]
        /\ list' = <<x>> \o f \/ list' = f
    BY <1>5, Evictions
  <2>2. PICK k \in 0 .. (n - 1) : total[r] - Size[x] = SizeOf({list[i] : i \in (k + 1) .. (n - 1)})
    BY <1>5, EvictedIs
  <2>3. f \in Seq(Indexes) /\ Len(f) = n - 1 /\ \A i \in 1 .. (n - 1) : f[i] = list[i]
    BY <1>1, <2>1, WithoutLast
  <2>4. x \in Indexes
    BY <2>1 DEF Loaded
  <2> DEFINE rest == {list[i] : i \in (k + 1) .. (n - 1)}
  <2>5. total'[r] = SizeOf(rest)
    BY <1>1, <2>1, <2>2 DEF CacheTypeOK
  <2>6. {f[i] : i \in (k + 1) .. Len(f)} = rest
    <3>1. \A i \in (k + 1) .. (n - 1) : i \in 1 .. (n - 1)
      BY <2>1, <2>2
    <3>2. QED
      BY <2>3, <3>1
  <2>7. k \in 0 .. Len(f) /\ k \in Nat
    BY <2>1, <2>2, <2>3
  <2> HIDE DEF rest, f, x
  <2>8. CASE list' = f
    <3>1. ListedFrom(k + 1)' = rest
      BY <2>6, <2>8 DEF ListedFrom
    <3>2. total'[r] = SizeOf(ListedFrom(k + 1))'
      BY <2>5, <3>1 DEF SizeOf
    <3>3. QED
      BY <2>7, <2>8, <3>2 DEF StillCounted
  <2>9. CASE list' = <<x>> \o f
    <3>1. k + 1 \in 0 .. Len(list') /\ {list'[i] : i \in (k + 2) .. Len(list')} = {f[i] : i \in (k + 1) .. Len(f)}
      BY <2>3, <2>4, <2>7, <2>9, SameEnd
    <3>2. (k + 1) + 1 = k + 2
      BY <2>7
    <3>3. ListedFrom((k + 1) + 1)' = rest
      BY <2>6, <3>1, <3>2 DEF ListedFrom
    <3>4. total'[r] = SizeOf(ListedFrom((k + 1) + 1))'
      BY <2>5, <3>3 DEF SizeOf
    <3>5. QED
      BY <3>1, <3>4 DEF StillCounted
  <2>10. QED
    BY <2>1, <2>8, <2>9
<1>6. ASSUME NEW r \in Requests, Step(r) PROVE Evicting'
  <2>1. MovesOn(r)
    BY <1>6, StepMovesOn
  <2>2. ASSUME NEW q \in Requests, q # r, pc'[q] = "evicting" PROVE StillCounted(q)'
    <3>1. pc[q] = "evicting" /\ mapMutex = q
      BY <1>1, <2>1, <2>2 DEF MovesOn, Locked, Locking
    <3>2. StillCounted(q)
      BY <1>1, <3>1 DEF Evicting
    <3>3. ~Evict(r) /\ ~EvictLast(r) /\ ~Erase(r)
      BY <1>1, <2>2, <3>1 DEF Evict, EvictLast, Erase, At, Locked, Locking
    <3>4. total' = total
      BY <1>6, <3>3, SameTotal
    <3>5. CASE list' = list
      BY <1>2, <3>2, <3>4, <3>5
    <3>6. CASE list' # list
      <4>1. Load(r) \/ RestoreLoads(r) \/ CreatePublishes(r)
        BY <1>6, <3>3, <3>6, SameList
      <4>2. Index(r) \in Indexes /\ list' = <<Index(r)>> \o list
        BY <3>6, <4>1, Publications
      <4>3. QED
        BY <1>3, <3>2, <3>4, <4>2
    <3>7. QED
      BY <3>5, <3>6
  <2>3. ASSUME pc'[r] = "evicting" PROVE StillCounted(r)'
    BY <1>4, <1>5, <2>1, <2>3 DEF MovesOn
  <2>4. QED
    BY <2>2, <2>3 DEF Evicting
<1>7. CASE pc' = pc /\ list' = list /\ total' = total
  BY <1>1, <1>2, <1>7 DEF Evicting
<1>8. ASSUME NEW r \in Requests, NEW ask \in Asks, ask[1] = r, Begin(r, ask[2], ask[3])
      PROVE  Evicting'
  <2>1. /\ pc'[r] # "evicting" /\ total' = total /\ list' = list
        /\ \A q \in Requests \ {r} : pc'[q] = pc[q]
    BY <1>8, Begins DEF world, cached
  <2>2. QED
    BY <1>1, <1>2, <2>1 DEF Evicting
<1>9. CASE UNCHANGED vars
  BY <1>7, <1>9 DEF vars, own, world, cached
<1>10. ASSUME NEW r \in Requests, UseErased(r) PROVE Evicting'
  BY <1>7, <1>10 DEF UseErased, own, cached
<1>11. QED
  BY <1>6, <1>8, <1>9, <1>10 DEF Next, Rest

-------------------------------------------------------------------------------
(* The theorem.                                                            *)

LEMMA InitCacheInv == Init => CacheInv
<1> SUFFICES ASSUME Init PROVE CacheInv
  OBVIOUS
<1>1. MaxEntries \in Nat \ {0} /\ 0 \in 0 .. MaxEntries /\ 1 \in 0 .. MaxEntries
  BY IndexCacheAssumption
<1>2. {} \in Graphs /\ \A x \in Indexes : Logged[x] \in Graphs
  BY DEF Graphs, Writes
<1>3. \A r \in Requests : pc[r] = "idle"
  BY DEF Init
<1>4. pc \in [Requests -> Stages] /\ ref \in [Requests -> 0 .. MaxEntries] /\ records \in [Requests -> Graphs]
  BY <1>1, <1>2 DEF Init, Stages
<1>5. req \in [Requests -> [kind : Kinds \cup {"none"}, index : Indexes \cup {"none"}]]
  BY DEF Init
<1>6. total \in [Requests -> Nat] /\ opened \in [Requests -> 0 .. MaxEntries]
  BY <1>1 DEF Init
<1>7. indices \in [Indexes -> 0 .. MaxEntries] /\ made \in [Indexes -> 0 .. MaxEntries]
  BY <1>1 DEF Init
<1>8. dir \in [Indexes -> 0 .. MaxEntries] /\ dirs \in [Indexes -> 0 .. MaxEntries]
  BY <1>1 DEF Init
<1>9. entry \in [Indexes -> [Numbers -> Entries]]
  <2>1. Fresh({}, FALSE) \in Entries
    BY <1>2, FreshTyped
  <2>2. QED
    BY <2>1 DEF Init
<1>10. image \in [Indexes -> [Numbers -> [there : BOOLEAN, graph : Graphs]]]
  <2>1. \A b \in BOOLEAN : [NoImage EXCEPT !.there = b] \in [there : BOOLEAN, graph : Graphs]
    BY <1>2 DEF NoImage
  <2>2. QED
    BY <2>1 DEF Init
<1>11. log \in [Indexes -> [Numbers -> Graphs]]
  BY <1>2 DEF Init
<1>12. wal \in [Indexes -> [dir : 0 .. MaxEntries, count : Nat]]
  BY <1>1 DEF Init, NoWal
<1>13. acked \in [Indexes -> [0 .. MaxEntries -> Graphs]]
  <2>1. ASSUME NEW x \in Indexes, NEW n \in 0 .. MaxEntries PROVE (IF n = 0 THEN {} ELSE log[x][n]) \in Graphs
    <3>1. n # 0 => n \in Numbers
      BY <1>1 DEF Numbers
    <3>2. QED
      BY <1>2, <1>11, <3>1
  <2>2. QED
    BY <2>1 DEF Init
<1>14. list = <<>> /\ list \in Seq(Indexes) /\ mapMutex = NoRequest /\ meta \subseteq Indexes /\ undefined \in BOOLEAN
  <2>1. list = <<>> /\ mapMutex = NoRequest /\ meta \subseteq Indexes /\ undefined \in BOOLEAN
    BY IndexCacheAssumption DEF Init
  <2>2. QED
    BY <2>1, EmptySeq
<1>15. CacheTypeOK
  BY <1>4, <1>5, <1>6, <1>7, <1>8, <1>9, <1>10, <1>11, <1>12, <1>13, <1>14 DEF CacheTypeOK
<1>16. ListMatches
  <2>1. \A x \in Indexes : indices[x] = 0
    BY DEF Init
  <2>2. QED
    BY <1>14, <2>1 DEF ListMatches, Loaded
<1>17. Asked /\ Kinded /\ Locked /\ Publishing /\ Evicting
  BY <1>3 DEF Asked, Kinded, Locked, Locking, Publishing, Evicting
<1>18. QED
  BY <1>15, <1>16, <1>17 DEF CacheInv

\* The cache keeps its shape: the list of indices names exactly the indices in memory, each once,
\* and the sum of sizes an eviction works with never wraps, however lookups, loads, evictions,
\* creations, deletions and restores overlap, if whatever may be deleted is made by one request only.
THEOREM CacheKeepsShape == OneMaker => (Spec => []CacheShape)
<1> SUFFICES ASSUME OneMaker PROVE Spec => []CacheShape
  OBVIOUS
<1>1. CacheInv /\ [Next]_vars => CacheInv'
  BY TypesKept, ListKept, AskedKept, PublishingKept, EvictingKept DEF CacheInv
<1>2. CacheInv => CacheShape
  BY DEF CacheInv, CacheShape
<1>3. QED
  BY <1>1, <1>2, InitCacheInv, PTL DEF Spec

-------------------------------------------------------------------------------
(* What lasts: acknowledged writes, if no overlap that the code should     *)
(* exclude takes place.                                                    *)

\* A request is about an index; it has a good reference to the entry of one.
About(q, x) == pc[q] # "idle" /\ req[q].index = x

Uses(q, x) == About(q, x) /\ ref[q] # 0 /\ indices[x] = ref[q]

SaveStages == {"saveImage", "saveClear", "saveDone"}

\* Who recovers an entry he published, for a restore until it is answered.
Recovers(q) ==
  \/ pc[q] \in {"recover", "replay"}
  \/ pc[q] \in SaveStages /\ (mapMutex = q \/ req[q].kind = "restore")

Owner(q) == Recovers(q) \/ pc[q] = "answer"

\* Who has operation_mutex.
Holding(q) ==
  \/ pc[q] \in {"log", "link", "mark", "unlock"}
  \/ pc[q] \in SaveStages /\ mapMutex # q /\ req[q].kind # "restore"

Restores(q) == pc[q] \in {"restoreMeta", "restoreLoad"}

\* What an index has in memory, and in the directory at its path.
GraphOf(x) == entry[x][indices[x]].graph
UpdatedOf(x) == entry[x][indices[x]].updated
HolderOf(x) == entry[x][indices[x]].holder
ImageAt(x) == IF dir[x] = 0 THEN {} ELSE image[x][dir[x]].graph
AckedAt(x) == IF dir[x] = 0 THEN {} ELSE acked[x][dir[x]]

\* What a recovery has yet to put into the graph.
ToReplay(q, x) == IF pc[q] = "recover" THEN LogAt(x) ELSE IF pc[q] = "replay" THEN records[q] ELSE {}

Deletable(x) == \E d \in Requests : <<d, "delete", x>> \in Asks

\* What is not made yet is empty, and nobody has a reference to it.
Numbered(x) ==
  /\ indices[x] <= made[x] /\ dir[x] <= dirs[x] /\ wal[x].dir <= dirs[x]
  /\ \A n \in Numbers :
       /\ n > dirs[x] => log[x][n] = {} /\ acked[x][n] = {} /\ ~image[x][n].there
       /\ ~image[x][n].there => image[x][n].graph = {}
  /\ \A q \in Requests : About(q, x) => ref[q] <= made[x]

OneOwner(x) ==
  \A q, r \in Requests : Uses(q, x) /\ Owner(q) /\ Uses(r, x) /\ Owner(r) => q = r

Holders(x) == \A q \in Requests : Uses(q, x) /\ Holding(q) => HolderOf(x) = q

\* The number of records says whether there are any.
LogCounted(x) ==
  dir[x] # 0 => /\ wal[x].dir = 0 => LogAt(x) \subseteq AckedAt(x)
                /\ wal[x].dir # 0 /\ wal[x].count = 0 => LogAt(x) = {}

Grown(x) == indices[x] # 0 => ImageAt(x) \subseteq GraphOf(x)

\* A recovery finds in image and log what was acknowledged, and nobody saves before it has.
Reading(x) ==
  \A q \in Requests : Uses(q, x) /\ pc[q] \in {"recover", "replay"} =>
    /\ AckedAt(x) \subseteq GraphOf(x) \cup ToReplay(q, x)
    /\ \A s \in Requests : Uses(s, x) => pc[s] \notin {"saveClear", "saveDone"}

\* The log is cleared, and the entry is marked as saved, when the image has the graph.
Saving(x) ==
  \A q \in Requests : Uses(q, x) /\ pc[q] \in {"saveClear", "saveDone"} =>
    dir[x] = 0 \/ GraphOf(x) \subseteq ImageAt(x)

\* A write that was logged is in the log or in the image, and in whatever is saved next.
Writing(x) ==
  \A w \in Requests :
    Uses(w, x) /\ Holding(w) /\ pc[w] # "log" /\ req[w].kind = "write" /\ dir[x] # 0 =>
      /\ w \in ImageAt(x) \cup LogAt(x)
      /\ pc[w] # "link" => w \in GraphOf(x)
      /\ \A q \in Requests : Uses(q, x) /\ Recovers(q) => w \in GraphOf(x) \cup ToReplay(q, x)

\* A creation publishes an index that has nothing yet.
Opening(x) ==
  \A q \in Requests : About(q, x) /\ pc[q] = "publish" => AckedAt(x) = {} /\ ImageAt(x) = {}

\* A restored index has the backup.
Restoring(x) ==
  \A q \in Requests :
    /\ About(q, x) /\ Restores(q) => dir[x] # 0 \/ Deletable(x)
    /\ (About(q, x) /\ Restores(q)) \/ (Uses(q, x) /\ Owner(q) /\ req[q].kind = "restore") =>
         dir[x] = 0 \/ Backed \subseteq ImageAt(x)

\* What is not marked has been saved, but for a write that is about to mark it.
Clean(x) ==
  indices[x] # 0 /\ ~UpdatedOf(x) =>
    \/ dir[x] = 0 \/ GraphOf(x) \subseteq ImageAt(x)
    \/ \E h \in Requests : HolderOf(x) = h /\ About(h, x) /\ pc[h] = "mark"

Steady(x) ==
  /\ Numbered(x) /\ OneOwner(x) /\ Holders(x) /\ LogCounted(x) /\ Grown(x) /\ Reading(x)
  /\ Saving(x) /\ Writing(x) /\ Opening(x) /\ Restoring(x) /\ Clean(x)

\* Where a request may be.  A recovery that holds indices_mutex_ has the directory it began with.
Staged ==
  \A r \in Requests :
    /\ pc[r] = "idle" => ref[r] = 0
    /\ mapMutex = r => pc[r] \in Locking \cup {"recover", "replay"} \cup SaveStages
    /\ pc[r] = "replay" /\ req[r].kind # "restore" => mapMutex = r
    /\ mapMutex = r /\ pc[r] \in {"recover", "replay"} \cup SaveStages => dir[Index(r)] # 0
    /\ req[r].kind = "restore" =>
         /\ mapMutex # r
         /\ pc[r] \in {"idle", "askRestore", "copy", "restoreMeta", "restoreLoad", "recover", "replay",
                       "answer", "done"} \cup SaveStages
    /\ pc[r] = "answer" => req[r].kind = "restore"
    /\ pc[r] \in {"log", "link", "mark"} => req[r].kind = "write"

\* What is acknowledged of an index is on disk, and in memory but for a recovery.
Lasting(x) == AckedAt(x) \subseteq ImageAt(x) \cup LogAt(x)

ServedAt(x) == indices[x] # 0 /\ ~Recovering(x) => AckedAt(x) \subseteq GraphOf(x)

LastInv ==
  /\ CacheInv /\ \A x \in Indexes : Lasting(x) /\ ServedAt(x)
  /\ ~undefined => Staged /\ \A x \in Indexes : Steady(x)

LEMMA LastIs ==
  /\ Durable <=> \A x \in Indexes : Lasting(x)
  /\ Served <=> \A x \in Indexes : ServedAt(x)
<1>1. \A x \in Indexes : Lasting(x) <=>
        (dir[x] # 0 => acked[x][dir[x]] \subseteq image[x][dir[x]].graph \cup log[x][dir[x]])
  BY DEF Lasting, AckedAt, ImageAt, LogAt
<1>2. \A x \in Indexes : ServedAt(x) <=>
        (indices[x] # 0 /\ dir[x] # 0 /\ ~Recovering(x) => acked[x][dir[x]] \subseteq entry[x][indices[x]].graph)
  BY DEF ServedAt, AckedAt, GraphOf
<1>3. QED
  BY <1>1, <1>2 DEF Durable, Served

-------------------------------------------------------------------------------
(* What a step leaves alone.                                               *)

\* A request that somebody else's step leaves where it was.
Stays(q) ==
  /\ pc'[q] = pc[q] /\ req'[q] = req[q] /\ ref'[q] = ref[q] /\ records'[q] = records[q]
  /\ (mapMutex' = q) = (mapMutex = q)

LEMMA OthersStay ==
  ASSUME CacheInv, NEW r \in Requests, Step(r)
  PROVE  req' = req /\ \A q \in Requests \ {r} : Stays(q)
<1>1. MovesOn(r) /\ CacheTypeOK /\ NoRequest \notin Requests
  BY StepMovesOn, IndexCacheAssumption DEF CacheInv
<1>2. req' = req /\ \A q \in Requests \ {r} : pc'[q] = pc[q]
  BY <1>1 DEF MovesOn
<1>3. ref' = ref \/ \E n : ref' = [ref EXCEPT ![r] = n]
  BY Zenon DEF Step, GetStep, Find, LockMap, LoadFails, Load, ReadLog, RecoveryFails, Replay, Fetch, Evict,
       EvictEnds, EvictLast, SaveImage, SaveFails, SaveClear, SaveDone, LockOp, LogWrite, LogFails, Link,
       Mark, Unlock, Read, Autosave, CreateAsks, LockToEvict, CreateOpens, CreatePublishes,
       CreateStoresMeta, LockToErase, Erase, Move, RestoreAsks, RestoreCopies, RestoreFails, CopyBackup,
       RestoreStoresMeta, RestoreLoads, RestoreAnswers, own
<1>4. records' = records \/ \E n : records' = [records EXCEPT ![r] = n]
  BY DEF Step, GetStep, Find, LockMap, LoadFails, Load, ReadLog, RecoveryFails, Replay, Fetch, Evict,
       EvictEnds, EvictLast, SaveImage, SaveFails, SaveClear, SaveDone, LockOp, LogWrite, LogFails, Link,
       Mark, Unlock, Read, Autosave, CreateAsks, LockToEvict, CreateOpens, CreatePublishes,
       CreateStoresMeta, LockToErase, Erase, Move, RestoreAsks, RestoreCopies, RestoreFails, CopyBackup,
       RestoreStoresMeta, RestoreLoads, RestoreAnswers, own
<1>5. mapMutex' \in {mapMutex, r, NoRequest} /\ (mapMutex' # mapMutex => mapMutex \in {r, NoRequest})
  <2>1. mapMutex' = mapMutex \/ mapMutex = NoRequest \/ mapMutex = r
    BY <1>1 DEF MovesOn
  <2>2. mapMutex' \in {mapMutex, r, NoRequest}
    BY DEF Step, GetStep, Find, LockMap, LoadFails, Load, ReadLog, RecoveryFails, Replay, Fetch, Evict,
       EvictEnds, EvictLast, AfterEviction, SaveImage, SaveFails, SaveClear, SaveDone, LockOp, LogWrite, LogFails,
       Link, Mark, Unlock, Read, Autosave, CreateAsks, LockToEvict, CreateOpens, CreatePublishes,
       CreateStoresMeta, LockToErase, Erase, Move, RestoreAsks, RestoreCopies, RestoreFails, CopyBackup,
       RestoreStoresMeta, RestoreLoads, RestoreAnswers, own, world
  <2>3. QED
    BY <2>1, <2>2
<1>6. ASSUME NEW q \in Requests \ {r} PROVE Stays(q)
  <2>1. ref'[q] = ref[q] /\ records'[q] = records[q]
    BY <1>1, <1>3, <1>4 DEF CacheTypeOK
  <2>2. (mapMutex' = q) = (mapMutex = q)
    BY <1>1, <1>5
  <2>3. QED
    BY <1>2, <2>1, <2>2 DEF Stays
<1>7. QED
  BY <1>2, <1>6

\* Of a request that stays, all that is said of where it is stays true.
LEMMA StaysAs ==
  ASSUME NEW q \in Requests, Stays(q), NEW x
  PROVE  /\ About(q, x)' = About(q, x) /\ Recovers(q)' = Recovers(q) /\ Owner(q)' = Owner(q)
         /\ Holding(q)' = Holding(q) /\ Restores(q)' = Restores(q)
<1>1. /\ pc'[q] = pc[q] /\ req'[q] = req[q] /\ (mapMutex' = q) = (mapMutex = q)
  BY DEF Stays
<1>2. About(q, x)' = About(q, x) /\ Restores(q)' = Restores(q)
  BY <1>1 DEF About, Restores
<1>3. Recovers(q)' = Recovers(q)
  BY <1>1 DEF Recovers, SaveStages
<1>4. Holding(q)' = Holding(q)
  BY <1>1 DEF Holding, SaveStages
<1>5. Owner(q)' = Owner(q)
  BY <1>1, <1>3 DEF Owner
<1> QED
  BY <1>2, <1>3, <1>4, <1>5

\* The stages at which something is said of a request.
Loud == {"recover", "replay", "answer", "log", "link", "mark", "unlock", "publish"} \cup SaveStages

\* An index that is left as it is, or loses its entry, or its directory.
Left(x) ==
  /\ indices'[x] \in {indices[x], 0} /\ dir'[x] \in {dir[x], 0}
  /\ dir'[x] # dir[x] => Deletable(x)
  /\ entry'[x] = entry[x] /\ made'[x] = made[x] /\ dirs'[x] = dirs[x] /\ image'[x] = image[x]
  /\ log'[x] = log[x] /\ wal'[x] = wal[x] /\ acked'[x] = acked[x]

LEMMA LeftSteady ==
  ASSUME CacheInv, NEW x \in Indexes, Steady(x), Left(x),
         \A q \in Requests : About(q, x)' /\ pc'[q] \in Loud => Stays(q),
         \A q \in Requests : About(q, x)' /\ Restores(q)' => About(q, x) /\ Restores(q),
         \A q \in Requests : About(q, x)' => ref'[q] <= made[x],
         \A q \in Requests : pc[q] = "mark" /\ About(q, x) => pc'[q] = "mark" /\ About(q, x)'
  PROVE  Steady(x)'
<1>1. dir[x] \in Nat /\ dirs[x] \in Nat /\ indices[x] \in Nat /\ made[x] \in Nat
  BY IndexCacheAssumption DEF CacheInv, CacheTypeOK
<1>2. ASSUME NEW q \in Requests, Uses(q, x)', pc'[q] \in Loud
      PROVE  Stays(q) /\ Uses(q, x) /\ indices'[x] = indices[x]
  <2>1. About(q, x)' /\ ref'[q] # 0 /\ indices'[x] = ref'[q]
    BY <1>2 DEF Uses
  <2>2. Stays(q)
    BY <1>2, <2>1
  <2>3. QED
    BY <2>1, <2>2, StaysAs DEF Left, Uses, Stays
<1>3. ASSUME NEW q \in Requests PROVE /\ Recovers(q)' => pc'[q] \in Loud
                                      /\ Owner(q)' => pc'[q] \in Loud
                                      /\ Holding(q)' => pc'[q] \in Loud
  BY DEF Recovers, Owner, Holding, Loud
<1>4. /\ indices'[x] # 0 => /\ GraphOf(x)' = GraphOf(x) /\ UpdatedOf(x)' = UpdatedOf(x)
                            /\ HolderOf(x)' = HolderOf(x) /\ indices[x] # 0
      /\ dir'[x] # 0 => /\ ImageAt(x)' = ImageAt(x) /\ AckedAt(x)' = AckedAt(x) /\ LogAt(x)' = LogAt(x)
                        /\ dir[x] # 0
      /\ dir'[x] = 0 => ImageAt(x)' = {} /\ AckedAt(x)' = {} /\ LogAt(x)' = {}
  BY DEF Left, GraphOf, UpdatedOf, HolderOf, ImageAt, AckedAt, LogAt
<1>5. ASSUME NEW q \in Requests, Stays(q), dir'[x] # 0 PROVE ToReplay(q, x)' = ToReplay(q, x)
  BY <1>4, <1>5 DEF ToReplay, Stays
<1>6. Numbered(x)'
  BY <1>1 DEF Steady, Numbered, Left
<1>7. OneOwner(x)'
  BY <1>2, <1>3, StaysAs DEF Steady, OneOwner
<1>8. Holders(x)'
  <2>1. \A q \in Requests : Uses(q, x)' => indices'[x] # 0
    BY DEF Uses
  <2>2. QED
    BY <1>2, <1>3, <1>4, <2>1, StaysAs DEF Steady, Holders
<1>9. LogCounted(x)'
  BY <1>4 DEF Steady, LogCounted, Left
<1>10. Grown(x)'
  <2>1. CASE dir'[x] = 0
    BY <1>4, <2>1 DEF Grown
  <2>2. CASE dir'[x] # 0
    BY <1>4, <2>2 DEF Grown, Steady
  <2>3. QED
    BY <2>1, <2>2
<1>11. Reading(x)'
  <2> SUFFICES ASSUME NEW q \in Requests, Uses(q, x)', pc'[q] \in {"recover", "replay"}
               PROVE  /\ AckedAt(x)' \subseteq GraphOf(x)' \cup ToReplay(q, x)'
                      /\ \A s \in Requests : Uses(s, x)' => pc'[s] \notin {"saveClear", "saveDone"}
    BY DEF Reading
  <2>1. pc'[q] \in Loud /\ indices'[x] # 0
    BY DEF Loud, Uses
  <2>2. Stays(q) /\ Uses(q, x) /\ pc[q] \in {"recover", "replay"}
    BY <1>2, <2>1 DEF Stays
  <2>3. AckedAt(x)' \subseteq GraphOf(x)' \cup ToReplay(q, x)'
    <3>1. AckedAt(x) \subseteq GraphOf(x) \cup ToReplay(q, x)
      BY <2>2 DEF Steady, Reading
    <3>2. CASE dir'[x] = 0
      BY <1>4, <3>2
    <3>3. CASE dir'[x] # 0
      BY <1>4, <1>5, <2>1, <2>2, <3>1, <3>3
    <3>4. QED
      BY <3>2, <3>3
  <2>4. ASSUME NEW s \in Requests, Uses(s, x)', pc'[s] \in {"saveClear", "saveDone"} PROVE FALSE
    <3>1. pc'[s] \in Loud
      BY <2>4 DEF Loud, SaveStages
    <3>2. Uses(s, x) /\ pc[s] \in {"saveClear", "saveDone"}
      BY <1>2, <2>4, <3>1 DEF Stays
    <3>3. QED
      BY <2>2, <3>2 DEF Steady, Reading
  <2>5. QED
    BY <2>3, <2>4
<1>12. Saving(x)'
  <2> SUFFICES ASSUME NEW q \in Requests, Uses(q, x)', pc'[q] \in {"saveClear", "saveDone"}, dir'[x] # 0
               PROVE  GraphOf(x)' \subseteq ImageAt(x)'
    BY DEF Saving
  <2>1. pc'[q] \in Loud /\ indices'[x] # 0
    BY DEF Loud, Uses, SaveStages
  <2>2. Uses(q, x) /\ pc[q] \in {"saveClear", "saveDone"}
    BY <1>2, <2>1 DEF Stays
  <2>3. QED
    BY <1>4, <2>1, <2>2 DEF Steady, Saving
<1>13. Writing(x)'
  <2> SUFFICES ASSUME NEW w \in Requests, Uses(w, x)', Holding(w)', pc'[w] # "log", req'[w].kind = "write",
                      dir'[x] # 0
               PROVE  /\ w \in ImageAt(x)' \cup LogAt(x)'
                      /\ pc'[w] # "link" => w \in GraphOf(x)'
                      /\ \A q \in Requests : Uses(q, x)' /\ Recovers(q)' => w \in GraphOf(x)' \cup ToReplay(q, x)'
    BY DEF Writing
  <2>1. pc'[w] \in Loud /\ indices'[x] # 0
    BY <1>3 DEF Uses
  <2>2. Stays(w) /\ Uses(w, x) /\ Holding(w) /\ pc[w] = pc'[w] /\ req[w].kind = "write" /\ dir[x] # 0
    BY <1>2, <1>4, <2>1, StaysAs DEF Stays
  <2>3. /\ w \in ImageAt(x) \cup LogAt(x) /\ (pc[w] # "link" => w \in GraphOf(x))
        /\ \A q \in Requests : Uses(q, x) /\ Recovers(q) => w \in GraphOf(x) \cup ToReplay(q, x)
    BY <2>2 DEF Steady, Writing
  <2>4. ASSUME NEW q \in Requests, Uses(q, x)', Recovers(q)' PROVE w \in GraphOf(x)' \cup ToReplay(q, x)'
    BY <1>2, <1>3, <1>4, <1>5, <2>1, <2>3, <2>4, StaysAs
  <2>5. QED
    BY <1>4, <2>1, <2>2, <2>3, <2>4
<1>14. Opening(x)'
  <2> SUFFICES ASSUME NEW q \in Requests, About(q, x)', pc'[q] = "publish"
               PROVE  AckedAt(x)' = {} /\ ImageAt(x)' = {}
    BY DEF Opening
  <2>1. Stays(q)
    BY DEF Loud
  <2>2. About(q, x) /\ pc[q] = "publish"
    BY <2>1, StaysAs DEF Stays
  <2>3. QED
    BY <1>4, <2>2 DEF Steady, Opening
<1>15. Restoring(x)'
  <2>1. Deletable(x)' = Deletable(x)
    BY DEF Deletable
  <2>2. ASSUME NEW q \in Requests, About(q, x)', Restores(q)'
        PROVE  (dir'[x] # 0 \/ Deletable(x)) /\ (dir'[x] = 0 \/ Backed \subseteq ImageAt(x)')
    <3>2. About(q, x) /\ Restores(q)
      BY <2>2
    <3>3. (dir[x] # 0 \/ Deletable(x)) /\ (dir[x] = 0 \/ Backed \subseteq ImageAt(x))
      BY <3>2 DEF Steady, Restoring
    <3>4. QED
      BY <1>4, <3>3 DEF Left
  <2>3. ASSUME NEW q \in Requests, Uses(q, x)', Owner(q)', req'[q].kind = "restore"
        PROVE  dir'[x] = 0 \/ Backed \subseteq ImageAt(x)'
    <3>1. Stays(q) /\ Uses(q, x)
      BY <1>2, <1>3, <2>3
    <3>2. Owner(q) /\ req[q].kind = "restore"
      BY <2>3, <3>1, StaysAs DEF Stays
    <3>3. dir[x] = 0 \/ Backed \subseteq ImageAt(x)
      BY <3>1, <3>2 DEF Steady, Restoring
    <3>4. QED
      BY <1>4, <3>3
  <2>4. QED
    BY <2>1, <2>2, <2>3 DEF Restoring
<1>16. Clean(x)'
  <2> SUFFICES ASSUME indices'[x] # 0, ~UpdatedOf(x)', dir'[x] # 0, ~(GraphOf(x)' \subseteq ImageAt(x)')
               PROVE  \E h \in Requests : HolderOf(x)' = h /\ About(h, x)' /\ pc'[h] = "mark"
    BY DEF Clean
  <2>1. PICK h \in Requests : HolderOf(x) = h /\ About(h, x) /\ pc[h] = "mark"
    BY <1>4 DEF Steady, Clean
  <2>2. QED
    BY <1>4, <2>1
<1> QED
  BY <1>6, <1>7, <1>8, <1>9, <1>10, <1>11, <1>12, <1>13, <1>14, <1>15, <1>16 DEF Steady

-------------------------------------------------------------------------------
(* The steps of a request that has a good reference.                       *)

UsedStep(r) ==
  \/ ReadLog(r) \/ Replay(r) \/ SaveImage(r) \/ SaveFails(r) \/ SaveClear(r) \/ SaveDone(r)
  \/ LockOp(r) \/ LogWrite(r) \/ LogFails(r) \/ Link(r) \/ Mark(r) \/ Unlock(r) \/ RestoreAnswers(r)

\* From which stage to which.
LEMMA UsedStages ==
  ASSUME CacheInv, NEW r \in Requests
  PROVE  /\ ReadLog(r) => /\ pc[r] = "recover"
                          /\ \/ Wal(Index(r)).count = 0 /\ pc'[r] = Recovered(r) /\ records' = records
                             \/ /\ Wal(Index(r)).count # 0 /\ pc'[r] = "replay"
                                /\ records'[r] = LogAt(Index(r))
         /\ Replay(r) => pc[r] = "replay" /\ pc'[r] = "saveImage"
         /\ SaveImage(r) => /\ pc[r] = "saveImage"
                            /\ \/ Entry(r).updated /\ pc'[r] = "saveClear"
                               \/ /\ ~Entry(r).updated /\ pc'[r] # "saveClear"
                                  /\ AfterSave(r)
         /\ SaveFails(r) => pc[r] = "saveImage" /\ pc'[r] = "done"
         /\ SaveClear(r) => pc[r] = "saveClear" /\ pc'[r] = "saveDone"
         /\ SaveDone(r) => pc[r] = "saveDone" /\ AfterSave(r)
         /\ LockOp(r) => /\ pc[r] = "lockOp"
                         /\ pc'[r] = IF req[r].kind = "write" THEN "log" ELSE "saveImage"
         /\ LogWrite(r) => pc[r] = "log" /\ pc'[r] = "link"
         /\ LogFails(r) => pc[r] = "log" /\ pc'[r] = "done"
         /\ Link(r) => pc[r] = "link" /\ pc'[r] = "mark"
         /\ Mark(r) => pc[r] = "mark" /\ pc'[r] \in {"saveImage", "unlock"}
         /\ Unlock(r) => pc[r] = "unlock" /\ pc'[r] = "done"
         /\ RestoreAnswers(r) => pc[r] = "answer" /\ pc'[r] = "done"
         /\ AfterSave(r) =>
              \/ mapMutex = r /\ req[r].kind # "restore" /\ pc'[r] = "evict"
              \/ req[r].kind = "restore" /\ pc'[r] = "answer"
              \/ mapMutex # r /\ req[r].kind # "restore" /\ pc'[r] = "unlock"
         /\ Recovered(r) = IF req[r].kind = "restore" THEN "answer" ELSE "evict"
<1>1. pc \in [Requests -> Stages] /\ records \in [Requests -> Graphs]
  BY DEF CacheInv, CacheTypeOK
<1>2. ASSUME NEW s, Goto(r, s) PROVE pc'[r] = s
  BY <1>1, <1>2 DEF Goto
<1>3. ReadLog(r) => /\ pc[r] = "recover"
                    /\ \/ Wal(Index(r)).count = 0 /\ pc'[r] = Recovered(r) /\ records' = records
                       \/ /\ Wal(Index(r)).count # 0 /\ pc'[r] = "replay"
                          /\ records'[r] = LogAt(Index(r))
  BY <1>1, <1>2 DEF ReadLog, Using, At
<1>4. AfterSave(r) =>
        \/ mapMutex = r /\ req[r].kind # "restore" /\ pc'[r] = "evict"
        \/ req[r].kind = "restore" /\ pc'[r] = "answer"
        \/ mapMutex # r /\ req[r].kind # "restore" /\ pc'[r] = "unlock"
  BY <1>2 DEF AfterSave, Recovered
<1>5. /\ Replay(r) => pc[r] = "replay" /\ pc'[r] = "saveImage"
      /\ SaveFails(r) => pc[r] = "saveImage" /\ pc'[r] = "done"
      /\ SaveClear(r) => pc[r] = "saveClear" /\ pc'[r] = "saveDone"
      /\ SaveDone(r) => pc[r] = "saveDone" /\ AfterSave(r)
  BY <1>2 DEF Replay, SaveFails, SaveClear, SaveDone, Using, At
<1>6. SaveImage(r) => /\ pc[r] = "saveImage"
                      /\ \/ Entry(r).updated /\ pc'[r] = "saveClear"
                         \/ ~Entry(r).updated /\ pc'[r] # "saveClear" /\ AfterSave(r)
  BY <1>2, <1>4 DEF SaveImage, Using, At
<1>7. /\ LockOp(r) => pc[r] = "lockOp" /\ pc'[r] = IF req[r].kind = "write" THEN "log" ELSE "saveImage"
      /\ LogWrite(r) => pc[r] = "log" /\ pc'[r] = "link"
      /\ LogFails(r) => pc[r] = "log" /\ pc'[r] = "done"
      /\ Link(r) => pc[r] = "link" /\ pc'[r] = "mark"
      /\ Mark(r) => pc[r] = "mark" /\ pc'[r] \in {"saveImage", "unlock"}
      /\ Unlock(r) => pc[r] = "unlock" /\ pc'[r] = "done"
      /\ RestoreAnswers(r) => pc[r] = "answer" /\ pc'[r] = "done"
  BY <1>2 DEF LockOp, LogWrite, LogFails, Link, Mark, Unlock, RestoreAnswers, Using, At
<1>8. Recovered(r) = IF req[r].kind = "restore" THEN "answer" ELSE "evict"
  BY DEF Recovered
<1>9. QED
  BY <1>3, <1>4, <1>5, <1>6, <1>7, <1>8

LEMMA UsedFrame ==
  ASSUME CacheInv, NEW r \in Requests, UsedStep(r), NEW x, x = Index(r)
  PROVE  /\ x \in Indexes /\ ~undefined /\ ~undefined' /\ pc[r] # "idle" /\ pc'[r] \notin {"idle", "publish"}
         /\ ~Restores(r)'
         /\ UNCHANGED <<indices, made, dir, dirs, req, ref, mapMutex>>
         /\ Entry(r) = entry[x][indices[x]] /\ indices[x] \in Numbers
         /\ Uses(r, x) /\ About(r, x)
         /\ \A q \in Requests \ {r} : Stays(q)
         /\ \A q \in Requests : About(q, x)' = About(q, x) /\ Uses(q, x)' = Uses(q, x)
<1>1. pc[r] # "idle" /\ Live(r) /\ ~undefined
  BY DEF UsedStep, ReadLog, Replay, SaveImage, SaveFails, SaveClear, SaveDone, LockOp, LogWrite, LogFails, Link,
         Mark, Unlock, RestoreAnswers, Using, At
<1>2. Step(r)
  BY DEF UsedStep, Step, GetStep
<1>3. req' = req /\ \A q \in Requests \ {r} : Stays(q)
  BY <1>2, OthersStay
<1>4. UNCHANGED <<indices, made, dir, dirs, ref, mapMutex, undefined>>
  BY DEF UsedStep, ReadLog, Replay, SaveImage, SaveFails, SaveClear, SaveDone, LockOp, LogWrite, LogFails, Link,
         Mark, Unlock, RestoreAnswers, own, cached, disk
<1>5. pc'[r] \notin {"idle", "publish", "restoreMeta", "restoreLoad"}
  BY UsedStages DEF UsedStep
<1>6. x \in Indexes /\ Entry(r) = entry[x][indices[x]] /\ indices[x] \in Numbers
  BY <1>1, LiveEntry DEF Entry
<1>7. About(r, x) /\ Uses(r, x)
  BY <1>1 DEF About, Uses, Live, Index
<1>8. ASSUME NEW q \in Requests PROVE About(q, x)' = About(q, x) /\ Uses(q, x)' = Uses(q, x)
  <2>1. pc'[q] # "idle" <=> pc[q] # "idle"
    BY <1>1, <1>3, <1>5 DEF Stays
  <2>2. About(q, x)' = About(q, x)
    BY <1>3, <2>1 DEF About
  <2>3. QED
    BY <1>4, <2>2 DEF Uses
<1>9. QED
  BY <1>1, <1>3, <1>4, <1>5, <1>6, <1>7, <1>8 DEF Restores

\* What they do to the entry.
LEMMA UsedEntry ==
  ASSUME CacheInv, NEW r \in Requests, UsedStep(r), NEW x, x = Index(r)
  PROVE  /\ \/ GraphOf(x)' = GraphOf(x) /\ ~Replay(r) /\ ~Link(r)
            \/ Replay(r) /\ GraphOf(x)' = GraphOf(x) \cup records[r]
            \/ Link(r) /\ GraphOf(x)' = GraphOf(x) \cup {r}
         /\ \/ UpdatedOf(x)' = UpdatedOf(x) /\ ~Replay(r) /\ ~Mark(r) /\ ~SaveDone(r)
            \/ (Replay(r) \/ Mark(r)) /\ UpdatedOf(x)'
            \/ SaveDone(r) /\ ~UpdatedOf(x)'
         /\ \/ HolderOf(x)' = HolderOf(x) /\ ~LockOp(r)
            \/ LockOp(r) /\ HolderOf(x) = NoRequest /\ HolderOf(x)' = r
            \/ (LogFails(r) \/ Unlock(r)) /\ HolderOf(x)' = NoRequest
            \/ SaveFails(r) /\ HolderOf(x) = r /\ HolderOf(x)' = NoRequest
         /\ SaveFails(r) \/ (SaveImage(r) /\ pc'[r] = "saveClear") => UpdatedOf(x)
<1>1. /\ x \in Indexes /\ indices[x] \in Numbers /\ Entry(r) = entry[x][indices[x]] /\ indices' = indices
      /\ Uses(r, x)
  BY UsedFrame
<1>2. entry \in [Indexes -> [Numbers -> Entries]] /\ ref[r] = indices[x] /\ x = Index(r)
  BY <1>1 DEF CacheInv, CacheTypeOK, Uses
<1>3. Entry(r) \in Entries
  BY <1>1, <1>2
<1> DEFINE e == Entry(r)  f == entry'[x][indices[x]]
<1>4. /\ GraphOf(x) = e.graph /\ UpdatedOf(x) = e.updated /\ HolderOf(x) = e.holder
      /\ GraphOf(x)' = f.graph /\ UpdatedOf(x)' = f.updated /\ HolderOf(x)' = f.holder
  BY <1>1 DEF GraphOf, UpdatedOf, HolderOf
<1>5. ASSUME NEW g, SetEntry(r, g) PROVE f = g
  BY <1>1, <1>2, <1>5 DEF SetEntry
<1> HIDE DEF f
<1>8. CASE Replay(r)
  <2>0. f = [e EXCEPT !.graph = @ \cup records[r], !.updated = TRUE]
    BY <1>5, <1>8 DEF Replay
  <2>1. f.graph = e.graph \cup records[r] /\ f.updated = TRUE /\ f.holder = e.holder
    BY <1>3, <2>0 DEF Entries
  <2>2. ~Link(r) /\ ~Mark(r) /\ ~SaveDone(r) /\ ~LockOp(r) /\ ~SaveFails(r) /\ ~SaveImage(r)
    BY <1>8, UsedStages
  <2>3. QED
    BY <1>4, <1>8, <2>1, <2>2
<1>9. CASE SaveFails(r)
  <2>0. f = [e EXCEPT !.holder = IF @ = r THEN NoRequest ELSE @] /\ e.updated
    BY <1>5, <1>9 DEF SaveFails
  <2>1. /\ f.graph = e.graph /\ f.updated = e.updated /\ f.holder = (IF e.holder = r THEN NoRequest ELSE e.holder)
        /\ e.updated
    BY <1>3, <2>0 DEF Entries
  <2>2. ~Replay(r) /\ ~Link(r) /\ ~Mark(r) /\ ~SaveDone(r) /\ ~LockOp(r)
    BY <1>9, UsedStages
  <2>3. QED
    BY <1>4, <1>9, <2>1, <2>2
<1>10. CASE SaveDone(r)
  <2>0. f = [e EXCEPT !.updated = FALSE]
    BY <1>5, <1>10 DEF SaveDone
  <2>1. f.graph = e.graph /\ f.updated = FALSE /\ f.holder = e.holder
    BY <1>3, <2>0 DEF Entries
  <2>2. ~Replay(r) /\ ~Link(r) /\ ~Mark(r) /\ ~LockOp(r) /\ ~SaveFails(r) /\ ~SaveImage(r)
    BY <1>10, UsedStages
  <2>3. QED
    BY <1>4, <1>10, <2>1, <2>2
<1>11. CASE LockOp(r)
  <2>0. f = [e EXCEPT !.holder = r] /\ e.holder = NoRequest
    BY <1>5, <1>11 DEF LockOp
  <2>1. f.graph = e.graph /\ f.updated = e.updated /\ f.holder = r /\ e.holder = NoRequest
    BY <1>3, <2>0 DEF Entries
  <2>2. ~Replay(r) /\ ~Link(r) /\ ~Mark(r) /\ ~SaveDone(r) /\ ~SaveFails(r) /\ ~SaveImage(r)
    BY <1>11, UsedStages
  <2>3. QED
    BY <1>4, <1>11, <2>1, <2>2
<1>12. CASE LogFails(r) \/ Unlock(r)
  <2>0. f = [e EXCEPT !.holder = NoRequest]
    BY <1>5, <1>12 DEF LogFails, Unlock
  <2>1. f.graph = e.graph /\ f.updated = e.updated /\ f.holder = NoRequest
    BY <1>3, <2>0 DEF Entries
  <2>2. ~Replay(r) /\ ~Link(r) /\ ~Mark(r) /\ ~SaveDone(r) /\ ~SaveFails(r) /\ ~SaveImage(r) /\ ~LockOp(r)
    BY <1>12, UsedStages
  <2>3. QED
    BY <1>4, <1>12, <2>1, <2>2
<1>13. CASE Link(r)
  <2>0. f = [e EXCEPT !.graph = @ \cup {r}]
    BY <1>5, <1>13 DEF Link
  <2>1. f.graph = e.graph \cup {r} /\ f.updated = e.updated /\ f.holder = e.holder
    BY <1>3, <2>0 DEF Entries
  <2>2. ~Replay(r) /\ ~Mark(r) /\ ~SaveDone(r) /\ ~SaveFails(r) /\ ~SaveImage(r) /\ ~LockOp(r)
    BY <1>13, UsedStages
  <2>3. QED
    BY <1>4, <1>13, <2>1, <2>2
<1>14. CASE Mark(r)
  <2>0. f = [e EXCEPT !.updated = TRUE]
    BY <1>5, <1>14 DEF Mark
  <2>1. f.graph = e.graph /\ f.updated = TRUE /\ f.holder = e.holder
    BY <1>3, <2>0 DEF Entries
  <2>2. ~Replay(r) /\ ~Link(r) /\ ~SaveDone(r) /\ ~SaveFails(r) /\ ~SaveImage(r) /\ ~LockOp(r)
    BY <1>14, UsedStages
  <2>3. QED
    BY <1>4, <1>14, <2>1, <2>2
<1>15. CASE ReadLog(r) \/ SaveImage(r) \/ SaveClear(r) \/ LogWrite(r) \/ RestoreAnswers(r)
  <2>1. entry' = entry
    BY <1>15 DEF ReadLog, SaveImage, SaveClear, LogWrite, RestoreAnswers, cached
  <2>2. f = e
    BY <1>1, <2>1 DEF f, e
  <2>3. ~Replay(r) /\ ~Link(r) /\ ~Mark(r) /\ ~SaveDone(r) /\ ~SaveFails(r) /\ ~LockOp(r)
    BY <1>15, UsedStages
  <2>4. SaveImage(r) /\ pc'[r] = "saveClear" => e.updated
    BY UsedStages DEF e
  <2>5. QED
    BY <1>4, <2>2, <2>3, <2>4
<1>16. QED
  BY <1>8, <1>9, <1>10, <1>11, <1>12, <1>13, <1>14, <1>15 DEF UsedStep

\* What they do to the image.
LEMMA UsedImage ==
  ASSUME CacheInv, NEW r \in Requests, UsedStep(r), NEW x, x = Index(r)
  PROVE  \/ ImageAt(x)' = ImageAt(x) /\ image' = image /\ pc'[r] # "saveClear"
         \/ /\ SaveImage(r) /\ pc'[r] = "saveClear" /\ dir[x] # 0 /\ ImageAt(x)' = GraphOf(x)
            /\ \A n \in Numbers \ {dir[x]} : image'[x][n] = image[x][n]
            /\ image'[x][dir[x]].there
<1>1. /\ x \in Indexes /\ UNCHANGED <<dir, dirs, indices>> /\ Entry(r) = entry[x][indices[x]]
  BY UsedFrame
<1>2. /\ CacheTypeOK /\ dir[x] \in 0 .. MaxEntries /\ MaxEntries \in Nat /\ x = Index(r)
      /\ Wal(x) \in [dir : 0 .. MaxEntries, count : Nat]
  BY <1>1, DiskIs DEF CacheInv
<1>3. dir[x] # 0 => dir[x] \in Numbers
  BY <1>2 DEF Numbers
<1>4. CASE SaveImage(r) /\ Entry(r).updated
  <2>1. dir[x] # 0 /\ image' = [image EXCEPT ![x][dir[x]] = [there |-> TRUE, graph |-> Entry(r).graph]]
    BY <1>2, <1>4 DEF SaveImage
  <2>2. /\ image'[x][dir[x]] = [there |-> TRUE, graph |-> Entry(r).graph]
        /\ \A n \in Numbers \ {dir[x]} : image'[x][n] = image[x][n]
    BY <1>1, <1>2, <1>3, <2>1 DEF CacheTypeOK
  <2>3. ImageAt(x)' = GraphOf(x)
    BY <1>1, <2>1, <2>2 DEF ImageAt, GraphOf
  <2>4. pc'[r] = "saveClear"
    BY <1>4, UsedStages
  <2>5. QED
    BY <1>4, <2>1, <2>2, <2>3, <2>4
<1>5. CASE ~(SaveImage(r) /\ Entry(r).updated)
  <2>1. image' = image
    BY <1>5 DEF UsedStep, ReadLog, Replay, SaveImage, SaveFails, SaveClear, SaveDone, LockOp, LogWrite,
           LogFails, Link, Mark, Unlock, RestoreAnswers, disk
  <2>2. pc'[r] # "saveClear"
    BY <1>5, UsedStages DEF UsedStep
  <2>3. QED
    BY <1>1, <2>1, <2>2 DEF ImageAt
<1>6. QED
  BY <1>4, <1>5

\* To the log.
LEMMA UsedLogged ==
  ASSUME CacheInv, NEW r \in Requests, UsedStep(r), NEW x, x = Index(r)
  PROVE  \/ log' = log /\ LogAt(x)' = LogAt(x) /\ ~LogWrite(r) /\ (SaveClear(r) => dir[x] = 0)
         \/ /\ SaveClear(r) /\ dir[x] # 0 /\ LogAt(x)' = {}
            /\ \A n \in Numbers \ {dir[x]} : log'[x][n] = log[x][n]
         \/ /\ LogWrite(r) /\ \A n \in Numbers \ {Wal(x).dir} : log'[x][n] = log[x][n]
            /\ dir[x] # 0 => LogAt(x)' = IF Wal(x).dir = dir[x] THEN LogAt(x) \cup {r} ELSE LogAt(x)
            /\ dir[x] = 0 => LogAt(x)' = LogAt(x)
<1>1. /\ x \in Indexes /\ UNCHANGED <<dir, dirs, indices>> /\ Entry(r) = entry[x][indices[x]]
  BY UsedFrame
<1>2. /\ CacheTypeOK /\ dir[x] \in 0 .. MaxEntries /\ MaxEntries \in Nat /\ x = Index(r)
      /\ Wal(x) \in [dir : 0 .. MaxEntries, count : Nat]
  BY <1>1, DiskIs DEF CacheInv
<1>3. dir[x] # 0 => dir[x] \in Numbers
  BY <1>2 DEF Numbers
<1>4. CASE SaveClear(r) /\ dir[x] # 0
  <2>1. log' = [log EXCEPT ![x][dir[x]] = {}]
    BY <1>2, <1>4 DEF SaveClear
  <2>2. log'[x][dir[x]] = {} /\ \A n \in Numbers \ {dir[x]} : log'[x][n] = log[x][n]
    BY <1>1, <1>2, <1>3, <1>4, <2>1 DEF CacheTypeOK
  <2>3. QED
    BY <1>1, <1>4, <2>2 DEF LogAt
<1>5. CASE LogWrite(r)
  <2> DEFINE n == Wal(x).dir
  <2>1. log' = [log EXCEPT ![x][n] = @ \cup {r}]
    BY <1>2, <1>5 DEF LogWrite
  <2>2. n \in 0 .. MaxEntries
    BY <1>2
  <2> HIDE DEF n
  <2>3. \A m \in Numbers \ {n} : log'[x][m] = log[x][m]
    BY <1>1, <1>2, <2>1 DEF CacheTypeOK
  <2>4. n \in Numbers => log'[x][n] = log[x][n] \cup {r}
    BY <1>1, <1>2, <2>1 DEF CacheTypeOK
  <2>5. dir[x] = 0 => LogAt(x)' = LogAt(x)
    BY <1>1 DEF LogAt
  <2>6. dir[x] # 0 => LogAt(x)' = IF n = dir[x] THEN LogAt(x) \cup {r} ELSE LogAt(x)
    BY <1>1, <1>3, <2>3, <2>4 DEF LogAt
  <2>7. QED
    BY <1>5, <2>3, <2>5, <2>6 DEF n
<1>6. CASE ~LogWrite(r) /\ ~(SaveClear(r) /\ dir[x] # 0)
  <2>1. log' = log
    BY <1>2, <1>6 DEF UsedStep, ReadLog, Replay, SaveImage, SaveFails, SaveClear, SaveDone, LockOp, LogWrite,
           LogFails, Link, Mark, Unlock, RestoreAnswers, disk
  <2>2. QED
    BY <1>1, <1>6, <2>1 DEF LogAt
<1>7. QED
  BY <1>4, <1>5, <1>6

\* To what is open of the log.
LEMMA UsedWal ==
  ASSUME CacheInv, NEW r \in Requests, UsedStep(r), NEW x, x = Index(r)
  PROVE  \/ wal' = wal /\ ~ReadLog(r) /\ ~SaveClear(r) /\ ~LogWrite(r)
         \/ ReadLog(r) /\ wal'[x] = Wal(x)
         \/ SaveClear(r) /\ wal'[x].dir = (IF dir[x] = 0 THEN wal[x].dir ELSE dir[x]) /\ wal'[x].count = 0
         \/ LogWrite(r) /\ wal'[x].dir = Wal(x).dir /\ wal'[x].count = Wal(x).count + 1
<1>1. /\ x \in Indexes /\ UNCHANGED <<dir, dirs, indices>> /\ Entry(r) = entry[x][indices[x]]
  BY UsedFrame
<1>2. /\ CacheTypeOK /\ dir[x] \in 0 .. MaxEntries /\ MaxEntries \in Nat /\ x = Index(r)
      /\ Wal(x) \in [dir : 0 .. MaxEntries, count : Nat]
  BY <1>1, DiskIs DEF CacheInv
<1>3. dir[x] # 0 => dir[x] \in Numbers
  BY <1>2 DEF Numbers
<1>4. DOMAIN wal = Indexes
  BY <1>2 DEF CacheTypeOK
<1>5. CASE ReadLog(r)
  BY <1>1, <1>2, <1>4, <1>5 DEF ReadLog
<1>6. CASE SaveClear(r)
  BY <1>1, <1>2, <1>4, <1>6 DEF SaveClear
<1>7. CASE LogWrite(r)
  <2>1. wal'[x] = [Wal(x) EXCEPT !.count = @ + 1]
    BY <1>1, <1>2, <1>4, <1>7 DEF LogWrite
  <2>2. QED
    BY <1>2, <1>7, <2>1
<1>8. CASE ~ReadLog(r) /\ ~SaveClear(r) /\ ~LogWrite(r)
  <2>1. wal' = wal
    BY <1>8 DEF UsedStep, Replay, SaveImage, SaveFails, SaveDone, LockOp, LogFails, Link, Mark, Unlock,
           RestoreAnswers, disk
  <2>2. QED
    BY <1>8, <2>1
<1>9. QED
  BY <1>5, <1>6, <1>7, <1>8

\* To what is acknowledged.
LEMMA UsedAcked ==
  ASSUME CacheInv, NEW r \in Requests, UsedStep(r), NEW x, x = Index(r)
  PROVE  \/ acked' = acked /\ AckedAt(x)' = AckedAt(x)
         \/ /\ Unlock(r) /\ req[r].kind = "write" /\ \A n \in Numbers \ {dir[x]} : acked'[x][n] = acked[x][n]
            /\ AckedAt(x)' = IF dir[x] = 0 THEN {} ELSE AckedAt(x) \cup {r}
         \/ /\ RestoreAnswers(r) /\ \A n \in Numbers \ {dir[x]} : acked'[x][n] = acked[x][n]
            /\ AckedAt(x)' = IF dir[x] = 0 THEN {} ELSE AckedAt(x) \cup Backed
<1>1. /\ x \in Indexes /\ UNCHANGED <<dir, dirs, indices>> /\ Entry(r) = entry[x][indices[x]]
  BY UsedFrame
<1>2. /\ CacheTypeOK /\ dir[x] \in 0 .. MaxEntries /\ MaxEntries \in Nat /\ x = Index(r)
      /\ Wal(x) \in [dir : 0 .. MaxEntries, count : Nat]
  BY <1>1, DiskIs DEF CacheInv
<1>3. dir[x] # 0 => dir[x] \in Numbers
  BY <1>2 DEF Numbers
<1>4. DOMAIN acked = Indexes /\ DOMAIN acked[x] = 0 .. MaxEntries
  BY <1>1, <1>2 DEF CacheTypeOK
<1>5. ASSUME NEW S, acked' = [acked EXCEPT ![x][dir[x]] = @ \cup S]
      PROVE  /\ \A n \in Numbers \ {dir[x]} : acked'[x][n] = acked[x][n]
             /\ AckedAt(x)' = IF dir[x] = 0 THEN {} ELSE AckedAt(x) \cup S
  <2>1. \A n \in Numbers \ {dir[x]} : acked'[x][n] = acked[x][n]
    BY <1>1, <1>4, <1>5
  <2>2. acked'[x][dir[x]] = acked[x][dir[x]] \cup S
    BY <1>1, <1>2, <1>4, <1>5
  <2>3. QED
    BY <1>1, <2>1, <2>2 DEF AckedAt
<1>6. CASE Unlock(r) /\ req[r].kind = "write"
  <2>1. acked' = [acked EXCEPT ![x][dir[x]] = @ \cup {r}]
    BY <1>2, <1>6 DEF Unlock
  <2>2. QED
    BY <1>5, <1>6, <2>1
<1>7. CASE RestoreAnswers(r)
  <2>1. acked' = [acked EXCEPT ![x][dir[x]] = @ \cup Backed]
    BY <1>2, <1>7 DEF RestoreAnswers
  <2>2. QED
    BY <1>5, <1>7, <2>1
<1>8. CASE ~RestoreAnswers(r) /\ ~(Unlock(r) /\ req[r].kind = "write")
  <2>1. acked' = acked
    BY <1>8 DEF UsedStep, ReadLog, Replay, SaveImage, SaveFails, SaveClear, SaveDone, LockOp, LogWrite,
           LogFails, Link, Mark, Unlock, RestoreAnswers
  <2>2. QED
    BY <1>1, <2>1 DEF AckedAt
<1>9. QED
  BY <1>6, <1>7, <1>8

\* Nobody becomes the owner of an entry; operation_mutex is taken where it is free.
LEMMA UsedRoles ==
  ASSUME LastInv, NEW r \in Requests, UsedStep(r)
  PROVE  /\ Owner(r)' => Owner(r)
         /\ Recovers(r)' => Recovers(r)
         /\ Holding(r)' => Holding(r) \/ LockOp(r)
         /\ pc[r] \in {"log", "link", "mark", "unlock"} => Holding(r)
         /\ pc[r] \in SaveStages => Holding(r) \/ Recovers(r)
         /\ pc[r] \in SaveStages \cup {"recover", "replay", "answer"} /\ ~Holding(r) => Owner(r)
<1>1. CacheInv /\ Staged
  BY UsedFrame DEF LastInv
<1>2. req' = req /\ mapMutex' = mapMutex
  BY <1>1, UsedFrame
<1>3. LockOp(r) => mapMutex # r /\ req[r].kind # "restore"
  BY <1>1, UsedStages DEF Staged, Locking, SaveStages
<1>4. Mark(r) => mapMutex # r /\ req[r].kind # "restore"
  BY <1>1, UsedStages DEF Staged, Locking, SaveStages
<1>5. Recovers(r)' => Recovers(r)
  BY <1>1, <1>2, <1>3, <1>4, UsedStages DEF UsedStep, Recovers, SaveStages
<1>6. Owner(r)' => Owner(r)
  BY <1>1, <1>2, <1>5, UsedStages DEF UsedStep, Owner, Recovers, SaveStages
<1>7. Holding(r)' => Holding(r) \/ LockOp(r)
  <2>1. CASE Mark(r) \/ Link(r) \/ LogWrite(r) \/ LogFails(r) \/ Unlock(r)
    BY <1>1, <2>1, UsedStages DEF Holding
  <2>2. CASE ReadLog(r) \/ RestoreAnswers(r) \/ SaveFails(r)
    BY <1>1, <2>2, UsedStages DEF Holding, SaveStages
  <2>3. CASE Replay(r)
    <3>1. mapMutex = r \/ req[r].kind = "restore"
      BY <1>1, <2>3, UsedStages DEF Staged
    <3>2. QED
      BY <1>1, <1>2, <2>3, <3>1, UsedStages DEF Holding, SaveStages
  <2>4. CASE SaveImage(r) \/ SaveClear(r) \/ SaveDone(r)
    BY <1>1, <1>2, <2>4, UsedStages DEF Holding, SaveStages
  <2>5. QED
    BY <2>1, <2>2, <2>3, <2>4 DEF UsedStep
<1>8. /\ pc[r] \in {"log", "link", "mark", "unlock"} => Holding(r)
      /\ pc[r] \in SaveStages => Holding(r) \/ Recovers(r)
      /\ pc[r] \in SaveStages \cup {"recover", "replay", "answer"} /\ ~Holding(r) => Owner(r)
  BY DEF Holding, Recovers, Owner
<1>9. QED
  BY <1>5, <1>6, <1>7, <1>8

\* What the others say of the index.
LEMMA UsedOthers ==
  ASSUME LastInv, NEW r \in Requests, UsedStep(r), NEW x, x = Index(r), NEW q \in Requests \ {r}
  PROVE  /\ pc'[q] = pc[q] /\ req'[q] = req[q] /\ Uses(q, x)' = Uses(q, x) /\ About(q, x)' = About(q, x)
         /\ Recovers(q)' = Recovers(q) /\ Owner(q)' = Owner(q) /\ Holding(q)' = Holding(q)
         /\ Restores(q)' = Restores(q)
         /\ ToReplay(q, x)' = IF pc[q] = "recover" THEN LogAt(x)' ELSE ToReplay(q, x)
<1>1. Stays(q) /\ Uses(q, x)' = Uses(q, x)
  BY UsedFrame DEF LastInv
<1>2. QED
  BY <1>1, StaysAs DEF Stays, ToReplay

\* What is known of the index before.
LEMMA UsedBefore ==
  ASSUME LastInv, NEW r \in Requests, UsedStep(r), NEW x, x = Index(r)
  PROVE  /\ CacheInv /\ Staged /\ x \in Indexes /\ Lasting(x) /\ ServedAt(x)
         /\ Numbered(x) /\ OneOwner(x) /\ Holders(x) /\ LogCounted(x) /\ Grown(x) /\ Reading(x) /\ Saving(x)
         /\ Writing(x) /\ Opening(x) /\ Restoring(x) /\ Clean(x)
         /\ indices[x] # 0 /\ indices'[x] # 0 /\ dir'[x] = dir[x] /\ Uses(r, x) /\ ImageAt(x) \subseteq GraphOf(x)
<1>1. /\ x \in Indexes /\ ~undefined /\ CacheInv /\ indices[x] \in Numbers /\ indices' = indices /\ dir' = dir
      /\ Uses(r, x)
  BY UsedFrame DEF LastInv
<1>2. Staged /\ Steady(x) /\ Lasting(x) /\ ServedAt(x)
  BY <1>1 DEF LastInv
<1>3. indices[x] # 0
  BY <1>1 DEF Numbers
<1>4. QED
  BY <1>1, <1>2, <1>3 DEF Steady, Grown

LEMMA UsedNumbered ==
  ASSUME LastInv, NEW r \in Requests, UsedStep(r), NEW x, x = Index(r)
  PROVE  Numbered(x)'
<1>1. /\ Numbered(x) /\ CacheInv /\ x \in Indexes
      /\ UNCHANGED <<indices, made, dir, dirs, ref>> /\ \A q \in Requests : About(q, x)' = About(q, x)
  BY UsedBefore, UsedFrame
<1>2. /\ dir[x] \in Nat /\ dirs[x] \in Nat /\ dir[x] <= dirs[x] /\ wal[x].dir <= dirs[x]
      /\ Wal(x).dir <= dirs[x]
  BY <1>1, DiskIs DEF Numbered, CacheInv, Wal
<1>3. wal'[x].dir <= dirs[x]
  BY <1>1, <1>2, UsedWal
<1>4. ASSUME NEW n \in Numbers, n > dirs[x] PROVE log'[x][n] = log[x][n] /\ acked'[x][n] = acked[x][n] /\ image'[x][n] = image[x][n]
  <2>1. n # dir[x] /\ n # Wal(x).dir
    BY <1>1, <1>2, <1>4, IndexCacheAssumption DEF Numbers
  <2>2. QED
    BY <1>1, <2>1, UsedImage, UsedLogged, UsedAcked
<1>5. ASSUME NEW n \in Numbers, ~image'[x][n].there PROVE image'[x][n] = image[x][n]
  BY <1>1, <1>5, UsedImage
<1>6. QED
  BY <1>1, <1>2, <1>3, <1>4, <1>5 DEF Numbered

LEMMA UsedOwner ==
  ASSUME LastInv, NEW r \in Requests, UsedStep(r), NEW x, x = Index(r)
  PROVE  OneOwner(x)'
<1>1. OneOwner(x) /\ \A q \in Requests : Uses(q, x)' = Uses(q, x)
  BY UsedBefore, UsedFrame
<1>2. \A q \in Requests : Owner(q)' => Owner(q)
  BY UsedRoles, UsedOthers
<1>3. QED
  BY <1>1, <1>2 DEF OneOwner

LEMMA UsedHolders ==
  ASSUME LastInv, NEW r \in Requests, UsedStep(r), NEW x, x = Index(r)
  PROVE  Holders(x)'
<1>1. Holders(x) /\ CacheInv /\ \A q \in Requests : Uses(q, x)' = Uses(q, x)
  BY UsedBefore, UsedFrame
<1>2. Uses(r, x)
  BY UsedBefore
<1> SUFFICES ASSUME NEW q \in Requests, Uses(q, x)', Holding(q)' PROVE HolderOf(x)' = q
  BY DEF Holders
<1>3. CASE q = r
  <2>1. Holding(r) \/ LockOp(r)
    BY <1>3, UsedRoles
  <2>2. ~LogFails(r) /\ ~Unlock(r) /\ ~SaveFails(r)
    BY <1>1, <1>3, UsedStages DEF Holding, SaveStages
  <2>3. HolderOf(x)' = HolderOf(x) \/ HolderOf(x)' = r
    BY <1>1, <2>2, UsedEntry
  <2>4. LockOp(r) => HolderOf(x)' = r
    BY <1>1, <2>2, UsedEntry
  <2>5. QED
    BY <1>1, <1>2, <1>3, <2>1, <2>3, <2>4 DEF Holders
<1>4. CASE q # r
  <2>1. HolderOf(x) = q
    BY <1>1, <1>4, UsedOthers DEF Holders
  <2>2. ~(Holding(r) /\ HolderOf(x) # r)
    BY <1>1, <1>2 DEF Holders
  <2>3. ~LogFails(r) /\ ~Unlock(r)
    BY <1>1, <1>4, <2>1, <2>2, UsedStages, UsedRoles
  <2>4. QED
    BY <1>1, <1>4, <2>1, <2>3, UsedEntry, IndexCacheAssumption
<1>5. QED
  BY <1>3, <1>4

LEMMA UsedLog ==
  ASSUME LastInv, NEW r \in Requests, UsedStep(r), NEW x, x = Index(r)
  PROVE  LogCounted(x)'
<1>1. LogCounted(x) /\ CacheInv /\ dir'[x] = dir[x] /\ x \in Indexes /\ CacheTypeOK
  BY UsedBefore DEF CacheInv
<1> SUFFICES ASSUME dir[x] # 0
             PROVE  /\ wal'[x].dir = 0 => LogAt(x)' \subseteq AckedAt(x)'
                    /\ wal'[x].dir # 0 /\ wal'[x].count = 0 => LogAt(x)' = {}
  BY <1>1 DEF LogCounted
<1>2. AckedAt(x) \subseteq AckedAt(x)'
  BY <1>1, UsedAcked
<1>3. Wal(x).dir # 0 /\ (Wal(x).count = 0 => LogAt(x) = {}) /\ Wal(x).count \in Nat
  BY <1>1, DiskIs DEF Wal, LogCounted, LogAt
<1>4. CASE wal' = wal /\ ~ReadLog(r) /\ ~SaveClear(r) /\ ~LogWrite(r)
  BY <1>1, <1>2, <1>4, UsedLogged, UsedWal DEF LogCounted
<1>5. CASE ReadLog(r)
  <2>1. wal'[x] = Wal(x) /\ LogAt(x)' = LogAt(x)
    <3>1. ~SaveClear(r) /\ ~LogWrite(r)
      BY <1>1, <1>5, UsedStages
    <3>2. QED
      BY <1>1, <1>5, <3>1, UsedLogged, UsedWal
  <2>2. QED
    BY <1>3, <2>1
<1>6. CASE SaveClear(r)
  <2>1. ~ReadLog(r) /\ ~LogWrite(r)
    BY <1>1, <1>6, UsedStages
  <2>2. LogAt(x)' = {} /\ wal'[x].dir = dir[x]
    BY <1>1, <1>6, <2>1, UsedLogged, UsedWal
  <2>3. QED
    BY <2>2
<1>7. CASE LogWrite(r)
  <2>1. ~ReadLog(r) /\ ~SaveClear(r)
    BY <1>1, <1>7, UsedStages
  <2>2. wal'[x].dir = Wal(x).dir /\ wal'[x].count = Wal(x).count + 1
    BY <1>1, <1>7, <2>1, UsedWal
  <2>3. QED
    BY <1>3, <2>2
<1>8. QED
  BY <1>1, <1>4, <1>5, <1>6, <1>7, UsedWal

LEMMA UsedGrown ==
  ASSUME LastInv, NEW r \in Requests, UsedStep(r), NEW x, x = Index(r)
  PROVE  /\ Grown(x)' /\ GraphOf(x) \subseteq GraphOf(x)' /\ ImageAt(x) \subseteq ImageAt(x)'
         /\ ImageAt(x)' \subseteq GraphOf(x)'
<1>1. CacheInv /\ ImageAt(x) \subseteq GraphOf(x)
  BY UsedBefore
<1>2. GraphOf(x) \subseteq GraphOf(x)'
  BY <1>1, UsedEntry
<1>3. ImageAt(x)' = ImageAt(x) \/ ImageAt(x)' = GraphOf(x)
  BY <1>1, UsedImage
<1>4. QED
  BY <1>1, <1>2, <1>3 DEF Grown

\* What a write has done when it is acknowledged.
LEMMA UnlockIs ==
  ASSUME LastInv, NEW r \in Requests, Unlock(r), req[r].kind = "write", NEW x, x = Index(r), dir[x] # 0
  PROVE  /\ r \in ImageAt(x) \cup LogAt(x) /\ r \in GraphOf(x)
         /\ \A q \in Requests : Uses(q, x) /\ Recovers(q) => r \in GraphOf(x) \cup ToReplay(q, x)
<1>1. UsedStep(r)
  BY DEF UsedStep
<1>2. Writing(x) /\ Uses(r, x) /\ CacheInv
  BY <1>1, UsedBefore
<1>3. pc[r] = "unlock" /\ Holding(r)
  BY <1>2, UsedStages DEF Holding
<1>4. QED
  BY <1>2, <1>3 DEF Writing

\* Who begins a save does so when no recovery is before its replay.
LEMMA SaveAlone ==
  ASSUME LastInv, Undisturbed, NEW r \in Requests, SaveImage(r), pc'[r] = "saveClear", NEW x, x = Index(r),
         NEW q \in Requests, Uses(q, x), pc[q] \in {"recover", "replay"}
  PROVE  FALSE
<1>1. UsedStep(r)
  BY DEF UsedStep
<1>2. CacheInv /\ Uses(r, x) /\ Entry(r) = entry[x][indices[x]]
  BY <1>1, UsedFrame DEF LastInv
<1>3. pc[r] = "saveImage" /\ Entry(r).updated
  BY <1>2, UsedStages
<1>4. Live(q) /\ Live(r) /\ Index(q) = Index(r)
  BY <1>2 DEF Uses, About, Live, Index
<1>5. QED
  BY <1>3, <1>4 DEF Undisturbed, RecoveryAlone

LEMMA UsedReading ==
  ASSUME LastInv, Undisturbed, NEW r \in Requests, UsedStep(r), NEW x, x = Index(r)
  PROVE  Reading(x)'
<1>1. /\ Reading(x) /\ CacheInv /\ OneOwner(x) /\ Uses(r, x)
      /\ \A q \in Requests : Uses(q, x)' = Uses(q, x)
  BY UsedBefore, UsedFrame
<1>2. GraphOf(x) \subseteq GraphOf(x)'
  BY UsedGrown
<1> SUFFICES ASSUME NEW q \in Requests, Uses(q, x)', pc'[q] \in {"recover", "replay"}
             PROVE  /\ AckedAt(x)' \subseteq GraphOf(x)' \cup ToReplay(q, x)'
                    /\ \A s \in Requests : Uses(s, x)' => pc'[s] \notin {"saveClear", "saveDone"}
  BY DEF Reading
<1>3. Uses(q, x) /\ pc[q] \in {"recover", "replay"}
  <2>1. CASE q = r
    BY <1>1, <2>1, UsedStages DEF UsedStep
  <2>2. CASE q # r
    BY <1>1, <2>2, UsedOthers
  <2>3. QED
    BY <2>1, <2>2
<1>4. /\ AckedAt(x) \subseteq GraphOf(x) \cup ToReplay(q, x)
      /\ \A s \in Requests : Uses(s, x) => pc[s] \notin {"saveClear", "saveDone"}
  BY <1>1, <1>3 DEF Reading
<1>5. ASSUME NEW s \in Requests, Uses(s, x)', pc'[s] \in {"saveClear", "saveDone"} PROVE FALSE
  <2>1. CASE s # r
    BY <1>1, <1>4, <1>5, <2>1, UsedOthers
  <2>2. CASE s = r
    <3>1. pc[r] \notin {"saveClear", "saveDone"}
      BY <1>1, <1>4
    <3>2. SaveImage(r) /\ pc'[r] = "saveClear"
      BY <1>1, <1>5, <2>2, <3>1, UsedStages DEF UsedStep
    <3>3. QED
      BY <1>3, <3>2, SaveAlone
  <2>3. QED
    BY <2>1, <2>2
<1>6. ToReplay(q, x) \subseteq ToReplay(q, x)'
  <2>1. ~SaveClear(r)
    BY <1>1, <1>4, UsedStages
  <2>2. LogAt(x) \subseteq LogAt(x)'
    BY <1>1, <2>1, UsedLogged
  <2>3. CASE q # r
    BY <2>2, <2>3, UsedOthers DEF ToReplay
  <2>4. CASE q = r
    <3>1. ReadLog(r) /\ pc[r] = "recover" /\ pc'[r] = "replay" /\ records'[r] = LogAt(x)
      BY <1>1, <2>4, UsedStages DEF UsedStep
    <3>2. QED
      BY <2>4, <3>1 DEF ToReplay
  <2>5. QED
    BY <2>3, <2>4
<1>7. AckedAt(x)' \subseteq GraphOf(x)' \cup ToReplay(q, x)'
  <2>1. CASE AckedAt(x)' = AckedAt(x) \/ AckedAt(x)' = {}
    BY <1>2, <1>4, <1>6, <2>1
  <2>2. CASE Unlock(r) /\ req[r].kind = "write" /\ dir[x] # 0 /\ AckedAt(x)' = AckedAt(x) \cup {r}
    <3>1. r \in GraphOf(x)
      BY <2>2, UnlockIs
    <3>2. QED
      BY <1>2, <1>4, <1>6, <2>2, <3>1
  <2>3. CASE RestoreAnswers(r)
    <3>1. q = r
      BY <1>1, <1>3, <2>3, UsedStages DEF OneOwner, Owner, Recovers
    <3>2. QED
      BY <1>1, <1>3, <2>3, <3>1, UsedStages
  <2>4. QED
    BY <1>1, <2>1, <2>2, <2>3, UsedAcked
<1>8. QED
  BY <1>5, <1>7

\* A write that links while a save has the image has linked before: its save is a recovery's.
LEMMA LinkedBefore ==
  ASSUME LastInv, NEW r \in Requests, Link(r), NEW x, x = Index(r), dir[x] # 0,
         NEW q \in Requests \ {r}, Uses(q, x), pc[q] \in {"saveClear", "saveDone"}
  PROVE  r \in GraphOf(x)
<1>1. UsedStep(r)
  BY DEF UsedStep
<1>2. Writing(x) /\ Holders(x) /\ Uses(r, x) /\ CacheInv /\ Staged
  BY <1>1, UsedBefore
<1>3. pc[r] = "link" /\ Holding(r) /\ req[r].kind = "write"
  BY <1>2, UsedStages DEF Holding, Staged
<1>4. ~Holding(q)
  BY <1>2, <1>3 DEF Holders
<1>5. Recovers(q) /\ ToReplay(q, x) = {}
  BY <1>4 DEF Holding, Recovers, SaveStages, ToReplay
<1>6. QED
  BY <1>2, <1>3, <1>5 DEF Writing

LEMMA UsedSaving ==
  ASSUME LastInv, NEW r \in Requests, UsedStep(r), NEW x, x = Index(r)
  PROVE  Saving(x)'
<1>1. /\ Saving(x) /\ Reading(x) /\ CacheInv /\ Uses(r, x) /\ dir'[x] = dir[x]
      /\ \A q \in Requests : Uses(q, x)' = Uses(q, x)
  BY UsedBefore, UsedFrame
<1>2. ImageAt(x) \subseteq ImageAt(x)'
  BY UsedGrown
<1> SUFFICES ASSUME NEW q \in Requests, Uses(q, x)', pc'[q] \in {"saveClear", "saveDone"}, dir[x] # 0
             PROVE  GraphOf(x)' \subseteq ImageAt(x)'
  BY <1>1 DEF Saving
<1>3. CASE SaveImage(r) /\ pc'[r] = "saveClear"
  <2>1. GraphOf(x)' = GraphOf(x)
    BY <1>1, <1>3, UsedEntry, UsedStages
  <2>2. ImageAt(x)' = GraphOf(x)
    BY <1>1, <1>3, UsedImage
  <2>3. QED
    BY <2>1, <2>2
<1>4. CASE ~(SaveImage(r) /\ pc'[r] = "saveClear")
  <2>1. Uses(q, x) /\ pc[q] \in {"saveClear", "saveDone"} /\ (q = r => SaveClear(r))
    <3>1. CASE q = r
      BY <1>1, <1>4, <3>1, UsedStages DEF UsedStep
    <3>2. CASE q # r
      BY <1>1, <3>2, UsedOthers
    <3>3. QED
      BY <3>1, <3>2
  <2>2. GraphOf(x) \subseteq ImageAt(x)
    BY <1>1, <2>1 DEF Saving
  <2>3. ~Replay(r)
    BY <1>1, <2>1, UsedStages DEF Reading
  <2>4. CASE Link(r)
    <3>1. q # r
      BY <1>1, <2>1, <2>4, UsedStages
    <3>2. r \in GraphOf(x)
      BY <2>1, <2>4, <3>1, LinkedBefore
    <3>3. GraphOf(x)' = GraphOf(x)
      BY <1>1, <2>3, <3>2, UsedEntry
    <3>4. QED
      BY <1>2, <2>2, <3>3
  <2>5. CASE ~Link(r)
    <3>1. GraphOf(x)' = GraphOf(x)
      BY <1>1, <2>3, <2>5, UsedEntry
    <3>2. QED
      BY <1>2, <2>2, <3>1
  <2>6. QED
    BY <2>4, <2>5
<1>5. QED
  BY <1>3, <1>4

\* What a writer has logged stays in image or log.
LEMMA WrittenStays ==
  ASSUME LastInv, NEW r \in Requests, UsedStep(r), NEW x, x = Index(r), dir[x] # 0,
         NEW w \in Requests, Uses(w, x), Holding(w), pc[w] # "log", req[w].kind = "write",
         SaveClear(r) => pc[w] # "link" \/ w # r
  PROVE  /\ w \in ImageAt(x)' \cup LogAt(x)'
         /\ pc[w] # "link" => w \in GraphOf(x)'
<1>1. Writing(x) /\ Saving(x) /\ Holders(x) /\ Uses(r, x) /\ CacheInv
  BY UsedBefore
<1>2. /\ w \in ImageAt(x) \cup LogAt(x) /\ (pc[w] # "link" => w \in GraphOf(x))
      /\ \A q \in Requests : Uses(q, x) /\ Recovers(q) => w \in GraphOf(x) \cup ToReplay(q, x)
  BY <1>1 DEF Writing
<1>3. ImageAt(x) \subseteq ImageAt(x)' /\ GraphOf(x) \subseteq GraphOf(x)'
  BY UsedGrown
<1>4. CASE SaveClear(r)
  <2>1. pc[r] = "saveClear" /\ GraphOf(x) \subseteq ImageAt(x)
    BY <1>1, <1>4, UsedStages DEF Saving
  <2>2. w \in GraphOf(x)
    <3>1. CASE w = r
      BY <1>2, <1>4, <3>1
    <3>2. CASE w # r
      <4>1. ~Holding(r)
        BY <1>1, <3>2 DEF Holders
      <4>2. Recovers(r) /\ ToReplay(r, x) = {}
        BY <2>1, <4>1 DEF Holding, Recovers, SaveStages, ToReplay
      <4>3. QED
        BY <1>1, <1>2, <4>2
    <3>3. QED
      BY <3>1, <3>2
  <2>3. QED
    BY <1>2, <1>3, <2>1, <2>2
<1>5. CASE ~SaveClear(r)
  <2>1. LogAt(x) \subseteq LogAt(x)'
    BY <1>1, <1>5, UsedLogged
  <2>2. QED
    BY <1>2, <1>3, <2>1
<1>6. QED
  BY <1>4, <1>5

\* What a writer has logged a recovery finds or has found.
LEMMA WrittenFound ==
  ASSUME LastInv, NEW r \in Requests, UsedStep(r), NEW x, x = Index(r), dir[x] # 0,
         NEW w \in Requests, Uses(w, x), Holding(w), pc[w] # "log", req[w].kind = "write",
         NEW q \in Requests, Uses(q, x), Recovers(q)'
  PROVE  w \in GraphOf(x)' \cup ToReplay(q, x)'
<1>1. Writing(x) /\ OneOwner(x) /\ Reading(x) /\ Uses(r, x) /\ CacheInv
  BY UsedBefore
<1>2. Recovers(q)
  BY UsedRoles, UsedOthers
<1>3. w \in GraphOf(x) \cup ToReplay(q, x)
  BY <1>1, <1>2 DEF Writing
<1>4. GraphOf(x) \subseteq GraphOf(x)'
  BY UsedGrown
<1>5. CASE q # r
  <2>1. pc[q] = "recover" => LogAt(x) \subseteq LogAt(x)'
    <3>1. pc[q] = "recover" => ~SaveClear(r)
      BY <1>1, UsedStages DEF Reading
    <3>2. QED
      BY <1>1, <3>1, UsedLogged
  <2>2. ToReplay(q, x) \subseteq ToReplay(q, x)'
    BY <1>5, <2>1, UsedOthers DEF ToReplay
  <2>3. QED
    BY <1>3, <1>4, <2>2
<1>6. CASE q = r
  <2>1. CASE ReadLog(r)
    <3>1. pc'[r] = "replay" /\ records'[r] = LogAt(x) /\ pc[r] = "recover"
      BY <1>1, <1>6, <2>1, UsedStages DEF Recovers, SaveStages
    <3>2. ToReplay(r, x)' = ToReplay(r, x)
      BY <3>1 DEF ToReplay
    <3>3. QED
      BY <1>3, <1>4, <1>6, <3>2
  <2>2. CASE Replay(r)
    <3>1. pc[r] = "replay" /\ ToReplay(r, x) = records[r]
      BY <1>1, <2>2, UsedStages DEF ToReplay
    <3>2. GraphOf(x)' = GraphOf(x) \cup records[r]
      BY <1>1, <2>2, <3>1, UsedEntry, UsedStages
    <3>3. QED
      BY <1>3, <1>6, <3>1, <3>2
  <2>3. CASE ~ReadLog(r) /\ ~Replay(r)
    <3>1. pc[r] \notin {"recover", "replay"}
      BY <1>1, <2>3, UsedStages DEF UsedStep
    <3>2. ToReplay(r, x) = {}
      BY <3>1 DEF ToReplay
    <3>3. QED
      BY <1>3, <1>4, <1>6, <3>2
  <2>4. QED
    BY <2>1, <2>2, <2>3
<1>7. QED
  BY <1>5, <1>6

\* A write that is logged now is in the log that the index has, and that a recovery will read.
LEMMA LogsThere ==
  ASSUME LastInv, Undisturbed, NEW r \in Requests, LogWrite(r), NEW x, x = Index(r), dir[x] # 0
  PROVE  /\ r \in LogAt(x)'
         /\ \A q \in Requests : Uses(q, x) /\ Recovers(q)' => r \in ToReplay(q, x)'
<1>1. UsedStep(r)
  BY DEF UsedStep
<1>2. Uses(r, x) /\ CacheInv /\ pc[r] = "log" /\ pc'[r] = "link"
  BY <1>1, UsedBefore, UsedStages
<1>3. Live(r) /\ Index(r) = x
  BY <1>2 DEF Uses, About, Live, Index
<1>4. Wal(x).dir = dir[x]
  BY <1>2, <1>3 DEF Undisturbed, LogOfDirectory
<1>5. r \in LogAt(x)'
  <2>1. ~SaveClear(r)
    BY <1>2, UsedStages
  <2>2. QED
    BY <1>1, <1>2, <1>4, <2>1, UsedLogged
<1>6. ASSUME NEW q \in Requests, Uses(q, x), Recovers(q)' PROVE r \in ToReplay(q, x)'
  <2>1. q # r
    BY <1>2, <1>6 DEF Recovers, SaveStages
  <2>2. Recovers(q)
    BY <1>1, <1>6, <2>1, UsedOthers
  <2>3. Live(q) /\ Index(q) = x
    BY <1>2, <1>6 DEF Uses, About, Live, Index
  <2>4. ~Replaying(q)
    BY <1>2, <1>3, <2>3 DEF Undisturbed, RecoveryAlone
  <2>5. pc[q] = "recover"
    BY <2>2, <2>3, <2>4 DEF Recovers, Replaying, SaveStages
  <2>6. QED
    BY <1>1, <1>5, <2>1, <2>5, UsedOthers
<1>7. QED
  BY <1>5, <1>6

LEMMA UsedWriting ==
  ASSUME LastInv, Undisturbed, NEW r \in Requests, UsedStep(r), NEW x, x = Index(r)
  PROVE  Writing(x)'
<1>1. /\ CacheInv /\ Uses(r, x) /\ dir'[x] = dir[x] /\ req' = req /\ Staged
      /\ \A q \in Requests : Uses(q, x)' = Uses(q, x)
  BY UsedBefore, UsedFrame
<1> SUFFICES ASSUME NEW w \in Requests, Uses(w, x)', Holding(w)', pc'[w] # "log", req[w].kind = "write",
                    dir[x] # 0
             PROVE  /\ w \in ImageAt(x)' \cup LogAt(x)'
                    /\ pc'[w] # "link" => w \in GraphOf(x)'
                    /\ \A q \in Requests : Uses(q, x)' /\ Recovers(q)' => w \in GraphOf(x)' \cup ToReplay(q, x)'
  BY <1>1 DEF Writing
<1>2. CASE w = r /\ LogWrite(r)
  <2>1. pc'[r] = "link"
    BY <1>1, <1>2, UsedStages
  <2>2. QED
    BY <1>1, <1>2, <2>1, LogsThere
<1>3. CASE ~(w = r /\ LogWrite(r))
  <2>1. Uses(w, x) /\ Holding(w) /\ pc[w] # "log"
    <3>1. CASE w # r
      BY <1>1, <3>1, UsedOthers
    <3>2. CASE w = r
      <4>1. ~LockOp(r)
        BY <1>1, <3>2, UsedStages
      <4>2. ~LogFails(r)
        BY <1>1, <3>2, UsedStages DEF Holding, SaveStages
      <4>3. pc[r] # "log"
        BY <1>1, <1>3, <3>2, <4>2, UsedStages DEF UsedStep
      <4>4. QED
        BY <1>1, <3>2, <4>1, <4>3, UsedRoles
    <3>3. QED
      BY <3>1, <3>2
  <2>2. SaveClear(r) => pc[w] # "link" \/ w # r
    BY <1>1, UsedStages
  <2>3. /\ w \in ImageAt(x)' \cup LogAt(x)' /\ (pc[w] # "link" => w \in GraphOf(x)')
    BY <2>1, <2>2, WrittenStays
  <2>4. ASSUME NEW q \in Requests, Uses(q, x)', Recovers(q)' PROVE w \in GraphOf(x)' \cup ToReplay(q, x)'
    BY <1>1, <2>1, <2>4, WrittenFound
  <2>5. pc'[w] # "link" => w \in GraphOf(x)'
    <3>1. CASE w # r
      BY <2>3, <3>1, UsedOthers
    <3>2. CASE w = r /\ pc[r] = "link" /\ pc'[r] # "link"
      <4>1. Link(r)
        BY <1>1, <3>2, UsedStages DEF UsedStep
      <4>2. ~Replay(r)
        BY <1>1, <3>2, UsedStages
      <4>3. QED
        BY <1>1, <3>2, <4>1, <4>2, UsedEntry
    <3>3. QED
      BY <2>3, <3>1, <3>2
  <2>6. QED
    BY <2>3, <2>4, <2>5
<1>4. QED
  BY <1>2, <1>3

LEMMA UsedOpening ==
  ASSUME LastInv, NEW r \in Requests, UsedStep(r), NEW x, x = Index(r)
  PROVE  Opening(x)'
<1>1. CacheInv /\ indices[x] # 0 /\ pc'[r] # "publish"
  BY UsedBefore, UsedFrame
<1> SUFFICES ASSUME NEW q \in Requests, About(q, x)', pc'[q] = "publish" PROVE FALSE
  BY DEF Opening
<1>2. q # r /\ pc[q] = "publish" /\ About(q, x)
  BY <1>1, UsedOthers
<1>3. QED
  BY <1>1, <1>2 DEF CacheInv, Publishing, PublishesNew, About, Index

LEMMA UsedRestoring ==
  ASSUME LastInv, NEW r \in Requests, UsedStep(r), NEW x, x = Index(r)
  PROVE  Restoring(x)'
<1>1. /\ Restoring(x) /\ dir'[x] = dir[x] /\ req' = req /\ ~Restores(r)'
      /\ \A q \in Requests : About(q, x)' = About(q, x) /\ Uses(q, x)' = Uses(q, x)
  BY UsedBefore, UsedFrame
<1>2. ImageAt(x) \subseteq ImageAt(x)'
  BY UsedGrown
<1>3. ASSUME NEW q \in Requests PROVE (Owner(q)' => Owner(q)) /\ (Restores(q)' => Restores(q))
  BY <1>1, UsedRoles, UsedOthers
<1>4. Deletable(x)' = Deletable(x)
  BY DEF Deletable
<1>5. QED
  BY <1>1, <1>2, <1>3, <1>4 DEF Restoring

LEMMA UsedClean ==
  ASSUME LastInv, NEW r \in Requests, UsedStep(r), NEW x, x = Index(r)
  PROVE  Clean(x)'
<1>1. /\ Clean(x) /\ Saving(x) /\ Holders(x) /\ Uses(r, x) /\ CacheInv /\ dir'[x] = dir[x] /\ indices[x] # 0
      /\ \A q \in Requests : About(q, x)' = About(q, x)
  BY UsedBefore, UsedFrame
<1>2. ImageAt(x) \subseteq ImageAt(x)'
  BY UsedGrown
<1> SUFFICES ASSUME ~UpdatedOf(x)', dir[x] # 0, ~(GraphOf(x)' \subseteq ImageAt(x)')
             PROVE  \E h \in Requests : HolderOf(x)' = h /\ About(h, x)' /\ pc'[h] = "mark"
  BY <1>1 DEF Clean
<1>3. ~Replay(r) /\ ~Mark(r)
  <2>1. Replay(r) \/ Mark(r) => ~SaveDone(r)
    BY <1>1, UsedStages
  <2>2. QED
    BY <1>1, <2>1, UsedEntry
<1>4. CASE Link(r)
  <2>1. pc[r] = "link" /\ pc'[r] = "mark" /\ Holding(r)
    BY <1>1, <1>4, UsedStages DEF Holding
  <2>2. HolderOf(x) = r
    BY <1>1, <2>1 DEF Holders
  <2>3. ~LockOp(r) /\ ~LogFails(r) /\ ~Unlock(r) /\ ~SaveFails(r)
    BY <1>1, <1>4, UsedStages
  <2>4. HolderOf(x)' = r
    BY <1>1, <2>2, <2>3, UsedEntry
  <2>5. About(r, x)'
    BY <1>1 DEF Uses
  <2>6. QED
    BY <2>1, <2>4, <2>5
<1>5. CASE ~Link(r)
  <2>1. GraphOf(x)' = GraphOf(x)
    BY <1>1, <1>3, <1>5, UsedEntry
  <2>2. ~(GraphOf(x) \subseteq ImageAt(x))
    BY <1>2, <2>1
  <2>3. ~SaveDone(r)
    BY <1>1, <2>2, UsedStages DEF Saving
  <2>4. UpdatedOf(x)' = UpdatedOf(x) /\ ~SaveFails(r)
    BY <1>1, <1>3, <2>3, UsedEntry
  <2>5. PICK h \in Requests : HolderOf(x) = h /\ About(h, x) /\ pc[h] = "mark"
    BY <1>1, <2>2, <2>4 DEF Clean
  <2>6. h # r
    BY <1>1, <1>3, <2>5, UsedStages DEF UsedStep
  <2>7. ~LogFails(r) /\ ~Unlock(r) /\ ~LockOp(r)
    <3>1. ~Holding(r)
      BY <1>1, <2>5, <2>6 DEF Holders
    <3>2. ~LogFails(r) /\ ~Unlock(r)
      BY <1>1, <3>1, UsedStages DEF Holding
    <3>3. LockOp(r) => HolderOf(x) = NoRequest
      BY <1>1, <3>2, UsedEntry, UsedStages
    <3>4. QED
      BY <2>5, <3>2, <3>3, IndexCacheAssumption
  <2>8. HolderOf(x)' = h
    BY <1>1, <2>4, <2>5, <2>7, UsedEntry
  <2>9. pc'[h] = "mark" /\ About(h, x)'
    BY <1>1, <2>5, <2>6, UsedOthers
  <2>10. QED
    BY <2>8, <2>9
<1>6. QED
  BY <1>4, <1>5

\* A restore that is answered has the backup in its image.
LEMMA AnsweredIs ==
  ASSUME LastInv, NEW r \in Requests, RestoreAnswers(r), NEW x, x = Index(r), dir[x] # 0
  PROVE  Backed \subseteq ImageAt(x)
<1>1. UsedStep(r)
  BY DEF UsedStep
<1>2. Restoring(x) /\ Uses(r, x) /\ CacheInv /\ Staged
  BY <1>1, UsedBefore
<1>3. pc[r] = "answer" /\ Owner(r) /\ req[r].kind = "restore"
  BY <1>2, UsedStages DEF Owner, Staged
<1>4. QED
  BY <1>2, <1>3 DEF Restoring

\* Recovering, said of who uses the entry.
LEMMA RecoveringIs ==
  ASSUME NEW x, indices[x] # 0
  PROVE  Recovering(x) <=> \E q \in Requests : Uses(q, x) /\ pc[q] \in {"recover", "replay"}
BY DEF Recovering, Uses, About, Index

LEMMA RecoveringNext ==
  ASSUME NEW x, indices'[x] # 0
  PROVE  Recovering(x)' <=> \E q \in Requests : Uses(q, x)' /\ pc'[q] \in {"recover", "replay"}
BY DEF Recovering, Uses, About, Index

LEMMA UsedServed ==
  ASSUME LastInv, NEW r \in Requests, UsedStep(r), NEW x, x = Index(r)
  PROVE  ServedAt(x)'
<1>1. /\ ServedAt(x) /\ Reading(x) /\ LogCounted(x) /\ CacheInv /\ Uses(r, x) /\ indices[x] # 0 /\ indices'[x] # 0
      /\ dir'[x] = dir[x] /\ ImageAt(x) \subseteq GraphOf(x) /\ x \in Indexes
      /\ \A q \in Requests : Uses(q, x)' = Uses(q, x)
  BY UsedBefore, UsedFrame
<1>2. GraphOf(x) \subseteq GraphOf(x)'
  BY UsedGrown
<1> SUFFICES ASSUME ~Recovering(x)' PROVE AckedAt(x)' \subseteq GraphOf(x)'
  BY DEF ServedAt
<1>3. \A q \in Requests : Uses(q, x)' => pc'[q] \notin {"recover", "replay"}
  BY <1>1, RecoveringNext
<1>4. AckedAt(x) \subseteq GraphOf(x)'
  <2>1. CASE ~Recovering(x)
    BY <1>1, <1>2, <2>1 DEF ServedAt
  <2>2. CASE Recovering(x)
    <3>1. PICK q \in Requests : Uses(q, x) /\ pc[q] \in {"recover", "replay"}
      BY <1>1, <2>2, RecoveringIs
    <3>2. q = r
      BY <1>1, <1>3, <3>1, UsedOthers
    <3>3. AckedAt(x) \subseteq GraphOf(x) \cup ToReplay(r, x)
      BY <1>1, <3>1, <3>2 DEF Reading
    <3>4. CASE ReadLog(r)
      <4>1. Wal(x).count = 0 /\ pc[r] = "recover"
        BY <1>1, <1>3, <3>4, UsedStages
      <4>2. LogAt(x) = {}
        <5>1. CASE dir[x] = 0
          BY <5>1 DEF LogAt
        <5>2. CASE dir[x] # 0 /\ wal[x].dir # 0
          BY <1>1, <4>1, <5>2 DEF Wal, LogCounted
        <5>3. CASE dir[x] # 0 /\ wal[x].dir = 0
          BY <4>1, <5>3 DEF Wal, LogAt
        <5>4. QED
          BY <5>1, <5>2, <5>3
      <4>3. QED
        BY <1>2, <3>3, <4>1, <4>2 DEF ToReplay
    <3>5. CASE Replay(r)
      <4>1. pc[r] = "replay" /\ ~Link(r)
        BY <1>1, <3>5, UsedStages
      <4>2. GraphOf(x)' = GraphOf(x) \cup records[r]
        BY <1>1, <3>5, <4>1, UsedEntry
      <4>3. QED
        BY <3>3, <4>1, <4>2 DEF ToReplay
    <3>6. QED
      BY <1>1, <3>1, <3>2, <3>4, <3>5, UsedStages DEF UsedStep
  <2>3. QED
    BY <2>1, <2>2
<1>5. CASE AckedAt(x)' = AckedAt(x) \/ AckedAt(x)' = {}
  BY <1>4, <1>5
<1>6. CASE Unlock(r) /\ req[r].kind = "write" /\ dir[x] # 0 /\ AckedAt(x)' = AckedAt(x) \cup {r}
  <2>1. r \in GraphOf(x)
    BY <1>6, UnlockIs
  <2>2. QED
    BY <1>2, <1>4, <1>6, <2>1
<1>7. CASE RestoreAnswers(r) /\ dir[x] # 0 /\ AckedAt(x)' = AckedAt(x) \cup Backed
  <2>1. Backed \subseteq ImageAt(x)
    BY <1>7, AnsweredIs
  <2>2. QED
    BY <1>1, <1>2, <1>4, <1>7, <2>1
<1>8. QED
  BY <1>1, <1>5, <1>6, <1>7, UsedAcked

LEMMA UsedLasting ==
  ASSUME LastInv, NEW r \in Requests, UsedStep(r), NEW x, x = Index(r)
  PROVE  Lasting(x)'
<1>1. /\ Lasting(x) /\ ServedAt(x) /\ Reading(x) /\ Saving(x) /\ CacheInv /\ Uses(r, x) /\ indices[x] # 0
      /\ dir'[x] = dir[x]
  BY UsedBefore
<1>2. ImageAt(x) \subseteq ImageAt(x)'
  BY UsedGrown
<1>3. AckedAt(x) \subseteq ImageAt(x)' \cup LogAt(x)'
  <2>1. CASE SaveClear(r) /\ dir[x] # 0
    <3>1. pc[r] = "saveClear"
      BY <1>1, <2>1, UsedStages
    <3>2. GraphOf(x) \subseteq ImageAt(x)
      BY <1>1, <2>1, <3>1 DEF Saving
    <3>3. ~Recovering(x)
      BY <1>1, <3>1, RecoveringIs DEF Reading
    <3>4. QED
      BY <1>1, <1>2, <3>2, <3>3 DEF ServedAt
  <2>2. CASE ~(SaveClear(r) /\ dir[x] # 0)
    <3>1. LogAt(x) \subseteq LogAt(x)'
      BY <1>1, <2>2, UsedLogged
    <3>2. QED
      BY <1>1, <1>2, <3>1 DEF Lasting
  <2>3. QED
    BY <2>1, <2>2
<1>4. CASE AckedAt(x)' = AckedAt(x) \/ AckedAt(x)' = {}
  BY <1>3, <1>4 DEF Lasting
<1>5. CASE Unlock(r) /\ req[r].kind = "write" /\ dir[x] # 0 /\ AckedAt(x)' = AckedAt(x) \cup {r}
  <2>1. r \in ImageAt(x) \cup LogAt(x) /\ ~SaveClear(r)
    BY <1>1, <1>5, UnlockIs, UsedStages
  <2>2. LogAt(x) \subseteq LogAt(x)'
    BY <1>1, <2>1, UsedLogged
  <2>3. QED
    BY <1>2, <1>3, <1>5, <2>1, <2>2 DEF Lasting
<1>6. CASE RestoreAnswers(r) /\ dir[x] # 0 /\ AckedAt(x)' = AckedAt(x) \cup Backed
  <2>1. Backed \subseteq ImageAt(x)
    BY <1>6, AnsweredIs
  <2>2. QED
    BY <1>2, <1>3, <1>6, <2>1 DEF Lasting
<1>7. QED
  BY <1>1, <1>4, <1>5, <1>6, UsedAcked

\* All of it.
LEMMA UsedSteady ==
  ASSUME LastInv, Undisturbed, NEW r \in Requests, UsedStep(r), NEW x, x = Index(r)
  PROVE  Steady(x)' /\ Lasting(x)' /\ ServedAt(x)'
<1>1. Numbered(x)' /\ OneOwner(x)' /\ Holders(x)' /\ LogCounted(x)' /\ Grown(x)'
  BY UsedNumbered, UsedOwner, UsedHolders, UsedLog, UsedGrown
<1>2. Reading(x)' /\ Saving(x)' /\ Writing(x)' /\ Opening(x)' /\ Restoring(x)' /\ Clean(x)'
  BY UsedReading, UsedSaving, UsedWriting, UsedOpening, UsedRestoring, UsedClean
<1>3. Lasting(x)' /\ ServedAt(x)'
  BY UsedLasting, UsedServed
<1>4. QED
  BY <1>1, <1>2, <1>3 DEF Steady

-------------------------------------------------------------------------------
(* The steps that leave an index as it is.                                 *)

\* What lasts of an index that is left.
LEMMA LeftLasts ==
  ASSUME CacheInv, NEW x \in Indexes, Left(x), Lasting(x), ServedAt(x),
         \A q \in Requests : pc[q] \in {"recover", "replay"} /\ About(q, x) => Stays(q) \/ dir'[x] = 0
  PROVE  Lasting(x)' /\ ServedAt(x)'
<1>1. /\ indices'[x] # 0 => GraphOf(x)' = GraphOf(x) /\ indices[x] = indices'[x]
      /\ dir'[x] # 0 => ImageAt(x)' = ImageAt(x) /\ AckedAt(x)' = AckedAt(x) /\ LogAt(x)' = LogAt(x)
      /\ dir'[x] = 0 => AckedAt(x)' = {}
  BY DEF Left, GraphOf, ImageAt, AckedAt, LogAt
<1>2. Lasting(x)'
  <2>1. CASE dir'[x] = 0
    BY <1>1, <2>1 DEF Lasting
  <2>2. CASE dir'[x] # 0
    BY <1>1, <2>2 DEF Lasting
  <2>3. QED
    BY <2>1, <2>2
<1>3. ASSUME indices'[x] # 0, ~Recovering(x)', dir'[x] # 0 PROVE AckedAt(x)' \subseteq GraphOf(x)'
  <2>1. ~Recovering(x)
    <3>1. SUFFICES ASSUME NEW q \in Requests, Uses(q, x), pc[q] \in {"recover", "replay"} PROVE FALSE
      BY <1>1, <1>3, RecoveringIs
    <3>2. Stays(q)
      BY <1>3, <3>1 DEF Uses
    <3>3. Uses(q, x)' /\ pc'[q] \in {"recover", "replay"}
      BY <1>1, <1>3, <3>1, <3>2, StaysAs DEF Uses, Stays
    <3>4. QED
      BY <1>3, <3>3, RecoveringNext
  <2>2. QED
    BY <1>1, <1>3, <2>1 DEF ServedAt
<1>4. ServedAt(x)'
  BY <1>1, <1>3 DEF ServedAt
<1>5. QED
  BY <1>2, <1>4

\* A step leaves the other indices.
LEMMA Elsewhere ==
  ASSUME CacheInv, NEW r \in Requests, Step(r), NEW y \in Indexes, y # Index(r)
  PROVE  Left(y)
<1> DEFINE x == Index(r)
<1>1. CacheTypeOK
  BY DEF CacheInv
<1>2. indices'[y] \in {indices[y], 0} /\ entry'[y] = entry[y] /\ made'[y] = made[y]
  <2>1. CASE \E e : Publish(x, e)
    BY <1>1, <2>1 DEF Publish, CacheTypeOK
  <2>2. CASE \E z : indices' = [indices EXCEPT ![z] = 0] /\ entry' = entry /\ made' = made
    BY <1>1, <2>2 DEF CacheTypeOK
  <2>3. CASE indices' = indices /\ made' = made /\ \E e : SetEntry(r, e)
    BY <1>1, <2>3 DEF CacheTypeOK, SetEntry
  <2>4. CASE indices' = indices /\ made' = made /\ entry' = entry
    BY <2>4
  <2>5. CASE CreatePublishes(r) /\ indices[x] # 0
    BY <1>1, <2>5 DEF CacheTypeOK, CreatePublishes
  <2>6. CASE Load(r) \/ RestoreLoads(r) \/ (CreatePublishes(r) /\ indices[x] = 0)
    <3>1. (\E e : Publish(x, e)) \/ cached' = cached
      BY <2>6, Zenon DEF Load, RestoreLoads, CreatePublishes
    <3>2. QED
      BY <2>1, <2>4, <3>1 DEF cached
  <2>7. CASE EvictLast(r) \/ Erase(r)
    <3>1. (\E z : indices' = [indices EXCEPT ![z] = 0]) \/ indices' = indices
      BY <2>7 DEF EvictLast, Erase
    <3>2. entry' = entry /\ made' = made
      BY <2>7 DEF EvictLast, Erase
    <3>3. QED
      BY <2>2, <2>4, <3>1, <3>2
  <2>8. CASE \/ Replay(r) \/ SaveFails(r) \/ SaveDone(r) \/ LockOp(r) \/ LogFails(r) \/ Link(r)
             \/ Mark(r) \/ Unlock(r)
    <3>1. indices' = indices /\ made' = made
      BY <2>8 DEF Replay, SaveFails, SaveDone, LockOp, LogFails, Link, Mark, Unlock
    <3>2. \E e : SetEntry(r, e)
      BY <2>8, Zenon DEF Replay, SaveFails, SaveDone, LockOp, LogFails, Link, Mark, Unlock
    <3>3. QED
      BY <2>3, <3>1, <3>2
  <2>9. CASE \/ Find(r) \/ LockMap(r) \/ LoadFails(r) \/ ReadLog(r) \/ RecoveryFails(r) \/ Fetch(r)
             \/ Evict(r) \/ EvictEnds(r) \/ SaveImage(r) \/ SaveClear(r) \/ LogWrite(r) \/ Read(r)
             \/ Autosave(r) \/ CreateAsks(r) \/ LockToEvict(r) \/ CreateOpens(r) \/ CreateStoresMeta(r)
             \/ LockToErase(r) \/ Move(r) \/ RestoreAsks(r) \/ RestoreCopies(r) \/ RestoreFails(r)
             \/ RestoreStoresMeta(r) \/ RestoreAnswers(r)
    <3>1. cached' = cached
      BY <2>9 DEF Find, LockMap, LoadFails, ReadLog, RecoveryFails, Fetch, Evict, EvictEnds, SaveImage,
             SaveClear, LogWrite, Read, Autosave, CreateAsks, LockToEvict, CreateOpens, CreateStoresMeta,
             LockToErase, Move, RestoreAsks, RestoreCopies, RestoreFails, CopyBackup, RestoreStoresMeta,
             RestoreAnswers, world, cached
    <3>2. QED
      BY <2>4, <3>1 DEF cached
  <2>10. QED
    BY <2>5, <2>6, <2>7, <2>8, <2>9 DEF Step, GetStep
<1>3. /\ dir'[y] = dir[y] /\ dirs'[y] = dirs[y] /\ image'[y] = image[y] /\ log'[y] = log[y]
      /\ wal'[y] = wal[y] /\ acked'[y] = acked[y]
  <2>1. CASE disk' = disk /\ acked' = acked
    BY <2>1 DEF disk
  <2>2. CASE ReadLog(r) \/ SaveClear(r)
    BY <1>1, <2>2 DEF CacheTypeOK, ReadLog, SaveClear
  <2>3. CASE SaveImage(r)
    BY <1>1, <2>3 DEF CacheTypeOK, SaveImage
  <2>4. CASE LogWrite(r)
    BY <1>1, <2>4 DEF CacheTypeOK, LogWrite
  <2>5. CASE Unlock(r) \/ RestoreAnswers(r)
    BY <1>1, <2>5 DEF CacheTypeOK, Unlock, RestoreAnswers, disk
  <2>6. CASE CreateOpens(r)
    BY <1>1, <2>6 DEF CacheTypeOK, CreateOpens
  <2>7. CASE CreateStoresMeta(r) \/ RestoreStoresMeta(r)
    BY <2>7 DEF CreateStoresMeta, RestoreStoresMeta
  <2>8. CASE Move(r)
    BY <1>1, <2>8 DEF CacheTypeOK, Move
  <2>9. CASE RestoreCopies(r) \/ RestoreFails(r)
    <3>1. PICK whole \in BOOLEAN : CopyBackup(r, whole)
      BY <2>9 DEF RestoreCopies, RestoreFails
    <3>2. image'[y] = image[y]
      BY <1>1, <3>1 DEF CacheTypeOK, CopyBackup
    <3>3. QED
      BY <1>1, <3>1, <3>2 DEF CacheTypeOK, CopyBackup
  <2>10. CASE \/ Find(r) \/ LockMap(r) \/ LoadFails(r) \/ Load(r) \/ RecoveryFails(r) \/ Replay(r) \/ Fetch(r)
              \/ Evict(r) \/ EvictEnds(r) \/ EvictLast(r) \/ SaveFails(r) \/ SaveDone(r) \/ LockOp(r)
              \/ LogFails(r) \/ Link(r) \/ Mark(r) \/ Read(r) \/ Autosave(r) \/ CreateAsks(r)
              \/ LockToEvict(r) \/ CreatePublishes(r) \/ LockToErase(r) \/ Erase(r) \/ RestoreAsks(r)
              \/ RestoreLoads(r)
    <3>1. disk' = disk /\ acked' = acked
      BY <2>10 DEF Find, LockMap, LoadFails, Load, RecoveryFails, Replay, Fetch, Evict, EvictEnds, EvictLast,
             SaveFails, SaveDone, LockOp, LogFails, Link, Mark, Read, Autosave, CreateAsks, LockToEvict,
             CreatePublishes, LockToErase, Erase, RestoreAsks, RestoreLoads, world, disk
    <3>2. QED
      BY <2>1, <3>1
  <2>11. QED
    BY <2>2, <2>3, <2>4, <2>5, <2>6, <2>7, <2>8, <2>9, <2>10 DEF Step, GetStep
<1>4. QED
  BY <1>2, <1>3 DEF Left

\* The steps that leave their own index too.
QuietStep(r) ==
  \/ Find(r) \/ LockMap(r) \/ LoadFails(r) \/ RecoveryFails(r) \/ Fetch(r)
  \/ Evict(r) \/ EvictEnds(r) \/ EvictLast(r) \/ Read(r) \/ Autosave(r)
  \/ CreateAsks(r) \/ LockToEvict(r) \/ (CreateOpens(r) /\ pc'[r] = "done") \/ CreateStoresMeta(r)
  \/ LockToErase(r) \/ Erase(r) \/ Move(r)
  \/ RestoreAsks(r) \/ RestoreStoresMeta(r) \/ (RestoreLoads(r) /\ ~Loadable(r))

LEMMA QuietLeaves ==
  ASSUME CacheInv, NEW r \in Requests, QuietStep(r), NEW x, x = Index(r)
  PROVE  Left(x)
<1>1. CacheTypeOK
  BY DEF CacheInv
<1>2. CASE EvictLast(r) \/ Erase(r)
  <2>1. (\E z : indices' = [indices EXCEPT ![z] = 0]) \/ indices' = indices
    BY <1>2 DEF EvictLast, Erase
  <2>2. entry' = entry /\ made' = made /\ disk' = disk /\ acked' = acked
    BY <1>2 DEF EvictLast, Erase
  <2>3. indices'[x] \in {indices[x], 0}
    <3>1. x \in Indexes
      BY <1>2, RequestIs DEF EvictLast, Erase, At
    <3>2. QED
      BY <1>1, <2>1, <3>1 DEF CacheTypeOK
  <2>4. QED
    BY <2>2, <2>3 DEF Left, disk
<1>3. CASE Move(r)
  <2>1. pc[r] = "move"
    BY <1>3 DEF Move, At
  <2>2. Deletable(x) /\ x \in Indexes
    BY <2>1, RequestIs DEF CacheInv, Kinded, Deletable
  <2>3. cached' = cached /\ UNCHANGED <<dirs, image, log, wal, acked>> /\ dir'[x] = 0
    BY <1>1, <1>3, <2>2 DEF Move, CacheTypeOK
  <2>4. QED
    BY <2>2, <2>3 DEF Left, cached
<1>4. CASE CreateOpens(r) /\ pc'[r] = "done"
  <2>1. cached' = cached /\ UNCHANGED <<image, log, acked>>
    BY <1>4 DEF CreateOpens
  <2>2. UNCHANGED <<dir, dirs, wal>>
    BY <1>1, <1>4 DEF CreateOpens, Goto, CacheTypeOK
  <2>3. QED
    BY <2>1, <2>2 DEF Left, cached
<1>5. CASE \/ Find(r) \/ LockMap(r) \/ LoadFails(r) \/ RecoveryFails(r) \/ Fetch(r)
           \/ Evict(r) \/ EvictEnds(r) \/ Read(r) \/ Autosave(r) \/ CreateAsks(r) \/ LockToEvict(r)
           \/ CreateStoresMeta(r) \/ LockToErase(r) \/ RestoreAsks(r) \/ RestoreStoresMeta(r)
           \/ (RestoreLoads(r) /\ ~Loadable(r))
  <2>1. cached' = cached /\ UNCHANGED <<dir, dirs, image, log, wal, acked>>
    BY <1>5 DEF Find, LockMap, LoadFails, RecoveryFails, Fetch, Evict, EvictEnds, Read, Autosave, CreateAsks,
           LockToEvict, CreateStoresMeta, LockToErase, RestoreAsks, RestoreStoresMeta, RestoreLoads, world,
           disk, cached
  <2>2. QED
    BY <2>1 DEF Left, cached
<1>6. QED
  BY <1>2, <1>3, <1>4, <1>5 DEF QuietStep

\* Where they leave their request.
LEMMA QuietRole ==
  ASSUME CacheInv, NEW r \in Requests, QuietStep(r)
  PROVE  /\ ~undefined /\ ~undefined' /\ pc[r] \notin {"idle", "mark"} /\ pc'[r] \notin Loud
         /\ pc[r] \in {"recover", "replay"} => dir[Index(r)] = 0
         /\ Restores(r)' => Restores(r)
         /\ ref'[r] \in {ref[r], indices[Index(r)]}
<1>1. CacheTypeOK /\ pc \in [Requests -> Stages] /\ ref \in [Requests -> 0 .. MaxEntries]
  BY DEF CacheInv, CacheTypeOK
<1>2. ASSUME NEW s, Goto(r, s) PROVE pc'[r] = s
  BY <1>1, <1>2 DEF Goto
<1>3. CASE \/ Find(r) \/ LockMap(r) \/ LoadFails(r) \/ Fetch(r) \/ Read(r) \/ Autosave(r) \/ CreateAsks(r)
           \/ LockToEvict(r) \/ LockToErase(r) \/ RestoreAsks(r)
  <2>1. /\ pc'[r] \in {"lockMap", "use", "lockOp", "load", "fetch", "done", "find", "lockToEvict", "evict",
                       "erase", "copy"}
        /\ pc[r] \in {"find", "lockMap", "load", "fetch", "use", "autosave", "askMeta", "lockToEvict",
                      "lockToErase", "askRestore"}
        /\ ~undefined /\ undefined' = undefined
    BY <1>2, <1>3 DEF Find, LockMap, LoadFails, Fetch, Read, Autosave, CreateAsks, LockToEvict, LockToErase,
           RestoreAsks, At, Using, Work, world
  <2>2. ref'[r] \in {ref[r], indices[Index(r)]}
    BY <1>1, <1>3 DEF Find, LockMap, LoadFails, Fetch, Read, Autosave, CreateAsks, LockToEvict, LockToErase,
           RestoreAsks, own
  <2>3. QED
    BY <2>1, <2>2 DEF Loud, SaveStages, Restores
<1>4. CASE RecoveryFails(r)
  BY <1>2, <1>4 DEF RecoveryFails, Using, At, own, world, CanOpenLog, Loud, SaveStages, Restores
<1>5. CASE Evict(r) \/ EvictEnds(r) \/ EvictLast(r)
  <2>1. pc[r] \in {"evict", "evicting"} /\ ~undefined /\ undefined' = undefined /\ ref' = ref
    BY <1>5 DEF Evict, EvictEnds, EvictLast, At, own
  <2>2. pc'[r] \in {"evicting", "open", "fetch"}
    BY <1>2, <1>5 DEF Evict, EvictEnds, EvictLast, At, AfterEviction
  <2>3. QED
    BY <2>1, <2>2 DEF Loud, SaveStages, Restores
<1>6. CASE (CreateOpens(r) /\ pc'[r] = "done") \/ CreateStoresMeta(r) \/ Erase(r) \/ Move(r)
  <2>1. /\ pc[r] \in {"open", "storeMeta", "erase", "move"} /\ pc'[r] \in {"done", "find", "move"}
        /\ ~undefined /\ undefined' = undefined /\ ref' = ref
    BY <1>2, <1>6 DEF CreateOpens, CreateStoresMeta, Erase, Move, At, own
  <2>2. QED
    BY <2>1 DEF Loud, SaveStages, Restores
<1>7. CASE RestoreStoresMeta(r) \/ (RestoreLoads(r) /\ ~Loadable(r))
  <2>1. /\ pc[r] \in {"restoreMeta", "restoreLoad"} /\ pc'[r] \in {"restoreLoad", "done"}
        /\ ~undefined /\ undefined' = undefined /\ ref' = ref
    BY <1>2, <1>7 DEF RestoreStoresMeta, RestoreLoads, At, own
  <2>2. QED
    BY <2>1 DEF Loud, SaveStages, Restores
<1>8. QED
  BY <1>3, <1>4, <1>5, <1>6, <1>7 DEF QuietStep

\* What is left is as steady as it was.
LEMMA LeftKept ==
  ASSUME LastInv, ~undefined, NEW r \in Requests, Step(r), NEW x \in Indexes, x # Index(r) \/ QuietStep(r)
  PROVE  Steady(x)' /\ Lasting(x)' /\ ServedAt(x)'
<1>1. CacheInv /\ Steady(x) /\ Lasting(x) /\ ServedAt(x)
  BY DEF LastInv
<1>2. Left(x)
  BY <1>1, Elsewhere, QuietLeaves
<1>3. req' = req /\ \A q \in Requests \ {r} : Stays(q)
  BY <1>1, OthersStay
<1>4. pc[r] # "idle"
  BY <1>1, StepMovesOn DEF MovesOn
<1>5. ASSUME NEW q \in Requests, About(q, x)', q = r
      PROVE  QuietStep(r) /\ x = Index(r) /\ About(r, x)
  BY <1>3, <1>4, <1>5 DEF About, Index
<1>6. \A q \in Requests : About(q, x)' /\ pc'[q] \in Loud => Stays(q)
  BY <1>1, <1>3, <1>5, QuietRole
<1>7. \A q \in Requests : About(q, x)' /\ Restores(q)' => About(q, x) /\ Restores(q)
  BY <1>1, <1>3, <1>5, QuietRole, StaysAs
<1>8. ASSUME NEW q \in Requests, About(q, x)' PROVE ref'[q] <= made[x]
  <2>1. CASE q = r
    <3>1. ref'[r] \in {ref[r], indices[x]} /\ About(r, x)
      BY <1>1, <1>5, <1>8, <2>1, QuietRole
    <3>2. QED
      BY <1>1, <2>1, <3>1 DEF Steady, Numbered
  <2>2. CASE q # r
    <3>1. Stays(q) /\ About(q, x)
      BY <1>3, <1>8, <2>2, StaysAs
    <3>2. QED
      BY <1>1, <3>1 DEF Steady, Numbered, Stays
  <2>3. QED
    BY <2>1, <2>2
<1>9. \A q \in Requests : pc[q] = "mark" /\ About(q, x) => pc'[q] = "mark" /\ About(q, x)'
  <2>1. ASSUME NEW q \in Requests, q # r, pc[q] = "mark", About(q, x) PROVE pc'[q] = "mark" /\ About(q, x)'
    BY <1>3, <2>1, StaysAs DEF Stays
  <2>2. ~(pc[r] = "mark" /\ About(r, x))
    BY <1>1, QuietRole DEF About, Index
  <2>3. QED
    BY <2>1, <2>2
<1>10. Steady(x)'
  BY <1>1, <1>2, <1>6, <1>7, <1>8, <1>9, LeftSteady
<1>11. ASSUME NEW q \in Requests, pc[q] \in {"recover", "replay"}, About(q, x) PROVE Stays(q) \/ dir'[x] = 0
  <2>1. CASE q = r
    <3>1. QuietStep(r) /\ x = Index(r)
      BY <1>11, <2>1 DEF About, Index
    <3>2. dir[x] = 0
      BY <1>1, <1>11, <2>1, <3>1, QuietRole
    <3>3. QED
      BY <1>2, <3>2 DEF Left
  <2>2. QED
    BY <1>3, <2>1
<1>12. Lasting(x)' /\ ServedAt(x)'
  BY <1>1, <1>2, <1>11, LeftLasts
<1>13. QED
  BY <1>10, <1>12

-------------------------------------------------------------------------------
(* The steps that publish an index.                                        *)

Publishes(r) == Load(r) \/ (RestoreLoads(r) /\ Loadable(r)) \/ CreatePublishes(r)

LEMMA PublishedIs ==
  ASSUME CacheInv, NEW r \in Requests, Publishes(r), NEW x, x = Index(r)
  PROVE  /\ x \in Indexes /\ indices[x] = 0 /\ made[x] \in Nat /\ ~undefined /\ ~undefined'
         /\ indices'[x] = made[x] + 1 /\ made'[x] = made[x] + 1
         /\ disk' = disk /\ acked' = acked /\ HolderOf(x)' = NoRequest
         /\ \/ /\ ~CreatePublishes(r) /\ GraphOf(x)' = ImageAt(x) /\ ref'[r] = made[x] + 1
               /\ pc[r] \in {"load", "restoreLoad"} /\ pc'[r] = "recover" /\ ~UpdatedOf(x)' /\ dir[x] # 0
            \/ /\ CreatePublishes(r) /\ GraphOf(x)' = {} /\ ref' = ref
               /\ pc[r] = "publish" /\ pc'[r] = "storeMeta" /\ UpdatedOf(x)'
<1>1. pc[r] \in {"load", "restoreLoad", "publish"} /\ ~undefined
  BY DEF Publishes, Load, RestoreLoads, CreatePublishes, At
<1>2. x \in Indexes /\ CacheTypeOK
  BY <1>1, RequestIs DEF CacheInv
<1>3. indices[x] = 0
  <2>1. CASE CreatePublishes(r)
    BY <2>1 DEF CreatePublishes, At, CacheInv, Publishing, PublishesNew
  <2>2. CASE ~CreatePublishes(r)
    BY <2>2 DEF Publishes, Load, Loadable
  <2>3. QED
    BY <2>1, <2>2
<1>4. PICK e : Publish(x, e) /\ e = IF CreatePublishes(r) THEN Fresh({}, TRUE) ELSE Fresh(image[x][dir[x]].graph, FALSE)
  <2>1. CASE CreatePublishes(r)
    BY <1>3, <2>1 DEF CreatePublishes
  <2>2. CASE ~CreatePublishes(r)
    BY <2>2, Zenon DEF Publishes, Load, RestoreLoads
  <2>3. QED
    BY <2>1, <2>2
<1>5. made[x] \in Nat /\ made[x] + 1 \in Numbers /\ MaxEntries \in Nat
  BY <1>2, <1>4, IndexCacheAssumption DEF CacheTypeOK, Publish, Numbers
<1>6. indices'[x] = made[x] + 1 /\ made'[x] = made[x] + 1 /\ entry'[x][made[x] + 1] = e
  BY <1>2, <1>4, <1>5 DEF CacheTypeOK, Publish
<1>7. disk' = disk /\ acked' = acked /\ undefined' = undefined
  BY DEF Publishes, Load, RestoreLoads, CreatePublishes
<1>8. HolderOf(x)' = NoRequest /\ GraphOf(x)' = e.graph /\ UpdatedOf(x)' = e.updated
  BY <1>4, <1>6 DEF HolderOf, GraphOf, UpdatedOf, Fresh
<1>9. CASE CreatePublishes(r)
  <2>1. e.graph = {} /\ e.updated = TRUE
    BY <1>4, <1>9 DEF Fresh
  <2>2. pc[r] = "publish" /\ pc'[r] = "storeMeta" /\ ref' = ref
    BY <1>2, <1>9 DEF CreatePublishes, At, Goto, CacheTypeOK, own
  <2>3. QED
    BY <1>1, <1>2, <1>3, <1>5, <1>6, <1>7, <1>8, <1>9, <2>1, <2>2
<1>10. CASE ~CreatePublishes(r)
  <2>1. e.graph = image[x][dir[x]].graph /\ e.updated = FALSE
    BY <1>4, <1>10 DEF Fresh
  <2>2. Loadable(r) /\ dir[x] # 0
    BY <1>10 DEF Publishes, Load, Loadable, Saved
  <2>3. /\ pc[r] \in {"load", "restoreLoad"} /\ pc'[r] = "recover"
        /\ ref'[r] = made[x] + 1
    BY <1>2, <1>10, <2>2 DEF Publishes, Load, RestoreLoads, At, Goto, CacheTypeOK
  <2>4. e.graph = ImageAt(x)
    BY <2>1, <2>2 DEF ImageAt
  <2>5. QED
    BY <1>1, <1>2, <1>3, <1>5, <1>6, <1>7, <1>8, <1>10, <2>1, <2>2, <2>3, <2>4
<1>11. QED
  BY <1>9, <1>10

\* A published index is steady: only its maker has a reference to it.
LEMMA PublishedSteady ==
  ASSUME LastInv, NEW r \in Requests, Publishes(r), NEW x, x = Index(r)
  PROVE  Steady(x)' /\ Lasting(x)' /\ ServedAt(x)'
<1>1. CacheInv
  BY DEF LastInv
<1>2. /\ x \in Indexes /\ indices[x] = 0 /\ made[x] \in Nat /\ ~undefined
      /\ indices'[x] = made[x] + 1 /\ made'[x] = made[x] + 1 /\ indices'[x] # 0
      /\ disk' = disk /\ acked' = acked /\ HolderOf(x)' = NoRequest
  BY <1>1, PublishedIs
<1>3. Steady(x) /\ Lasting(x) /\ ServedAt(x) /\ Staged
  BY <1>2 DEF LastInv
<1>4. /\ dir'[x] = dir[x] /\ ImageAt(x)' = ImageAt(x) /\ AckedAt(x)' = AckedAt(x) /\ LogAt(x)' = LogAt(x)
      /\ dirs' = dirs /\ wal' = wal /\ log' = log /\ image' = image
  BY <1>2 DEF disk, ImageAt, AckedAt, LogAt
<1>5. \/ /\ ~CreatePublishes(r) /\ GraphOf(x)' = ImageAt(x) /\ ref'[r] = made[x] + 1
         /\ pc[r] \in {"load", "restoreLoad"} /\ pc'[r] = "recover" /\ ~UpdatedOf(x)' /\ dir[x] # 0
      \/ /\ CreatePublishes(r) /\ GraphOf(x)' = {} /\ ref' = ref
         /\ pc[r] = "publish" /\ pc'[r] = "storeMeta" /\ UpdatedOf(x)'
  BY <1>1, PublishedIs
<1>6. Step(r)
  BY DEF Publishes, Step, GetStep
<1>7. req' = req /\ \A q \in Requests \ {r} : Stays(q)
  BY <1>1, <1>6, OthersStay
<1>8. About(r, x) /\ About(r, x)'
  BY <1>5, <1>7 DEF About, Index
<1>9. ASSUME NEW q \in Requests PROVE (About(q, x)' <=> About(q, x)) /\ (About(q, x)' /\ q # r => ref'[q] <= made[x])
  <2>1. CASE q = r
    BY <1>8, <2>1
  <2>2. CASE q # r
    <3>1. Stays(q) /\ About(q, x)' = About(q, x)
      BY <1>7, <2>2, StaysAs
    <3>2. QED
      BY <1>3, <3>1 DEF Steady, Numbered, Stays
  <2>3. QED
    BY <2>1, <2>2
<1>10. \A q \in Requests : Uses(q, x)' => q = r /\ pc'[r] = "recover"
  <2>1. ref[r] <= made[x]
    BY <1>3, <1>8 DEF Steady, Numbered
  <2>2. \A q \in Requests : Uses(q, x)' => About(q, x)' /\ ref'[q] = made[x] + 1
    BY <1>2 DEF Uses
  <2>3. \A q \in Requests : Uses(q, x)' => ref'[q] \in Nat
    BY <1>2, <2>2
  <2>4. ASSUME NEW q \in Requests, Uses(q, x)' PROVE q = r
    <3>1. ref'[q] = made[x] + 1 /\ About(q, x)'
      BY <2>2, <2>4
    <3>2. ~(made[x] + 1 <= made[x])
      BY <1>2
    <3>3. QED
      BY <1>9, <3>1, <3>2
  <2>5. ASSUME Uses(r, x)' PROVE pc'[r] = "recover"
    <3>1. ref'[r] = made[x] + 1
      BY <2>2, <2>5
    <3>2. ~(made[x] + 1 <= made[x])
      BY <1>2
    <3>3. QED
      BY <1>5, <2>1, <3>1, <3>2
  <2>6. QED
    BY <2>4, <2>5
<1>11. pc'[r] = "recover" => GraphOf(x)' = ImageAt(x) /\ ~CreatePublishes(r)
  BY <1>5
<1>12. Numbered(x)'
  <2>1. \A q \in Requests : About(q, x)' => ref'[q] <= made[x] + 1
    <3>1. ref'[r] <= made[x] + 1
      <4>1. ref[r] <= made[x] /\ ref[r] \in Int
        BY <1>1, <1>3, <1>8, IndexCacheAssumption DEF Steady, Numbered, CacheInv, CacheTypeOK
      <4>2. QED
        BY <1>2, <1>5, <4>1
    <3>2. \A q \in Requests : ref'[q] <= made[x] /\ ref[q] \in Int /\ ref'[q] = ref[q] => ref'[q] <= made[x] + 1
      BY <1>2
    <3>3. \A q \in Requests : ref[q] \in Int
      BY <1>1 DEF CacheInv, CacheTypeOK
    <3>4. QED
      BY <1>7, <1>9, <3>1, <3>2, <3>3 DEF Stays
  <2>2. QED
    BY <1>2, <1>3, <1>4, <2>1 DEF Steady, Numbered
<1>13. OneOwner(x)' /\ Holders(x)'
  BY <1>10 DEF OneOwner, Holders, Holding, SaveStages
<1>14. LogCounted(x)'
  BY <1>3, <1>4 DEF Steady, LogCounted
<1>15. ImageAt(x) \subseteq GraphOf(x)'
  <2>1. CASE CreatePublishes(r)
    <3>1. ImageAt(x) = {}
      BY <1>3, <1>5, <1>8, <2>1 DEF Steady, Opening
    <3>2. QED
      BY <3>1
  <2>2. QED
    BY <1>5, <2>1
<1>16. Grown(x)'
  BY <1>4, <1>15 DEF Grown
<1>17. Reading(x)' /\ Saving(x)' /\ Writing(x)'
  <2>1. \A q \in Requests : Uses(q, x)' => ToReplay(q, x)' = LogAt(x) /\ GraphOf(x)' = ImageAt(x)
    BY <1>4, <1>10, <1>11 DEF ToReplay
  <2>2. Reading(x)'
    BY <1>3, <1>4, <1>10, <2>1 DEF Reading, Lasting
  <2>3. Saving(x)' /\ Writing(x)'
    BY <1>10 DEF Saving, Writing, Holding, SaveStages
  <2>4. QED
    BY <2>2, <2>3
<1>18. Opening(x)'
  <2>1. \A q \in Requests : About(q, x)' /\ pc'[q] = "publish" => About(q, x) /\ pc[q] = "publish"
    BY <1>5, <1>7, <1>9 DEF Stays
  <2>2. QED
    BY <1>3, <1>4, <2>1 DEF Steady, Opening
<1>19. Restoring(x)'
  <2>1. Deletable(x)' = Deletable(x)
    BY DEF Deletable
  <2>2. \A q \in Requests : About(q, x)' /\ Restores(q)' => About(q, x) /\ Restores(q)
    BY <1>5, <1>7, <1>9, StaysAs DEF Restores
  <2>3. ASSUME NEW q \in Requests, Uses(q, x)', req'[q].kind = "restore"
        PROVE  About(q, x) /\ Restores(q)
    <3>1. q = r /\ req[r].kind = "restore" /\ ~CreatePublishes(r)
      BY <1>7, <1>10, <1>11, <2>3
    <3>2. pc[r] = "restoreLoad"
      BY <1>3, <1>5, <3>1 DEF Staged, SaveStages
    <3>3. QED
      BY <1>8, <3>1, <3>2 DEF Restores
  <2>4. QED
    BY <1>3, <1>4, <2>1, <2>2, <2>3 DEF Steady, Restoring
<1>20. Clean(x)'
  BY <1>4, <1>5 DEF Clean
<1>21. Lasting(x)'
  BY <1>3, <1>4 DEF Lasting
<1>22. ServedAt(x)'
  <2>1. CASE CreatePublishes(r)
    <3>1. AckedAt(x) = {}
      BY <1>3, <1>5, <1>8, <2>1 DEF Steady, Opening
    <3>2. QED
      BY <1>4, <3>1 DEF ServedAt
  <2>2. CASE ~CreatePublishes(r)
    <3>1. Uses(r, x)' /\ pc'[r] = "recover"
      BY <1>2, <1>5, <1>8, <2>2 DEF Uses
    <3>2. Recovering(x)'
      BY <1>2, <3>1, RecoveringNext
    <3>3. QED
      BY <3>2 DEF ServedAt
  <2>3. QED
    BY <2>1, <2>2
<1>23. QED
  BY <1>12, <1>13, <1>14, <1>16, <1>17, <1>18, <1>19, <1>20, <1>21, <1>22 DEF Steady

-------------------------------------------------------------------------------
(* The steps that make a directory.                                        *)

\* Of an index that is not in memory, and of which nothing is acknowledged, there is little to say.
LEMMA EmptySteady ==
  ASSUME NEW x, indices'[x] = 0, AckedAt(x)' = {}, Numbered(x)', LogCounted(x)', Opening(x)', Restoring(x)'
  PROVE  Steady(x)' /\ Lasting(x)' /\ ServedAt(x)'
<1>1. \A q \in Requests : ~Uses(q, x)'
  BY DEF Uses
<1>2. OneOwner(x)' /\ Holders(x)' /\ Reading(x)' /\ Saving(x)' /\ Writing(x)'
  BY <1>1 DEF OneOwner, Holders, Reading, Saving, Writing
<1>3. Grown(x)' /\ Clean(x)' /\ Lasting(x)' /\ ServedAt(x)'
  BY DEF Grown, Clean, Lasting, ServedAt
<1>4. QED
  BY <1>2, <1>3 DEF Steady

\* A directory that is made, or found with nothing acknowledged.
LEMMA NewDirectory ==
  ASSUME CacheInv, NEW x \in Indexes, Numbered(x), LogCounted(x),
         dir'[x] = IF dir[x] # 0 THEN dir[x] ELSE dirs[x] + 1, dir[x] = 0 => dirs[x] < MaxEntries,
         log' = log, acked' = acked, dir[x] # 0 => acked[x][dir[x]] = {}
  PROVE  /\ dir'[x] \in Numbers /\ AckedAt(x)' = {}
         /\ dir[x] = 0 => ~image[x][dir'[x]].there
         /\ wal[x].dir = 0 \/ wal[x].count = 0 => LogAt(x)' = {}
<1>1. dir[x] \in 0 .. MaxEntries /\ dirs[x] \in 0 .. MaxEntries /\ MaxEntries \in Nat
  BY DiskIs DEF CacheInv
<1>2. dir'[x] \in Numbers /\ dir'[x] # 0
  BY <1>1 DEF Numbers
<1>3. CASE dir[x] = 0
  <2>1. dir'[x] > dirs[x]
    BY <1>1, <1>3
  <2>2. log[x][dir'[x]] = {} /\ acked[x][dir'[x]] = {} /\ ~image[x][dir'[x]].there
    BY <1>2, <2>1 DEF Numbered
  <2>3. QED
    BY <1>2, <2>2 DEF AckedAt, LogAt
<1>4. CASE dir[x] # 0
  <2>1. dir'[x] = dir[x] /\ LogAt(x)' = LogAt(x) /\ AckedAt(x)' = {} /\ AckedAt(x) = {}
    BY <1>4 DEF LogAt, AckedAt
  <2>2. QED
    BY <1>2, <1>4, <2>1 DEF LogCounted
<1>5. QED
  BY <1>3, <1>4

\* Another that restores the index has its directory, or is the same request.
LEMMA OtherRestores ==
  ASSUME OneMaker, LastInv, NEW r \in Requests, ~undefined, NEW x, x = Index(r),
         pc[r] # "idle", req[r].kind \in {"create", "restore"},
         NEW q \in Requests, q # r, About(q, x), Restores(q)
  PROVE  dir[x] # 0 /\ Backed \subseteq ImageAt(x)
<1>1. CacheInv /\ Index(q) = Index(r) /\ x \in Indexes
  BY RequestIs DEF LastInv, About, Index
<1>2. pc[q] # "idle" /\ req[q].kind = "restore"
  BY <1>1 DEF Restores, CacheInv, Kinded
<1>3. ~Deletable(x)
  BY <1>1, <1>2, SameMaker DEF Deletable
<1>4. Restoring(x)
  BY <1>1 DEF LastInv, Steady
<1>5. QED
  BY <1>3, <1>4 DEF Restoring

\* A creation opens the databases of an index of which there is nothing.
LEMMA OpensSteady ==
  ASSUME OneMaker, LastInv, Undisturbed, NEW r \in Requests, CreateOpens(r), pc'[r] # "done", NEW x, x = Index(r)
  PROVE  Steady(x)' /\ Lasting(x)' /\ ServedAt(x)'
<1>1. CacheInv /\ CacheTypeOK /\ pc[r] = "open" /\ ~undefined
  BY DEF LastInv, CacheInv, CreateOpens, At
<1>2. x \in Indexes /\ req[r].kind = "create"
  BY <1>1, RequestIs DEF CacheInv, Kinded
<1>3. Steady(x)
  BY <1>1, <1>2 DEF LastInv
<1>4. ~(indices[x] # 0 \/ OpenedByOther(r))
  BY <1>1 DEF CreateOpens, Goto, CacheTypeOK
<1>5. /\ indices[x] = 0 /\ indices' = indices /\ made' = made /\ ref' = ref /\ pc'[r] = "publish"
      /\ image' = image /\ log' = log /\ acked' = acked
      /\ dir[x] = 0 => dirs[x] < MaxEntries
      /\ dirs'[x] = IF dir[x] # 0 THEN dirs[x] ELSE dirs[x] + 1
      /\ dir'[x] = IF dir[x] # 0 THEN dir[x] ELSE dirs[x] + 1
      /\ wal'[x] = IF wal[x].dir # 0 THEN wal[x] ELSE [dir |-> dir'[x], count |-> 0]
  BY <1>1, <1>2, <1>4 DEF CreateOpens, CacheTypeOK, Goto, cached
<1>6. /\ dir[x] \in 0 .. MaxEntries /\ dirs[x] \in 0 .. MaxEntries /\ MaxEntries \in Nat
      /\ wal[x].dir \in 0 .. MaxEntries
  BY <1>1, <1>2, DiskIs DEF CacheTypeOK
<1>7. dir[x] # 0 => acked[x][dir[x]] = {} /\ ~image[x][dir[x]].there
  BY <1>1 DEF Undisturbed, MadeAnew, Saved
<1>8. Numbered(x) /\ LogCounted(x)
  BY <1>3 DEF Steady
<1>9. /\ dir'[x] \in Numbers /\ AckedAt(x)' = {} /\ ~image[x][dir'[x]].there
      /\ wal[x].dir = 0 \/ wal[x].count = 0 => LogAt(x)' = {}
  BY <1>1, <1>2, <1>5, <1>7, <1>8, NewDirectory
<1>10. req' = req /\ \A q \in Requests \ {r} : Stays(q)
  BY <1>1, OthersStay DEF Step
<1>11. \A q \in Requests : About(q, x)' => About(q, x)
  BY <1>1, <1>10, StaysAs DEF About, Index
<1>12. ImageAt(x)' = {}
  BY <1>5, <1>8, <1>9 DEF ImageAt, Numbered
<1>13. dir'[x] # 0 /\ dir'[x] <= dirs'[x] /\ dirs[x] <= dirs'[x] /\ wal'[x].dir <= dirs'[x]
  <2>1. dir'[x] # 0 /\ dir'[x] <= dirs'[x] /\ dirs[x] <= dirs'[x] /\ dirs'[x] \in Nat
    BY <1>5, <1>6, <1>8 DEF Numbered
  <2>2. wal'[x].dir = wal[x].dir \/ wal'[x].dir = dir'[x]
    BY <1>5
  <2>3. wal[x].dir <= dirs[x]
    BY <1>8 DEF Numbered
  <2>4. wal[x].dir <= dirs'[x]
    BY <1>6, <2>1, <2>3
  <2>5. QED
    BY <2>1, <2>2, <2>4
<1>14. Numbered(x)'
  <2>1. \A n \in Numbers : n > dirs'[x] => n > dirs[x]
    BY <1>6, <1>5, <1>13 DEF Numbers
  <2>2. QED
    BY <1>5, <1>8, <1>11, <1>13, <2>1 DEF Numbered
<1>15. LogCounted(x)'
  <2>1. wal[x].dir # 0 => wal'[x] = wal[x]
    BY <1>5
  <2>2. wal[x].dir = 0 => wal'[x].dir # 0
    BY <1>5, <1>13
  <2>3. QED
    BY <1>9, <2>1, <2>2 DEF LogCounted
<1>16. Opening(x)'
  BY <1>9, <1>12 DEF Opening
<1>17. Restoring(x)'
  <2>1. \A q \in Requests : ~Uses(q, x)'
    BY <1>5 DEF Uses
  <2>2. ASSUME NEW q \in Requests, About(q, x)', Restores(q)' PROVE Backed \subseteq ImageAt(x)'
    <3>1. q # r /\ About(q, x) /\ Restores(q)
      BY <1>5, <1>10, <1>11, <2>2, StaysAs DEF Restores
    <3>2. dir[x] # 0 /\ Backed \subseteq ImageAt(x)
      BY <1>1, <1>2, <3>1, OtherRestores
    <3>3. ImageAt(x)' = ImageAt(x)
      BY <1>5, <3>2 DEF ImageAt
    <3>4. QED
      BY <3>2, <3>3
  <2>3. QED
    BY <1>13, <2>1, <2>2 DEF Restoring
<1>18. QED
  BY <1>5, <1>9, <1>14, <1>15, <1>16, <1>17, EmptySteady

\* A backup is copied to an index of which there is nothing in memory.
LEMMA CopiedSteady ==
  ASSUME OneMaker, LastInv, Undisturbed, NEW r \in Requests, pc[r] = "copy", ~undefined, NEW whole \in BOOLEAN,
         CopyBackup(r, whole), Step(r), pc'[r] = "done" \/ (pc'[r] = "restoreMeta" /\ whole), NEW x, x = Index(r)
  PROVE  /\ Lasting(x)' /\ ServedAt(x)'
         /\ ~undefined' => Steady(x)'
<1>1. CacheInv /\ CacheTypeOK
  BY DEF LastInv, CacheInv
<1>2. x \in Indexes /\ req[r].kind = "restore"
  BY <1>1, RequestIs DEF CacheInv, Kinded
<1>3. Steady(x)
  BY <1>2 DEF LastInv
<1>4. /\ indices' = indices /\ made' = made /\ ref' = ref /\ log' = log /\ acked' = acked /\ wal' = wal
      /\ dir[x] = 0 => dirs[x] < MaxEntries
      /\ dirs'[x] = IF dir[x] # 0 THEN dirs[x] ELSE dirs[x] + 1
      /\ dir'[x] = IF dir[x] # 0 THEN dir[x] ELSE dirs[x] + 1
      /\ ~undefined' => indices[x] = 0 /\ ~OpenedByOther(r)
  BY <1>1, <1>2 DEF CopyBackup, CacheTypeOK, own, cached
<1>5. dir[x] \in 0 .. MaxEntries /\ dirs[x] \in 0 .. MaxEntries /\ MaxEntries \in Nat
  BY <1>1, <1>2, DiskIs
<1>6. dir[x] # 0 => acked[x][dir[x]] = {}
  BY DEF Undisturbed, MadeAnew
<1>7. Numbered(x) /\ LogCounted(x) /\ Opening(x) /\ Restoring(x)
  BY <1>3 DEF Steady
<1>8. /\ dir'[x] \in Numbers /\ AckedAt(x)' = {}
      /\ dir[x] = 0 => ~image[x][dir'[x]].there
      /\ wal[x].dir = 0 \/ wal[x].count = 0 => LogAt(x)' = {}
  BY <1>1, <1>2, <1>4, <1>6, <1>7, NewDirectory
<1>9. Lasting(x)' /\ ServedAt(x)'
  BY <1>8 DEF Lasting, ServedAt
<1> SUFFICES ASSUME ~undefined' PROVE Steady(x)'
  BY <1>9
<1>10. req' = req /\ \A q \in Requests \ {r} : Stays(q)
  BY <1>1, OthersStay
<1>11. \A q \in Requests : About(q, x)' => About(q, x)
  BY <1>10, StaysAs DEF About, Index
<1>12. \/ image' = image /\ ~whole
       \/ /\ image'[x][dir'[x]] = [there |-> TRUE, graph |-> Backed]
          /\ \A n \in Numbers \ {dir'[x]} : image'[x][n] = image[x][n]
  BY <1>1, <1>2, <1>8 DEF CopyBackup, CacheTypeOK
<1>13. dir'[x] # 0 /\ dir'[x] <= dirs'[x] /\ dirs[x] <= dirs'[x] /\ wal'[x].dir <= dirs'[x]
  <2>1. wal[x].dir \in Int
    BY <1>1, <1>2, IndexCacheAssumption DEF CacheTypeOK
  <2>2. QED
    BY <1>4, <1>5, <1>7, <2>1 DEF Numbered
<1>14. Numbered(x)'
  <2>1. ASSUME NEW n \in Numbers, n > dirs'[x] PROVE n > dirs[x] /\ n # dir'[x]
    BY <1>4, <1>5, <1>7, <1>13, <2>1 DEF Numbers, Numbered
  <2>2. ASSUME NEW n \in Numbers PROVE image'[x][n] = image[x][n] \/ (n = dir'[x] /\ image'[x][n].there)
    BY <1>12
  <2>3. QED
    BY <1>4, <1>7, <1>11, <1>13, <2>1, <2>2 DEF Numbered
<1>15. LogCounted(x)'
  BY <1>4, <1>8 DEF LogCounted
<1>16. Opening(x)'
  <2>1. SUFFICES ASSUME NEW q \in Requests, About(q, x)', pc'[q] = "publish" PROVE FALSE
    BY DEF Opening
  <2>2. q # r /\ pc[q] = "publish" /\ Index(q) = x
    BY <1>10, <1>11, <2>1 DEF Stays, About, Index
  <2>3. OpenedByOther(r)
    BY <1>1, <1>2, <2>2, NoOther
  <2>4. QED
    BY <1>4, <2>3
<1>17. Restoring(x)'
  <2>1. \A q \in Requests : ~Uses(q, x)'
    BY <1>4 DEF Uses
  <2>2. ASSUME NEW q \in Requests, About(q, x)', Restores(q)' PROVE Backed \subseteq ImageAt(x)'
    <3>1. CASE image'[x][dir'[x]] = [there |-> TRUE, graph |-> Backed]
      BY <1>13, <3>1 DEF ImageAt
    <3>2. CASE image' = image /\ ~whole
      <4>1. q # r
        BY <2>2, <3>2 DEF Restores
      <4>2. About(q, x) /\ Restores(q)
        BY <1>10, <1>11, <2>2, <4>1, StaysAs
      <4>3. dir[x] # 0 /\ Backed \subseteq ImageAt(x)
        BY <1>2, <4>1, <4>2, OtherRestores
      <4>4. QED
        BY <1>4, <3>2, <4>3 DEF ImageAt
    <3>3. QED
      BY <1>12, <3>1, <3>2
  <2>3. QED
    BY <1>13, <2>1, <2>2 DEF Restoring
<1>18. QED
  BY <1>4, <1>8, <1>14, <1>15, <1>16, <1>17, EmptySteady

-------------------------------------------------------------------------------
(* Where the requests are.                                                 *)

\* A request that holds indices_mutex_ keeps the directory of its index.
LEMMA DirectoryStays ==
  ASSUME CacheInv, NEW r \in Requests, Step(r), NEW q \in Requests, mapMutex = q, pc[r] # "move",
         dir[Index(q)] # 0, Index(q) \in Indexes
  PROVE  dir'[Index(q)] # 0
<1>1. CacheTypeOK
  BY DEF CacheInv
<1>2. ~Move(r)
  BY DEF Move, At
<1>3. CASE dir' = dir
  BY <1>3
<1>4. CASE CreateOpens(r)
  BY <1>1, <1>4 DEF CreateOpens, CacheTypeOK
<1>5. CASE RestoreCopies(r) \/ RestoreFails(r)
  BY <1>1, <1>5 DEF RestoreCopies, RestoreFails, CopyBackup, CacheTypeOK
<1>6. QED
  BY <1>2, <1>3, <1>4, <1>5, SameDirectories

\* What Staged says of one request.
StagedAt(r) ==
  /\ pc[r] = "idle" => ref[r] = 0
  /\ mapMutex = r => pc[r] \in Locking \cup {"recover", "replay"} \cup SaveStages
  /\ pc[r] = "replay" /\ req[r].kind # "restore" => mapMutex = r
  /\ mapMutex = r /\ pc[r] \in {"recover", "replay"} \cup SaveStages => dir[Index(r)] # 0
  /\ req[r].kind = "restore" =>
       /\ mapMutex # r
       /\ pc[r] \in {"idle", "askRestore", "copy", "restoreMeta", "restoreLoad", "recover", "replay",
                     "answer", "done"} \cup SaveStages
  /\ pc[r] = "answer" => req[r].kind = "restore"
  /\ pc[r] \in {"log", "link", "mark"} => req[r].kind = "write"

\* Of the others nothing changes.
LEMMA OthersStaged ==
  ASSUME CacheInv, Staged, NEW r \in Requests, Step(r), NEW q \in Requests \ {r}
  PROVE  StagedAt(q)'
<1>1. req' = req /\ Stays(q)
  BY OthersStay
<1>2. /\ pc'[q] = pc[q] /\ ref'[q] = ref[q] /\ (mapMutex' = q <=> mapMutex = q) /\ Index(q)' = Index(q)
  BY <1>1 DEF Stays, Index
<1>3. ASSUME mapMutex = q, pc[q] \in {"recover", "replay"} \cup SaveStages PROVE dir'[Index(q)] # 0
  <2>1. pc[q] # "idle" /\ dir[Index(q)] # 0
    BY <1>3 DEF Staged, SaveStages
  <2>2. Index(q) \in Indexes
    BY <2>1, RequestIs
  <2>3. pc[r] # "move"
    BY <1>3 DEF CacheInv, Locked, Locking
  <2>4. QED
    BY <1>3, <2>1, <2>2, <2>3, DirectoryStays
<1>4. QED
  BY <1>1, <1>2, <1>3 DEF Staged, StagedAt

LEMMA UsedStaged ==
  ASSUME LastInv, NEW r \in Requests, UsedStep(r)
  PROVE  StagedAt(r)'
<1>1. /\ CacheInv /\ Staged /\ UNCHANGED <<req, ref, mapMutex, dir>> /\ pc[r] # "idle"
      /\ pc'[r] \notin {"idle", "publish"}
  BY UsedBefore, UsedFrame DEF LastInv
<1>2. Index(r)' = Index(r)
  BY <1>1 DEF Index
<1>3. Locked
  BY <1>1 DEF CacheInv
<1>4. CASE ReadLog(r) \/ Replay(r)
  BY <1>1, <1>2, <1>3, <1>4, UsedStages DEF Staged, StagedAt, Locked, Locking, SaveStages
<1>5. CASE SaveImage(r) \/ SaveClear(r) \/ SaveDone(r)
  BY <1>1, <1>2, <1>5, UsedStages DEF Staged, StagedAt, Locking, SaveStages
<1>6. CASE SaveFails(r)
  <2>1. mapMutex # r
    BY <1>1, <1>6 DEF SaveFails, Using, At, Staged, SaveStages
  <2>2. pc'[r] = "done"
    BY <1>1, <1>6, UsedStages
  <2>3. QED
    BY <1>1, <1>2, <2>1, <2>2 DEF Staged, StagedAt, SaveStages
<1>7. CASE LockOp(r) \/ LogWrite(r) \/ LogFails(r) \/ Link(r) \/ Mark(r) \/ Unlock(r) \/ RestoreAnswers(r)
  <2>1. pc[r] \in {"lockOp", "log", "link", "mark", "unlock", "answer"}
    BY <1>1, <1>7, UsedStages
  <2>2. mapMutex # r
    BY <1>1, <2>1 DEF Staged, Locking, SaveStages
  <2>3. req[r].kind = "restore" => pc[r] = "answer"
    BY <1>1, <2>1 DEF Staged, SaveStages
  <2>4. QED
    BY <1>1, <1>2, <1>7, <2>2, <2>3, UsedStages DEF Staged, StagedAt, SaveStages
<1>8. QED
  BY <1>4, <1>5, <1>6, <1>7 DEF UsedStep

\* A stage of which only the lock is said.
Plain == {"find", "lockMap", "load", "evict", "evicting", "fetch", "lockOp", "use", "askMeta", "lockToEvict",
          "open", "publish", "storeMeta", "erase", "move", "done"}

LEMMA OtherStaged ==
  ASSUME LastInv, ~undefined, NEW r \in Requests, Step(r), ~UsedStep(r)
  PROVE  StagedAt(r)'
<1>1. /\ CacheInv /\ Staged /\ req' = req /\ CacheTypeOK /\ pc \in [Requests -> Stages] /\ Kinded /\ Locked
      /\ NoRequest # r
  BY OthersStay, IndexCacheAssumption DEF LastInv, CacheInv, CacheTypeOK
<1>2. ASSUME NEW s, Goto(r, s) PROVE pc'[r] = s
  BY <1>1, <1>2 DEF Goto
<1>3. Index(r)' = Index(r)
  BY <1>1 DEF Index
<1>4. ASSUME pc'[r] \in Plain, req[r].kind = "restore" => pc'[r] = "done" /\ mapMutex' # r,
             mapMutex' = r => pc'[r] \in Locking
      PROVE  StagedAt(r)'
  BY <1>1, <1>4 DEF StagedAt, Plain, SaveStages, Locking
<1>5. pc[r] \in Plain \cup {"autosave", "lockToErase"} => req[r].kind # "restore" \/ pc[r] = "done"
  BY <1>1 DEF Staged, Plain, SaveStages
<1>6. ASSUME pc[r] \in {"find", "lockMap", "use", "autosave", "askMeta", "lockToEvict", "open", "publish",
                        "storeMeta", "lockToErase", "askRestore", "copy", "restoreMeta", "restoreLoad"}
      PROVE  mapMutex # r
  BY <1>1, <1>6 DEF Staged, Locking, SaveStages
<1>7. CASE Find(r) \/ LockMap(r) \/ LoadFails(r) \/ Fetch(r)
  <2>1. /\ pc[r] \in {"find", "lockMap", "load", "fetch"}
        /\ pc'[r] \in {"lockMap", "use", "lockOp", "load", "fetch", "done"}
        /\ mapMutex' = r => pc'[r] \in {"load", "fetch"} \/ (mapMutex = r /\ pc[r] = "find")
    BY <1>1, <1>2, <1>7 DEF Find, LockMap, LoadFails, Fetch, At, Work, world
  <2>2. QED
    BY <1>4, <1>5, <1>6, <2>1 DEF Plain, Locking
<1>8. CASE Evict(r) \/ EvictEnds(r) \/ EvictLast(r)
  <2>1. /\ pc[r] \in {"evict", "evicting"} /\ pc'[r] \in {"evicting", "open", "fetch"}
        /\ mapMutex' = r => pc'[r] \in {"evicting", "fetch"}
    BY <1>1, <1>2, <1>8 DEF Evict, EvictEnds, EvictLast, AfterEviction, At
  <2>2. QED
    BY <1>4, <1>5, <2>1 DEF Plain, Locking
<1>9. CASE Read(r) \/ Autosave(r) \/ CreateAsks(r) \/ LockToEvict(r) \/ LockToErase(r)
  <2>1. /\ pc[r] \in {"use", "autosave", "askMeta", "lockToEvict", "lockToErase"}
        /\ pc'[r] \in {"done", "find", "lockToEvict", "evict", "erase"}
        /\ mapMutex' = mapMutex \/ pc'[r] \in {"evict", "erase"}
    BY <1>2, <1>9 DEF Read, Autosave, CreateAsks, LockToEvict, LockToErase, At, Using, world
  <2>2. QED
    BY <1>4, <1>5, <1>6, <2>1 DEF Plain, Locking
<1>10. CASE CreateOpens(r) \/ CreatePublishes(r) \/ CreateStoresMeta(r)
  <2>1. /\ pc[r] \in {"open", "publish", "storeMeta"} /\ pc'[r] \in {"done", "publish", "storeMeta", "find"}
        /\ mapMutex' = mapMutex
    BY <1>2, <1>10 DEF CreateOpens, CreatePublishes, CreateStoresMeta, At
  <2>2. QED
    BY <1>4, <1>5, <1>6, <2>1 DEF Plain, Locking
<1>11. CASE Erase(r) \/ Move(r)
  <2>1. /\ pc[r] \in {"erase", "move"} /\ pc'[r] \in {"move", "done"}
        /\ mapMutex' = r => pc'[r] = "move"
    BY <1>1, <1>2, <1>11 DEF Erase, Move, At
  <2>2. QED
    BY <1>4, <1>5, <2>1 DEF Plain, Locking
<1>12. CASE RecoveryFails(r)
  <2>1. /\ pc[r] = "recover" /\ dir[Index(r)] = 0 /\ pc'[r] = "done" /\ mapMutex' = mapMutex
    BY <1>2, <1>12 DEF RecoveryFails, Using, At, CanOpenLog, world
  <2>2. mapMutex # r
    BY <1>1, <2>1 DEF Staged
  <2>3. QED
    BY <1>4, <2>1, <2>2 DEF Plain
<1>13. CASE Load(r)
  <2>1. /\ pc[r] = "load" /\ dir[Index(r)] # 0 /\ dir' = dir /\ pc'[r] = "recover" /\ mapMutex' = mapMutex
    BY <1>2, <1>13 DEF Load, At, Loadable, Saved, disk
  <2>2. req[r].kind # "restore"
    BY <1>5, <2>1 DEF Plain
  <2>3. QED
    BY <1>1, <1>3, <2>1, <2>2 DEF StagedAt, SaveStages
<1>14. CASE RestoreAsks(r) \/ RestoreCopies(r) \/ RestoreFails(r) \/ RestoreStoresMeta(r) \/ RestoreLoads(r)
  <2>1. /\ pc[r] \in {"askRestore", "copy", "restoreMeta", "restoreLoad"}
        /\ pc'[r] \in {"done", "copy", "restoreMeta", "restoreLoad", "recover"} /\ mapMutex' = mapMutex
    BY <1>2, <1>14 DEF RestoreAsks, RestoreCopies, RestoreFails, RestoreStoresMeta, RestoreLoads, CopyBackup,
           At, world
  <2>2. req[r].kind = "restore" /\ mapMutex # r
    BY <1>1, <1>6, <2>1 DEF Kinded
  <2>3. QED
    BY <1>1, <2>1, <2>2 DEF StagedAt, SaveStages
<1>15. QED
  BY <1>7, <1>8, <1>9, <1>10, <1>11, <1>12, <1>13, <1>14 DEF Step, GetStep, UsedStep

LEMMA StagedKept ==
  ASSUME LastInv, ~undefined, NEW r \in Requests, Step(r)
  PROVE  Staged'
<1>1. CacheInv /\ Staged
  BY DEF LastInv
<1>2. \A q \in Requests : StagedAt(q)'
  BY <1>1, OthersStaged, UsedStaged, OtherStaged
<1>3. QED
  BY <1>2 DEF StagedAt, Staged

-------------------------------------------------------------------------------
(* The invariant is kept.                                                  *)

\* Nothing happens any more when an erased entry was used.
LEMMA DefinedBefore ==
  ASSUME NEW r \in Requests, Step(r)
  PROVE  ~undefined
BY DEF Step, GetStep, Find, LockMap, LoadFails, Load, ReadLog, RecoveryFails, Replay, Fetch, Evict, EvictEnds,
       EvictLast, SaveImage, SaveFails, SaveClear, SaveDone, LockOp, LogWrite, LogFails, Link, Mark, Unlock, Read,
       Autosave, CreateAsks, LockToEvict, CreateOpens, CreatePublishes, CreateStoresMeta, LockToErase, Erase, Move,
       RestoreAsks, RestoreCopies, RestoreFails, RestoreStoresMeta, RestoreLoads, RestoreAnswers, Using, At

LEMMA StepSorts ==
  ASSUME NEW r \in Requests, Step(r)
  PROVE  \/ UsedStep(r) \/ QuietStep(r) \/ Publishes(r)
         \/ CreateOpens(r) /\ pc'[r] # "done"
         \/ RestoreCopies(r) \/ RestoreFails(r)
BY DEF Step, GetStep, UsedStep, QuietStep, Publishes

LEMMA StepLasts ==
  ASSUME OneMaker, LastInv, Undisturbed, NEW r \in Requests, Step(r), NEW x \in Indexes
  PROVE  /\ Lasting(x)' /\ ServedAt(x)'
         /\ ~undefined' => Steady(x)'
<1>1. ~undefined /\ CacheInv /\ CacheTypeOK
  BY DefinedBefore DEF LastInv, CacheInv
<1>2. CASE x # Index(r) \/ QuietStep(r)
  BY <1>1, <1>2, LeftKept
<1>3. CASE x = Index(r) /\ UsedStep(r)
  BY <1>3, UsedSteady
<1>4. CASE x = Index(r) /\ Publishes(r)
  BY <1>4, PublishedSteady
<1>5. CASE x = Index(r) /\ CreateOpens(r) /\ pc'[r] # "done"
  BY <1>5, OpensSteady
<1>6. CASE x = Index(r) /\ (RestoreCopies(r) \/ RestoreFails(r))
  <2>1. /\ pc[r] = "copy"
        /\ \E whole \in BOOLEAN :
             CopyBackup(r, whole) /\ (pc'[r] = "done" \/ (pc'[r] = "restoreMeta" /\ whole))
    BY <1>1, <1>6 DEF RestoreCopies, RestoreFails, At, Goto, CacheTypeOK
  <2>2. PICK whole \in BOOLEAN :
          CopyBackup(r, whole) /\ (pc'[r] = "done" \/ (pc'[r] = "restoreMeta" /\ whole))
    BY <2>1
  <2>3. QED
    BY <1>1, <1>6, <2>1, <2>2, CopiedSteady
<1>7. QED
  BY <1>2, <1>3, <1>4, <1>5, <1>6, StepSorts

\* A request begins.
LEMMA BeginLasts ==
  ASSUME LastInv, NEW r \in Requests, NEW ask \in Asks, ask[1] = r, Begin(r, ask[2], ask[3])
  PROVE  Staged' /\ \A x \in Indexes : Steady(x)' /\ Lasting(x)' /\ ServedAt(x)'
<1>1. CacheInv /\ ~undefined
  BY DEF LastInv, Begin, At
<1>2. Staged /\ \A x \in Indexes : Steady(x) /\ Lasting(x) /\ ServedAt(x)
  BY <1>1 DEF LastInv
<1>3. /\ pc[r] = "idle" /\ world' = world
      /\ req'[r].kind = ask[2]
      /\ \A q \in Requests \ {r} : pc'[q] = pc[q] /\ req'[q] = req[q]
      /\ pc'[r] \in {"find", "autosave", "askMeta", "lockToErase", "askRestore"}
      /\ UNCHANGED <<ref, records>>
  BY <1>1, Begins
<1>4. /\ indices' = indices /\ entry' = entry /\ made' = made /\ dir' = dir /\ dirs' = dirs /\ image' = image
      /\ log' = log /\ wal' = wal /\ acked' = acked /\ mapMutex' = mapMutex
  BY <1>3 DEF world, cached, disk
<1>5. ref[r] = 0 /\ mapMutex # r
  BY <1>2, <1>3 DEF Staged, Locking, SaveStages
<1>6. \A q \in Requests \ {r} : Stays(q)
  BY <1>3, <1>4 DEF Stays
<1>7. Staged'
  <2>1. ask[2] = "restore" => pc'[r] = "askRestore"
    <3>1. pc \in [Requests -> Stages]
      BY <1>1 DEF CacheInv, CacheTypeOK
    <3>2. QED
      BY <3>1 DEF Begin, Goto
  <2>2. StagedAt(r)'
    BY <1>3, <1>4, <1>5, <2>1 DEF StagedAt, SaveStages
  <2>3. ASSUME NEW q \in Requests \ {r} PROVE StagedAt(q)'
    <3>1. Index(q)' = Index(q)
      BY <1>3 DEF Index
    <3>2. QED
      BY <1>2, <1>3, <1>4, <3>1 DEF Staged, StagedAt
  <2>4. QED
    BY <2>2, <2>3 DEF Staged, StagedAt
<1>8. ASSUME NEW x \in Indexes PROVE Steady(x)' /\ Lasting(x)' /\ ServedAt(x)'
  <2>1. Left(x)
    BY <1>4 DEF Left
  <2>2. \A q \in Requests : About(q, x)' /\ pc'[q] \in Loud => Stays(q)
    BY <1>3, <1>6 DEF Loud, SaveStages
  <2>3. \A q \in Requests : About(q, x)' /\ Restores(q)' => About(q, x) /\ Restores(q)
    BY <1>3, <1>6, StaysAs DEF Restores
  <2>4. made[x] \in Nat
    BY <1>1, IndexCacheAssumption DEF CacheInv, CacheTypeOK
  <2>5. \A q \in Requests : About(q, x)' => ref'[q] <= made[x]
    <3>1. ref'[r] <= made[x]
      BY <1>3, <1>5, <2>4
    <3>2. QED
      BY <1>2, <1>6, <3>1, StaysAs DEF Steady, Numbered, Stays
  <2>6. \A q \in Requests : pc[q] = "mark" /\ About(q, x) => pc'[q] = "mark" /\ About(q, x)'
    <3>1. ASSUME NEW q \in Requests, pc[q] = "mark", About(q, x) PROVE Stays(q)
      BY <1>3, <1>6, <3>1
    <3>2. QED
      BY <3>1, StaysAs DEF Stays
  <2>7. \A q \in Requests : pc[q] \in {"recover", "replay"} /\ About(q, x) => Stays(q) \/ dir'[x] = 0
    BY <1>3, <1>6
  <2>8. Steady(x)'
    BY <1>1, <1>2, <2>1, <2>2, <2>3, <2>5, <2>6, LeftSteady
  <2>9. Lasting(x)' /\ ServedAt(x)'
    BY <1>1, <1>2, <2>1, <2>7, LeftLasts
  <2>10. QED
    BY <2>8, <2>9
<1>9. QED
  BY <1>7, <1>8

LEMMA LastKept ==
  ASSUME OneMaker, LastInv, Undisturbed, [Next]_vars
  PROVE  LastInv'
<1>1. CacheInv'
  BY TypesKept, ListKept, AskedKept, PublishingKept, EvictingKept DEF CacheInv, LastInv
<1>2. CASE UNCHANGED vars
  <2>1. /\ pc' = pc /\ req' = req /\ ref' = ref /\ records' = records /\ mapMutex' = mapMutex /\ undefined' = undefined
        /\ indices' = indices /\ entry' = entry /\ made' = made /\ dir' = dir /\ dirs' = dirs /\ image' = image
        /\ log' = log /\ wal' = wal /\ acked' = acked
    BY <1>2 DEF vars, own, world, cached, disk
  <2>2. CacheInv
    BY DEF LastInv
  <2>3. \A q \in Requests : Stays(q)
    BY <2>1 DEF Stays
  <2>4. ASSUME NEW x \in Indexes PROVE Lasting(x)' /\ ServedAt(x)' /\ (~undefined' => Steady(x)')
    <3>1. Left(x)
      BY <2>1 DEF Left
    <3>2. Lasting(x)' /\ ServedAt(x)'
      BY <2>2, <2>3, <3>1, LeftLasts DEF LastInv
    <3>3. ASSUME ~undefined' PROVE Steady(x)'
      <4>1. Steady(x)
        BY <2>1, <3>3 DEF LastInv
      <4>2. \A q \in Requests : About(q, x)' => ref'[q] <= made[x]
        BY <2>1, <2>3, <4>1, StaysAs DEF Steady, Numbered
      <4>3. \A q \in Requests : /\ About(q, x)' /\ Restores(q)' => About(q, x) /\ Restores(q)
                                /\ pc[q] = "mark" /\ About(q, x) => pc'[q] = "mark" /\ About(q, x)'
        BY <2>1, <2>3, StaysAs
      <4>4. QED
        BY <2>2, <2>3, <3>1, <4>1, <4>2, <4>3, LeftSteady
    <3>4. QED
      BY <3>2, <3>3
  <2>5. ~undefined' => Staged'
    <3>1. \A q \in Requests : Index(q)' = Index(q)
      BY <2>1 DEF Index
    <3>2. QED
      BY <2>1, <3>1 DEF LastInv, Staged
  <2>6. QED
    BY <1>1, <2>4, <2>5 DEF LastInv
<1>3. CASE \E r \in Requests : \E ask \in Asks : ask[1] = r /\ Begin(r, ask[2], ask[3])
  BY <1>1, <1>3, BeginLasts DEF LastInv
<1>4. ASSUME NEW r \in Requests, Step(r) PROVE LastInv'
  <2>1. ~undefined
    BY <1>4, DefinedBefore
  <2>2. Staged'
    BY <1>4, <2>1, StagedKept
  <2>3. \A x \in Indexes : Lasting(x)' /\ ServedAt(x)' /\ (~undefined' => Steady(x)')
    BY <1>4, StepLasts
  <2>4. QED
    BY <1>1, <2>2, <2>3 DEF LastInv
<1>5. ASSUME NEW r \in Requests, UseErased(r) PROVE LastInv'
  <2>1. undefined' /\ pc' = pc /\ UNCHANGED <<own, cached, disk, acked>>
    BY <1>5 DEF UseErased
  <2>2. ASSUME NEW x \in Indexes PROVE Lasting(x)' /\ ServedAt(x)'
    <3>1. Lasting(x) /\ ServedAt(x)
      BY DEF LastInv
    <3>2. indices' = indices /\ entry' = entry /\ dir' = dir /\ image' = image /\ log' = log /\ ref' = ref /\ req' = req
      BY <2>1 DEF own, cached, disk
    <3>3. Lasting(x)'
      BY <2>1, <3>1, <3>2 DEF Lasting, AckedAt, ImageAt, LogAt
    <3>4. Recovering(x)' = Recovering(x)
      BY <2>1, <3>2 DEF Recovering, Index
    <3>5. ServedAt(x)'
      BY <2>1, <3>1, <3>2, <3>4 DEF ServedAt, AckedAt, GraphOf
    <3>6. QED
      BY <3>3, <3>5
  <2>3. QED
    BY <1>1, <2>1, <2>2 DEF LastInv
<1>6. QED
  BY <1>2, <1>3, <1>4, <1>5 DEF Next, Rest

LEMMA InitLast == Init => LastInv
<1> SUFFICES ASSUME Init PROVE LastInv
  OBVIOUS
<1>1. CacheInv /\ MaxEntries \in Nat \ {0}
  BY InitCacheInv, IndexCacheAssumption
<1>2. /\ pc = [r \in Requests |-> "idle"] /\ ref = [r \in Requests |-> 0] /\ mapMutex = NoRequest
      /\ req = [r \in Requests |-> [kind |-> "none", index |-> "none"]]
  BY DEF Init
<1>3. Staged
  BY <1>2, IndexCacheAssumption DEF Staged, SaveStages
<1>4. ASSUME NEW x \in Indexes PROVE Steady(x) /\ Lasting(x) /\ ServedAt(x)
  <2>1. /\ indices[x] = 0 /\ made[x] = 0 /\ dir[x] = (IF x \in Existing THEN 1 ELSE 0) /\ dirs[x] = dir[x]
        /\ wal[x] = NoWal
    BY DEF Init
  <2>2. wal[x].dir = 0
    BY <2>1 DEF NoWal
  <2>3. ASSUME NEW n \in Numbers
        PROVE  /\ log[x][n] = IF x \in Existing /\ n = 1 THEN Logged[x] ELSE {}
               /\ acked[x][n] = log[x][n]
               /\ image[x][n].there = (x \in Existing /\ n = 1) /\ image[x][n].graph = {}
    <3>1. n # 0 /\ n \in 0 .. MaxEntries
      BY <1>1 DEF Numbers
    <3>2. log[x][n] = (IF x \in Existing /\ n = 1 THEN Logged[x] ELSE {}) /\ acked[x][n] = log[x][n]
      BY <3>1 DEF Init
    <3>3. image[x][n] = [NoImage EXCEPT !.there = x \in Existing /\ n = 1]
      BY DEF Init
    <3>4. image[x][n].there = (x \in Existing /\ n = 1) /\ image[x][n].graph = {}
      BY <3>3 DEF NoImage
    <3>5. QED
      BY <3>2, <3>4
  <2>4. 1 \in Numbers
    BY <1>1 DEF Numbers
  <2>5. \A q \in Requests : ~About(q, x) /\ ~Uses(q, x)
    BY <1>2 DEF About, Uses
  <2>6. LogAt(x) = AckedAt(x)
    BY <2>1, <2>3, <2>4 DEF LogAt, AckedAt
  <2>7. Numbered(x)
    <3>1. \A n \in Numbers : n > dirs[x] => ~(x \in Existing /\ n = 1)
      BY <2>1
    <3>2. indices[x] <= made[x] /\ dir[x] <= dirs[x] /\ wal[x].dir <= dirs[x]
      BY <2>1, <2>2
    <3>3. ASSUME NEW n \in Numbers
          PROVE  /\ n > dirs[x] => log[x][n] = {} /\ acked[x][n] = {} /\ ~image[x][n].there
                 /\ ~image[x][n].there => image[x][n].graph = {}
      BY <2>3, <3>1
    <3>4. \A q \in Requests : About(q, x) => ref[q] <= made[x]
      BY <2>5
    <3>5. QED
      BY <3>2, <3>3, <3>4 DEF Numbered
  <2>8. OneOwner(x) /\ Holders(x) /\ Reading(x) /\ Saving(x) /\ Writing(x) /\ Opening(x) /\ Restoring(x)
    BY <2>5 DEF OneOwner, Holders, Reading, Saving, Writing, Opening, Restoring
  <2>9. LogCounted(x) /\ Grown(x) /\ Clean(x)
    BY <2>1, <2>2, <2>6 DEF LogCounted, Grown, Clean
  <2>10. Lasting(x) /\ ServedAt(x)
    BY <2>1, <2>6 DEF Lasting, ServedAt
  <2>11. QED
    BY <2>7, <2>8, <2>9, <2>10 DEF Steady
<1>5. QED
  BY <1>1, <1>3, <1>4 DEF LastInv

\* If none of the overlaps that Undisturbed names takes place (the code excludes none of them), an
\* acknowledged write of an index that exists is in its image or its log after every step, of
\* recoveries, evictions, saves, deletions, creations and restores in any order.
THEOREM WritesLast == OneMaker => (Spec /\ []Undisturbed => []Durable)
<1> SUFFICES ASSUME OneMaker PROVE Spec /\ []Undisturbed => []Durable
  OBVIOUS
<1>1. LastInv /\ Undisturbed /\ [Next]_vars => LastInv'
  BY LastKept
<1>2. LastInv => Durable
  BY LastIs DEF LastInv
<1>3. QED
  BY <1>1, <1>2, InitLast, PTL DEF Spec

\* Then an index in memory that nobody recovers has the acknowledged writes in its graph.
THEOREM ServedWhole == OneMaker => (Spec /\ []Undisturbed => []Served)
<1> SUFFICES ASSUME OneMaker PROVE Spec /\ []Undisturbed => []Served
  OBVIOUS
<1>1. LastInv /\ Undisturbed /\ [Next]_vars => LastInv'
  BY LastKept
<1>2. LastInv => Served
  BY LastIs DEF LastInv
<1>3. QED
  BY <1>1, <1>2, InitLast, PTL DEF Spec

\* Who loses its entry: it was erased, or evicted when it was not marked.
LEMMA Leaving ==
  ASSUME LastInv, [Next]_vars, NEW x \in Indexes, indices[x] # 0, indices'[x] = 0
  PROVE  \/ \E r \in Requests : pc[r] = "erase" /\ Index(r) = x
         \/ entry[x][indices[x]].holder # NoRequest /\ pc[entry[x][indices[x]].holder] = "mark"
         \/ dir[x] = 0 \/ entry[x][indices[x]].graph \subseteq image[x][dir[x]].graph
<1>1. CacheInv /\ indices \in [Indexes -> 0 .. MaxEntries]
  BY DEF LastInv, CacheInv, CacheTypeOK
<1>2. \E r \in Requests : Step(r)
  <2>1. indices' # indices
    OBVIOUS
  <2>2. \A r \in Requests : ~UseErased(r)
    BY <2>1 DEF UseErased, cached
  <2>3. \A r \in Requests, ask \in Asks : ~Begin(r, ask[2], ask[3])
    BY <2>1 DEF Begin, world, cached
  <2>4. ~UNCHANGED vars
    BY <2>1 DEF vars, world, cached
  <2>5. QED
    BY <2>2, <2>3, <2>4 DEF Next, Rest
<1>3. PICK r \in Requests : Step(r)
  BY <1>2
<1>4. ~Load(r) /\ ~RestoreLoads(r) /\ ~CreatePublishes(r)
  <2>1. Load(r) \/ RestoreLoads(r) \/ CreatePublishes(r) =>
          indices' = indices \/ \E n \in Nat \ {0} : indices' = [indices EXCEPT ![Index(r)] = n]
    BY <1>1, Publications
  <2>2. QED
    BY <1>1, <2>1
<1>5. CASE Erase(r)
  <2>1. pc[r] = "erase" /\ indices' = [indices EXCEPT ![Index(r)] = 0]
    BY <1>5 DEF Erase, At
  <2>2. Index(r) = x
    BY <1>1, <2>1
  <2>3. QED
    BY <2>1, <2>2
<1>6. CASE EvictLast(r)
  <2>1. ~undefined
    BY <1>3, DefinedBefore
  <2>2. Last(list) = x /\ ~entry[x][indices[x]].updated
    BY <1>1, <1>6 DEF EvictLast
  <2>3. Clean(x)
    BY <2>1 DEF LastInv, Steady
  <2>4. \/ dir[x] = 0 \/ GraphOf(x) \subseteq ImageAt(x)
        \/ \E h \in Requests : HolderOf(x) = h /\ About(h, x) /\ pc[h] = "mark"
    BY <2>2, <2>3 DEF Clean, UpdatedOf
  <2>5. QED
    BY <2>4, IndexCacheAssumption DEF GraphOf, ImageAt, HolderOf
<1>7. QED
  BY <1>3, <1>4, <1>5, <1>6, SameList

\* Then an index leaves memory only with all its graph saved, unless it was deleted, or a write has
\* linked and not marked it yet.
THEOREM EvictionSaves == OneMaker => (Spec /\ []Undisturbed => LeavesSaved)
<1> SUFFICES ASSUME OneMaker PROVE Spec /\ []Undisturbed => LeavesSaved
  OBVIOUS
<1>1. LastInv /\ Undisturbed /\ [Next]_vars => LastInv'
  BY LastKept
<1>2. LastInv /\ [Next]_vars =>
        [\A x \in Indexes :
           LET e == entry[x][indices[x]] IN
           indices[x] # 0 /\ indices'[x] = 0 =>
             \/ \E r \in Requests : pc[r] = "erase" /\ Index(r) = x
             \/ e.holder # NoRequest /\ pc[e.holder] = "mark"
             \/ dir[x] = 0 \/ e.graph \subseteq image[x][dir[x]].graph]_vars
  BY Leaving
<1>3. QED
  BY <1>1, <1>2, InitLast, PTL DEF Spec, LeavesSaved
===============================================================================
