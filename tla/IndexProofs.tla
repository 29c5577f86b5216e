------------------------------ MODULE IndexProofs ------------------------------
(***************************************************************************)
(* Proofs about one index and the id mapper inside it, in three parts: the *)
(* mapper, for any string ids and batches; the index, for any requests and *)
(* threads, with the death of the process anywhere; and the index under    *)
(* well-meant requests, where what was promised is kept.                   *)
(***************************************************************************)
EXTENDS IndexPlain, FiniteSetTheorems, WellFoundedInduction, SequenceTheorems, TLAPS

-------------------------------------------------------------------------------
(*****************************************************************************)
(* Part 1. The id mapper, for any set of string ids, any batches and any     *)
(* number of ids.                                                            *)
(*****************************************************************************)

(* Positions of a batch.                                                   *)

\* A set of naturals that is not empty has a least element.
LEMMA LeastExists ==
  ASSUME NEW T, T \subseteq Nat, T # {}
  PROVE  \E x \in T : \A y \in T : x <= y
<1>1. IsWellFoundedOn(OpToRel(<, Nat), Nat)
  BY NatLessThanWellFounded
<1>2. PICK x \in T : \A y \in T : ~(<<y, x>> \in OpToRel(<, Nat))
  BY <1>1, WFMin
<1>3. \A y \in T : ~(y < x)
  BY <1>2 DEF OpToRel
<1> QED
  BY <1>3

\* The last of finitely many positions is one of them.
LEMMA LastOfIsLast ==
  ASSUME NEW n \in Nat, NEW P, P \subseteq 1..n, P # {}
  PROVE  LastOf(P) \in P /\ \A j \in P : j <= LastOf(P)
<1> DEFINE T == {k \in 0..n : n - k \in P}
<1>1. T \subseteq Nat
  OBVIOUS
<1>2. PICK q \in P : TRUE
  OBVIOUS
<1>3. q \in 1..n /\ n - q \in 0..n /\ n - (n - q) = q
  OBVIOUS
<1>4. n - q \in T
  BY <1>3
<1>5. PICK x \in T : \A y \in T : x <= y
  BY <1>1, <1>4, LeastExists
<1>6. x \in 0..n /\ n - x \in P
  BY <1>5
<1>7. \A j \in P : j <= n - x
  <2> TAKE j \in P
  <2>1. j \in 1..n /\ n - j \in 0..n /\ n - (n - j) = j
    OBVIOUS
  <2>2. n - j \in T
    BY <2>1
  <2> QED
    <3>1. x <= n - j
      BY <1>5, <2>2
    <3> HIDE DEF T
    <3> QED
      BY <1>6, <2>1, <3>1
<1> QED
  BY <1>6, <1>7 DEF LastOf

\* The new positions of a batch are finitely many.
LEMMA NewAtFinite ==
  ASSUME NEW old \in Seq(Nat)
  PROVE  /\ NewAt(old) \subseteq 1..Len(old)
         /\ IsFiniteSet(NewAt(old)) /\ Cardinality(NewAt(old)) \in Nat
<1>1. NewAt(old) \subseteq 1..Len(old)
  BY DEF NewAt
<1>2. IsFiniteSet(1..Len(old))
  BY FS_Interval
<1> QED
  BY <1>1, <1>2, FS_Subset, FS_CardinalityType

\* The rank of a new position is a position of the allocated ids.
LEMMA RankInRange ==
  ASSUME NEW old \in Seq(Nat), NEW i \in NewAt(old)
  PROVE  Rank(old, i) \in 1..Cardinality(NewAt(old))
<1> DEFINE S == {k \in NewAt(old) : k <= i}
<1>1. i \in Nat /\ i \in S
  BY NewAtFinite
<1>2. IsFiniteSet(S) /\ Cardinality(S) <= Cardinality(NewAt(old))
  BY NewAtFinite, FS_Subset
<1>3. Cardinality(S) \in Nat /\ Cardinality(S) # 0
  BY <1>1, <1>2, FS_CardinalityType, FS_EmptySet
<1> HIDE DEF S
<1>4. Cardinality(S) \in 1..Cardinality(NewAt(old))
  BY <1>2, <1>3, NewAtFinite
<1> QED
  BY <1>4 DEF Rank, S

\* Different new positions get different allocated ids.
LEMMA RankInjective ==
  ASSUME NEW old \in Seq(Nat), NEW i \in NewAt(old), NEW j \in NewAt(old), i < j
  PROVE  Rank(old, i) # Rank(old, j)
<1> DEFINE S == {k \in NewAt(old) : k <= i}
           T == {k \in NewAt(old) : k <= j}
<1>1. i \in Nat /\ j \in Nat /\ NewAt(old) \subseteq Nat
  BY NewAtFinite
<1>2. S \subseteq T /\ j \in T /\ j \notin S
  BY <1>1
<1>3. IsFiniteSet(T)
  BY NewAtFinite, FS_Subset
<1> HIDE DEF S, T
<1>4. Cardinality(S) # Cardinality(T)
  BY <1>2, <1>3, FS_Subset
<1> QED
  BY <1>4 DEF Rank, S, T

-------------------------------------------------------------------------------
(* IdInv holds initially, and every action preserves it.                   *)

\* An index starts with nothing mapped, free or taken.
LEMMA InitIdInv == IdInit => IdInv
<1> SUFFICES ASSUME IdInit PROVE IdInv
  OBVIOUS
<1> USE DEF IdInit, NoBatch, NoId
<1>1. IdTypeOK
  BY DEF IdTypeOK, BatchStages
<1>2. OneOwner /\ FreeIdsUnowned /\ IdsBelowNext
  BY DEF OneOwner, FreeIdsUnowned, IdsBelowNext
<1>3. TakenIdsUnshared /\ LookedUpHolds /\ TakenEnough
  BY DEF TakenIdsUnshared, LookedUpHolds, TakenEnough
<1> QED
  BY <1>1, <1>2, <1>3 DEF IdInv

\* A state in which no batch runs satisfies the batch's part of the invariant.
LEMMA NoBatchHolds ==
  ASSUME batch' = NoBatch
  PROVE  /\ batch' \in [stage : BatchStages, names : Seq(Names), reuse : BOOLEAN,
                         old : Seq(Nat), alloc : Seq(Nat), reused : Nat]
         /\ TakenIdsUnshared' /\ LookedUpHolds' /\ TakenEnough'
         /\ batch.alloc' = <<>>
  BY DEF NoBatch, BatchStages, TakenIdsUnshared, LookedUpHolds, TakenEnough

\* The read-only transaction copies what the mapping says.
LEMMA LookUpKeepsIdInv ==
  ASSUME IdInv, NEW names \in NameBatches, NEW reuse \in BOOLEAN, LookUp(names, reuse)
  PROVE  IdInv'
<1> USE DEF IdInv, LookUp
<1>1. names \in Seq(Names)
  BY IdMapperAssumption
<1>2. /\ batch'.old \in Seq(Nat)
      /\ DOMAIN batch'.old = DOMAIN names
      /\ \A i \in DOMAIN names : batch'.old[i] = idmap[names[i]]
  <2> DEFINE old == [i \in DOMAIN names |-> idmap[names[i]]]
  <2>1. old \in [1..Len(names) -> Nat]
    BY <1>1 DEF IdTypeOK
  <2> QED
    BY <1>1, <2>1
<1>3. IdTypeOK'
  BY <1>1, <1>2 DEF IdTypeOK, BatchStages
<1>4. (OneOwner /\ FreeIdsUnowned /\ IdsBelowNext)'
  BY DEF OneOwner, FreeIdsUnowned, IdsBelowNext
<1>5. (TakenIdsUnshared /\ LookedUpHolds /\ TakenEnough)'
  BY <1>2 DEF TakenIdsUnshared, LookedUpHolds, TakenEnough
<1> QED
  BY <1>3, <1>4, <1>5

\* What SubSeq makes of the two parts of a sequence.
LEMMA SplitSeq ==
  ASSUME NEW s \in Seq(Nat), NEW k \in 0..Len(s)
  PROVE  /\ SubSeq(s, 1, k) \in Seq(Nat) /\ DOMAIN SubSeq(s, 1, k) = 1..k
         /\ \A i \in 1..k : SubSeq(s, 1, k)[i] = s[i]
         /\ SubSeq(s, k + 1, Len(s)) \in Seq(Nat)
         /\ DOMAIN SubSeq(s, k + 1, Len(s)) = 1..(Len(s) - k)
         /\ \A i \in 1..(Len(s) - k) : SubSeq(s, k + 1, Len(s))[i] = s[i + k]
<1>1. Len(s) \in Nat /\ k \in Nat /\ k <= Len(s)
  OBVIOUS
<1>2. \A i \in 1..k : i \in 1..Len(s)
  BY <1>1
<1>3. \A i \in (k + 1)..Len(s) : i \in 1..Len(s)
  BY <1>1
<1>4. SubSeq(s, 1, k) \in Seq(Nat) /\ Len(SubSeq(s, 1, k)) = k
  BY <1>1, <1>2
<1>5. SubSeq(s, k + 1, Len(s)) \in Seq(Nat) /\ Len(SubSeq(s, k + 1, Len(s))) = Len(s) - k
  BY <1>1, <1>3, SubSeqProperties
<1>6. \A i \in 1..k : SubSeq(s, 1, k)[i] = s[i]
  BY <1>1, <1>2
<1>7. \A i \in 1..(Len(s) - k) : SubSeq(s, k + 1, Len(s))[i] = s[i + k]
  BY <1>1, <1>3, SubSeqProperties
<1>8. DOMAIN SubSeq(s, 1, k) = 1..k
  BY <1>4
<1>9. DOMAIN SubSeq(s, k + 1, Len(s)) = 1..(Len(s) - k)
  BY <1>5
<1> QED
  BY <1>4, <1>5, <1>6, <1>7, <1>8, <1>9, Zenon

\* getDeletedIds moves the oldest free ids into the hands of the batch.
LEMMA TakeDeletedKeepsIdInv ==
  ASSUME IdInv, TakeDeleted
  PROVE  IdInv'
<1> DEFINE k == IF batch.reuse THEN Smaller(Needed, Len(deletedIds)) ELSE 0
<1>0. /\ IdTypeOK /\ nextId >= 1 /\ OneOwner /\ FreeIdsUnowned /\ IdsBelowNext
      /\ LookedUpHolds /\ TakenEnough
  BY DEF IdInv
<1>1. Needed \in Nat
  BY <1>0, NewAtFinite DEF Needed, IdTypeOK
<1>2. k \in 0..Len(deletedIds) /\ k <= Needed
  BY <1>0, <1>1 DEF IdTypeOK, Smaller
<1>3. /\ batch' = [batch EXCEPT !.stage = "taken", !.reused = k,
                                !.alloc = SubSeq(deletedIds, 1, k)]
      /\ deletedIds' = SubSeq(deletedIds, k + 1, Len(deletedIds))
      /\ UNCHANGED <<idmap, nextId>>
  BY DEF TakeDeleted
<1> HIDE DEF k
<1>4. /\ batch'.alloc = SubSeq(deletedIds, 1, k) /\ batch'.old = batch.old
      /\ batch'.names = batch.names /\ batch'.stage = "taken"
  BY <1>0, <1>3 DEF IdTypeOK
<1>5. /\ deletedIds \in Seq(Nat) /\ Len(deletedIds) \in Nat /\ k \in Nat
      /\ DOMAIN deletedIds = 1..Len(deletedIds) /\ k <= Len(deletedIds)
  BY <1>0, <1>2 DEF IdTypeOK
<1>6. /\ batch'.alloc \in Seq(Nat) /\ DOMAIN batch'.alloc = 1..k
      /\ \A i \in 1..k : batch'.alloc[i] = deletedIds[i]
  BY <1>2, <1>4, <1>5, SplitSeq
<1>7. /\ deletedIds' \in Seq(Nat) /\ DOMAIN deletedIds' = 1..(Len(deletedIds) - k)
      /\ \A i \in 1..(Len(deletedIds) - k) : deletedIds'[i] = deletedIds[i + k]
  BY <1>2, <1>3, <1>5, SplitSeq
<1>8. IdTypeOK'
  BY <1>0, <1>3, <1>4, <1>5, <1>6, <1>7 DEF IdTypeOK, BatchStages
<1>9. \A i \in DOMAIN batch'.alloc :
        i \in DOMAIN deletedIds /\ batch'.alloc[i] = deletedIds[i] /\ i <= k
  BY <1>5, <1>6
<1>10. \A i \in DOMAIN deletedIds' :
        i + k \in DOMAIN deletedIds /\ deletedIds'[i] = deletedIds[i + k] /\ i + k > k
            /\ i \in Int
  BY <1>5, <1>7
<1>10a. idmap' = idmap
  BY <1>3
<1>11. OneOwner'
  BY <1>0, <1>10a DEF OneOwner
<1>12. FreeIdsUnowned'
  <2>1. \A i \in DOMAIN deletedIds' : \A n \in Names : deletedIds'[i] # idmap'[n]
    BY <1>0, <1>10, <1>10a DEF FreeIdsUnowned
  <2>2. \A i, j \in DOMAIN deletedIds' : deletedIds'[i] = deletedIds'[j] => i + k = j + k
    BY <1>0, <1>10 DEF FreeIdsUnowned
  <2> QED
    BY <1>5, <1>10, <2>1, <2>2 DEF FreeIdsUnowned
<1>13. IdsBelowNext'
  BY <1>0, <1>3, <1>9, <1>10 DEF IdsBelowNext
<1>14. TakenIdsUnshared'
  <2>1. \A i, j \in DOMAIN batch'.alloc : batch'.alloc[i] = batch'.alloc[j] => i = j
    BY <1>0, <1>9 DEF FreeIdsUnowned
  <2>2. \A i \in DOMAIN batch'.alloc : \A n \in Names : batch'.alloc[i] # idmap'[n]
    BY <1>0, <1>9, <1>10a DEF FreeIdsUnowned
  <2>3. ASSUME NEW i \in DOMAIN batch'.alloc, NEW j \in DOMAIN deletedIds'
        PROVE  batch'.alloc[i] # deletedIds'[j]
    <3>1. i # j + k
      BY <1>5, <1>6, <1>9, <1>10
    <3> QED
      BY <1>0, <1>9, <1>10, <3>1 DEF FreeIdsUnowned
  <2> QED
    BY <2>1, <2>2, <2>3 DEF TakenIdsUnshared
<1>15. LookedUpHolds'
  BY <1>0, <1>3, <1>4 DEF LookedUpHolds
<1>16. TakenEnough'
  <2>1. Len(batch'.alloc) = k
    BY <1>5, <1>6
  <2>2. Needed' = Needed
    BY <1>4 DEF Needed
  <2> QED
    BY <1>2, <1>4, <2>1, <2>2 DEF TakenEnough
<1> QED
  BY <1>0, <1>3, <1>8, <1>11, <1>12, <1>13, <1>14, <1>15, <1>16 DEF IdInv

\* What \o makes of two sequences.
LEMMA JoinSeq ==
  ASSUME NEW s \in Seq(Nat), NEW f \in Seq(Nat)
  PROVE  /\ s \o f \in Seq(Nat) /\ Len(s \o f) = Len(s) + Len(f)
         /\ DOMAIN (s \o f) = 1..(Len(s) + Len(f))
         /\ \A i \in DOMAIN (s \o f) :
              \/ i \in DOMAIN s /\ (s \o f)[i] = s[i]
              \/ /\ i \notin DOMAIN s /\ i - Len(s) \in DOMAIN f
                 /\ (s \o f)[i] = f[i - Len(s)]
<1>1. /\ s \o f \in Seq(Nat) /\ Len(s \o f) = Len(s) + Len(f)
      /\ \A i \in 1..(Len(s) + Len(f)) :
           (s \o f)[i] = IF i <= Len(s) THEN s[i] ELSE f[i - Len(s)]
  BY ConcatProperties
<1>2. /\ Len(s) \in Nat /\ Len(f) \in Nat
      /\ DOMAIN s = 1..Len(s) /\ DOMAIN f = 1..Len(f)
      /\ DOMAIN (s \o f) = 1..(Len(s) + Len(f))
  BY <1>1, LenProperties
<1>3. ASSUME NEW i \in 1..(Len(s) + Len(f))
      PROVE  \/ i \in 1..Len(s) /\ i <= Len(s)
             \/ i \notin 1..Len(s) /\ ~(i <= Len(s)) /\ i - Len(s) \in 1..Len(f)
  BY <1>2
<1> QED
  BY <1>1, <1>2, <1>3

\* Ids counted from m on.
LEMMA FreshIds ==
  ASSUME NEW k \in Nat, NEW m \in Nat
  PROVE  LET fresh == [j \in 1..k |-> m + j - 1]
         IN  /\ fresh \in Seq(Nat) /\ Len(fresh) = k /\ DOMAIN fresh = 1..k
             /\ \A j \in 1..k : fresh[j] = m + j - 1
<1> DEFINE fresh == [j \in 1..k |-> m + j - 1]
<1>1. \A j \in 1..k : m + j - 1 \in Nat
  OBVIOUS
<1>2. fresh \in [1..k -> Nat]
  BY <1>1
<1> QED
  BY <1>2, LenProperties

\* get_next_ids adds ids nobody has seen to those of the batch.
LEMMA TakeFreshKeepsIdInv ==
  ASSUME IdInv, TakeFresh
  PROVE  IdInv'
<1> DEFINE k == Needed - Len(batch.alloc)
           fresh == [j \in 1..k |-> nextId + j - 1]
<1>0. /\ IdTypeOK /\ nextId >= 1 /\ OneOwner /\ FreeIdsUnowned /\ IdsBelowNext
      /\ TakenIdsUnshared /\ LookedUpHolds /\ TakenEnough
  BY DEF IdInv
<1>1. Needed \in Nat
  BY <1>0, NewAtFinite DEF Needed, IdTypeOK
<1>2. batch.alloc \in Seq(Nat) /\ Len(batch.alloc) \in Nat /\ nextId \in Nat
  BY <1>0 DEF IdTypeOK
<1>3. k \in Nat
  BY <1>0, <1>1, <1>2 DEF TakeFresh, TakenEnough
<1>4. /\ batch' = [batch EXCEPT !.stage = "allocated", !.alloc = batch.alloc \o fresh]
      /\ nextId' = nextId + k
      /\ UNCHANGED <<idmap, deletedIds>>
  BY <1>0 DEF TakeFresh, IdTypeOK
<1>6. /\ batch'.alloc = batch.alloc \o fresh /\ batch'.old = batch.old
      /\ batch'.names = batch.names /\ batch'.stage = "allocated"
  BY <1>0, <1>4 DEF IdTypeOK
<1> HIDE DEF k
<1>7. /\ fresh \in Seq(Nat) /\ Len(fresh) = k /\ DOMAIN fresh = 1..k
      /\ \A j \in 1..k : fresh[j] = nextId + j - 1
  BY <1>2, <1>3, FreshIds
<1> HIDE DEF fresh
<1>7a. /\ batch'.alloc \in Seq(Nat) /\ Len(batch'.alloc) = Len(batch.alloc) + k
       /\ DOMAIN batch'.alloc = 1..(Len(batch.alloc) + k)
       /\ \A i \in DOMAIN batch'.alloc :
            \/ i \in DOMAIN batch.alloc /\ batch'.alloc[i] = batch.alloc[i]
            \/ /\ i \notin DOMAIN batch.alloc /\ i - Len(batch.alloc) \in 1..k
               /\ batch'.alloc[i] = fresh[i - Len(batch.alloc)]
  <2> DEFINE s == batch.alloc
             t == s \o fresh
  <2>1. s \in Seq(Nat) /\ fresh \in Seq(Nat)
    BY <1>2, <1>7
  <2> HIDE DEF s
  <2>2. /\ t \in Seq(Nat) /\ Len(t) = Len(s) + Len(fresh)
        /\ DOMAIN t = 1..(Len(s) + Len(fresh))
        /\ \A i \in DOMAIN t :
             \/ i \in DOMAIN s /\ t[i] = s[i]
             \/ /\ i \notin DOMAIN s /\ i - Len(s) \in DOMAIN fresh
                /\ t[i] = fresh[i - Len(s)]
    BY <2>1, JoinSeq
  <2>3. batch'.alloc = t
    BY <1>6 DEF s
  <2> HIDE DEF t
  <2> QED
    BY <1>7, <2>2, <2>3 DEF s
<1>8. ASSUME NEW i \in DOMAIN batch'.alloc
      PROVE  \/ /\ i \in DOMAIN batch.alloc
                /\ batch'.alloc[i] = batch.alloc[i]
                /\ batch.alloc[i] \in 1..(nextId - 1)
             \/ /\ i \notin DOMAIN batch.alloc
                /\ batch'.alloc[i] = nextId + (i - Len(batch.alloc)) - 1
                /\ batch'.alloc[i] \in nextId..(nextId' - 1)
  <2>1. nextId' = nextId + k
    BY <1>4
  <2>2. CASE i \in DOMAIN batch.alloc
    BY <1>0, <1>7a, <2>2 DEF IdsBelowNext
  <2>3. CASE i \notin DOMAIN batch.alloc
    <3> DEFINE j == i - Len(batch.alloc)
    <3>1. j \in 1..k /\ batch'.alloc[i] = fresh[j]
      BY <1>7a, <2>3
    <3> HIDE DEF j
    <3>2. fresh[j] = nextId + j - 1 /\ nextId + j - 1 \in nextId..(nextId' - 1)
      BY <1>2, <1>3, <1>7, <2>1, <3>1
    <3> QED
      BY <2>3, <3>1, <3>2 DEF j
  <2> QED
    BY <2>2, <2>3
<1>9. idmap' = idmap /\ deletedIds' = deletedIds
  BY <1>4
<1>10. IdTypeOK'
  <2>1. nextId' \in Nat
    BY <1>2, <1>3, <1>4
  <2>2. batch' = [batch EXCEPT !.stage = "allocated", !.alloc = batch'.alloc]
    BY <1>4, <1>6
  <2> QED
    BY <1>0, <1>7a, <1>9, <2>1, <2>2 DEF IdTypeOK, BatchStages
<1>11. OneOwner' /\ FreeIdsUnowned'
  BY <1>0, <1>9 DEF OneOwner, FreeIdsUnowned
<1>12. nextId' \in Nat /\ nextId <= nextId' /\ nextId' >= 1
  BY <1>0, <1>2, <1>3, <1>4
<1>13. IdsBelowNext'
  <2>1. \A n \in Names : idmap'[n] < nextId'
    BY <1>0, <1>2, <1>9, <1>12 DEF IdsBelowNext, IdTypeOK
  <2>2. \A i \in DOMAIN deletedIds' : deletedIds'[i] \in 1..(nextId' - 1)
    BY <1>0, <1>2, <1>9, <1>12 DEF IdsBelowNext, IdTypeOK
  <2>3. \A i \in DOMAIN batch'.alloc : batch'.alloc[i] \in 1..(nextId' - 1)
    BY <1>0, <1>2, <1>8, <1>12
  <2> QED
    BY <2>1, <2>2, <2>3 DEF IdsBelowNext
<1>14. TakenIdsUnshared'
  <2>1. ASSUME NEW i \in DOMAIN batch'.alloc, NEW j \in DOMAIN batch'.alloc,
               batch'.alloc[i] = batch'.alloc[j]
        PROVE  i = j
    <3>1. i \in Nat /\ j \in Nat
      BY <1>2, <1>3, <1>7a
    <3>2. CASE i \in DOMAIN batch.alloc /\ j \in DOMAIN batch.alloc
      BY <1>0, <1>8, <2>1, <3>2 DEF TakenIdsUnshared
    <3>3. CASE i \notin DOMAIN batch.alloc /\ j \notin DOMAIN batch.alloc
      <4>1. /\ batch'.alloc[i] = nextId + (i - Len(batch.alloc)) - 1
            /\ batch'.alloc[j] = nextId + (j - Len(batch.alloc)) - 1
        BY <1>8, <3>3
      <4>2. nextId + (i - Len(batch.alloc)) - 1 = nextId + (j - Len(batch.alloc)) - 1
        BY <2>1, <4>1
      <4> QED
        BY <1>2, <3>1, <4>2
    <3>4. CASE i \in DOMAIN batch.alloc /\ j \notin DOMAIN batch.alloc
      <4>1. batch'.alloc[i] \in 1..(nextId - 1) /\ batch'.alloc[j] \in nextId..(nextId' - 1)
        BY <1>8, <3>4
      <4> QED
        BY <1>2, <1>12, <2>1, <4>1
    <3>5. CASE i \notin DOMAIN batch.alloc /\ j \in DOMAIN batch.alloc
      <4>1. batch'.alloc[j] \in 1..(nextId - 1) /\ batch'.alloc[i] \in nextId..(nextId' - 1)
        BY <1>8, <3>5
      <4> QED
        BY <1>2, <1>12, <2>1, <4>1
    <3> QED
      BY <3>2, <3>3, <3>4, <3>5
  <2>2. ASSUME NEW i \in DOMAIN batch'.alloc
        PROVE  /\ \A n \in Names : batch'.alloc[i] # idmap'[n]
               /\ \A j \in DOMAIN deletedIds' : batch'.alloc[i] # deletedIds'[j]
    <3>1. CASE i \in DOMAIN batch.alloc
      BY <1>0, <1>8, <1>9, <3>1 DEF TakenIdsUnshared
    <3>2. CASE i \notin DOMAIN batch.alloc
      <4>1. batch'.alloc[i] \in nextId..(nextId' - 1)
        BY <1>8, <3>2
      <4>2. \A n \in Names : idmap[n] \in Nat /\ idmap[n] < nextId
        BY <1>0 DEF IdsBelowNext, IdTypeOK
      <4>3. \A j \in DOMAIN deletedIds : deletedIds[j] \in 1..(nextId - 1)
        BY <1>0 DEF IdsBelowNext
      <4> QED
        BY <1>2, <1>9, <1>12, <4>1, <4>2, <4>3
    <3> QED
      BY <3>1, <3>2
  <2> QED
    BY <2>1, <2>2 DEF TakenIdsUnshared
<1>15. LookedUpHolds'
  BY <1>0, <1>6, <1>9 DEF LookedUpHolds
<1>16. TakenEnough'
  <2>1. Needed' = Needed
    BY <1>6 DEF Needed
  <2>2. Len(batch'.alloc) = Needed
    BY <1>1, <1>2, <1>7a DEF k
  <2> QED
    BY <1>6, <2>1, <2>2 DEF TakenEnough
<1> QED
  BY <1>10, <1>11, <1>12, <1>13, <1>14, <1>15, <1>16 DEF IdInv

\* The write transaction gives each new string id one id of the batch: ranks are
\* injective, so no two string ids get the same one.
LEMMA WriteMappingsKeepsIdInv ==
  ASSUME IdInv, WriteMappings
  PROVE  IdInv'
<1>0. /\ IdTypeOK /\ nextId >= 1 /\ OneOwner /\ FreeIdsUnowned /\ IdsBelowNext
      /\ TakenIdsUnshared /\ LookedUpHolds /\ TakenEnough
  BY DEF IdInv
<1>1. /\ batch.old \in Seq(Nat) /\ batch.alloc \in Seq(Nat) /\ Len(batch.alloc) = Needed
      /\ idmap \in [Names -> Nat] /\ nextId \in Nat
      /\ batch.stage = "allocated" /\ batch' = NoBatch
      /\ UNCHANGED <<deletedIds, nextId>>
  BY <1>0 DEF IdTypeOK, WriteMappings, TakenEnough
\* A name of the batch that had no id gets one of the allocated ids, at the rank
\* of the name's last position.
<1> DEFINE New(n) == NewPositionsOf(n) # {}
           pos(n) == LastOf(NewPositionsOf(n))
           rank(n) == Rank(batch.old, pos(n))
<1>2. ASSUME NEW n \in Names, New(n)
      PROVE  /\ pos(n) \in NewAt(batch.old) /\ batch.names[pos(n)] = n
             /\ rank(n) \in DOMAIN batch.alloc
             /\ IdAt(pos(n)) = batch.alloc[rank(n)]
  <2>1. Len(batch.old) \in Nat /\ NewPositionsOf(n) \subseteq 1..Len(batch.old)
    BY <1>1, NewAtFinite DEF NewPositionsOf
  <2>2. pos(n) \in NewPositionsOf(n)
    BY <1>2, <2>1, LastOfIsLast
  <2>3. pos(n) \in NewAt(batch.old) /\ batch.names[pos(n)] = n
    BY <2>2 DEF NewPositionsOf
  <2>4. rank(n) \in 1..Needed
    BY <1>1, <2>3, RankInRange DEF Needed
  <2> QED
    BY <1>1, <2>3, <2>4 DEF IdAt, NewAt
<1>3. ASSUME NEW m \in Names, NEW n \in Names, New(m), New(n), rank(m) = rank(n)
      PROVE  m = n
  <2>1. /\ pos(m) \in NewAt(batch.old) /\ batch.names[pos(m)] = m
        /\ pos(n) \in NewAt(batch.old) /\ batch.names[pos(n)] = n
    BY <1>2, <1>3
  <2>2. pos(m) \in Nat /\ pos(n) \in Nat
    BY <1>1, <2>1, NewAtFinite
  <2>3. ~(pos(m) < pos(n)) /\ ~(pos(n) < pos(m))
    BY <1>1, <1>3, <2>1, RankInjective
  <2>4. pos(m) = pos(n)
    BY <2>2, <2>3
  <2> QED
    BY <2>1, <2>4
<1>4. ASSUME NEW n \in Names
      PROVE  idmap'[n] = IF New(n) THEN batch.alloc[rank(n)] ELSE idmap[n]
  BY <1>2 DEF WriteMappings
<1> HIDE DEF New, pos, rank
<1>5. idmap' \in [Names -> Nat]
  <2>1. \A n \in Names : idmap'[n] \in Nat
    BY <1>1, <1>2, <1>4
  <2>2. idmap' = [n \in Names |-> idmap'[n]]
    BY DEF WriteMappings
  <2> QED
    BY <2>1, <2>2
<1>6. IdTypeOK'
  BY <1>0, <1>1, <1>5, NoBatchHolds DEF IdTypeOK
<1>7. OneOwner'
  <2>1. ASSUME NEW m \in Names, NEW n \in Names, idmap'[m] # NoId, idmap'[m] = idmap'[n]
        PROVE  m = n
    <3>1. CASE New(m) /\ New(n)
      <4>1. batch.alloc[rank(m)] = batch.alloc[rank(n)]
        BY <1>4, <2>1, <3>1
      <4> QED
        BY <1>0, <1>2, <1>3, <3>1, <4>1 DEF TakenIdsUnshared
    <3>2. CASE New(m) /\ ~New(n)
      BY <1>0, <1>2, <1>4, <2>1, <3>2 DEF TakenIdsUnshared
    <3>3. CASE ~New(m) /\ New(n)
      BY <1>0, <1>2, <1>4, <2>1, <3>3 DEF TakenIdsUnshared
    <3>4. CASE ~New(m) /\ ~New(n)
      BY <1>0, <1>4, <2>1, <3>4 DEF OneOwner
    <3> QED
      BY <3>1, <3>2, <3>3, <3>4
  <2> QED
    BY <2>1 DEF OneOwner
<1>8. deletedIds' = deletedIds /\ nextId' = nextId
  BY <1>1
<1>9. FreeIdsUnowned'
  <2>1. ASSUME NEW i \in DOMAIN deletedIds, NEW n \in Names
        PROVE  deletedIds[i] # idmap'[n]
    <3>1. CASE New(n)
      BY <1>0, <1>2, <1>4, <3>1 DEF TakenIdsUnshared
    <3>2. CASE ~New(n)
      BY <1>0, <1>4, <3>2 DEF FreeIdsUnowned
    <3> QED
      BY <3>1, <3>2
  <2> QED
    BY <1>0, <1>8, <2>1 DEF FreeIdsUnowned
<1>10. IdsBelowNext'
  <2>1. ASSUME NEW n \in Names
        PROVE  idmap'[n] < nextId
    <3>1. CASE New(n)
      <4>1. batch.alloc[rank(n)] \in 1..(nextId - 1)
        BY <1>0, <1>2, <3>1 DEF IdsBelowNext
      <4> QED
        BY <1>1, <1>4, <3>1, <4>1
    <3>2. CASE ~New(n)
      BY <1>0, <1>4, <3>2 DEF IdsBelowNext
    <3> QED
      BY <3>1, <3>2
  <2>2. batch'.alloc = <<>>
    BY <1>1, NoBatchHolds
  <2> QED
    BY <1>0, <1>8, <2>1, <2>2 DEF IdsBelowNext
<1>11. (TakenIdsUnshared /\ LookedUpHolds /\ TakenEnough)'
  BY <1>1, NoBatchHolds
<1> QED
  BY <1>0, <1>6, <1>7, <1>8, <1>9, <1>10, <1>11 DEF IdInv

\* deletePoints moves an id from its only owner to the free list.
LEMMA DeletePointKeepsIdInv ==
  ASSUME IdInv, NEW n \in Names, DeletePoint(n)
  PROVE  IdInv'
<1>0. /\ IdTypeOK /\ nextId >= 1 /\ OneOwner /\ FreeIdsUnowned /\ IdsBelowNext
      /\ TakenIdsUnshared /\ LookedUpHolds /\ TakenEnough
  BY DEF IdInv
<1>1. /\ idmap \in [Names -> Nat] /\ deletedIds \in Seq(Nat) /\ nextId \in Nat
      /\ batch = NoBatch /\ batch' = NoBatch /\ nextId' = nextId
  BY <1>0 DEF IdTypeOK, DeletePoint, TakenEnough
<1>2. (TakenIdsUnshared /\ LookedUpHolds /\ TakenEnough)' /\ batch'.alloc = <<>>
  BY <1>1, NoBatchHolds
<1>3. CASE idmap[n] = NoId
  <2>1. idmap' = idmap /\ deletedIds' = deletedIds /\ batch' = batch
    BY <1>1, <1>3 DEF DeletePoint
  <2>2. (IdTypeOK /\ OneOwner /\ FreeIdsUnowned /\ IdsBelowNext)'
    BY <1>0, <1>1, <2>1 DEF IdTypeOK, OneOwner, FreeIdsUnowned, IdsBelowNext
  <2> QED
    BY <1>0, <1>1, <1>2, <2>2 DEF IdInv
<1>4. CASE idmap[n] # NoId
  <2>1. /\ idmap' = [idmap EXCEPT ![n] = NoId]
        /\ deletedIds' = Append(deletedIds, idmap[n])
    BY <1>4 DEF DeletePoint
  <2>2. /\ idmap' \in [Names -> Nat]
        /\ \A m \in Names : idmap'[m] = IF m = n THEN NoId ELSE idmap[m]
    BY <1>1, <2>1 DEF NoId
  <2>3. /\ deletedIds' \in Seq(Nat) /\ Len(deletedIds) \in Nat
        /\ DOMAIN deletedIds = 1..Len(deletedIds)
        /\ DOMAIN deletedIds' = 1..(Len(deletedIds) + 1)
        /\ \A i \in 1..(Len(deletedIds) + 1) :
             deletedIds'[i] = IF i <= Len(deletedIds) THEN deletedIds[i] ELSE idmap[n]
    BY <1>1, <2>1
  <2>4. \A i \in DOMAIN deletedIds' :
          \/ i \in DOMAIN deletedIds /\ deletedIds'[i] = deletedIds[i]
          \/ i = Len(deletedIds) + 1 /\ deletedIds'[i] = idmap[n]
    BY <2>3
  <2>5. IdTypeOK'
    BY <1>0, <1>1, <2>2, <2>3 DEF IdTypeOK
  <2>6. OneOwner'
    BY <1>0, <2>2 DEF OneOwner
  <2>7. idmap[n] \in 1..(nextId - 1)
    BY <1>0, <1>1, <1>4 DEF IdsBelowNext, NoId
  <2>8. \A i \in DOMAIN deletedIds : deletedIds[i] # idmap[n] /\ deletedIds[i] # NoId
    BY <1>0, <1>1 DEF FreeIdsUnowned, IdsBelowNext, NoId
  <2>9. FreeIdsUnowned'
    <3>1. ASSUME NEW i \in DOMAIN deletedIds', NEW m \in Names
          PROVE  deletedIds'[i] # idmap'[m]
      <4>1. CASE m = n
        BY <1>4, <2>2, <2>4, <2>8, <4>1
      <4>2. CASE m # n
        BY <1>0, <1>4, <2>2, <2>4, <4>2 DEF FreeIdsUnowned, OneOwner
      <4> QED
        BY <4>1, <4>2
    <3>2. \A i, j \in DOMAIN deletedIds' : deletedIds'[i] = deletedIds'[j] => i = j
      BY <1>0, <2>4, <2>8 DEF FreeIdsUnowned
    <3> QED
      BY <3>1, <3>2 DEF FreeIdsUnowned
  <2>10. IdsBelowNext'
    <3>1. \A m \in Names : idmap'[m] < nextId'
      BY <1>0, <1>1, <2>2 DEF IdsBelowNext, NoId
    <3>2. \A i \in DOMAIN deletedIds' : deletedIds'[i] \in 1..(nextId' - 1)
      BY <1>0, <1>1, <2>4, <2>7 DEF IdsBelowNext
    <3> QED
      BY <1>2, <3>1, <3>2 DEF IdsBelowNext
  <2> QED
    BY <1>0, <1>1, <1>2, <2>5, <2>6, <2>9, <2>10 DEF IdInv
<1> QED
  BY <1>3, <1>4

\* A batch that dies loses the ids it took: nobody else has them.
LEMMA AbandonBatchKeepsIdInv ==
  ASSUME IdInv, AbandonBatch
  PROVE  IdInv'
<1>1. /\ batch' = NoBatch /\ UNCHANGED <<idmap, deletedIds, nextId>>
      /\ IdTypeOK /\ nextId >= 1 /\ OneOwner /\ FreeIdsUnowned /\ IdsBelowNext
  BY DEF IdInv, AbandonBatch
<1>2. (TakenIdsUnshared /\ LookedUpHolds /\ TakenEnough)' /\ batch'.alloc = <<>>
  BY <1>1, NoBatchHolds
<1>3. (IdTypeOK /\ OneOwner /\ FreeIdsUnowned /\ IdsBelowNext)'
  BY <1>1, <1>2, NoBatchHolds DEF IdTypeOK, OneOwner, FreeIdsUnowned, IdsBelowNext
<1> QED
  BY <1>1, <1>2, <1>3 DEF IdInv

\* Nothing changes when the mapper's variables do not.
LEMMA StutterKeepsIdInv ==
  ASSUME IdInv, UNCHANGED idVars
  PROVE  IdInv'
<1> USE DEF idVars
<1>1. (IdTypeOK /\ OneOwner /\ FreeIdsUnowned /\ IdsBelowNext)'
  BY DEF IdInv, IdTypeOK, OneOwner, FreeIdsUnowned, IdsBelowNext
<1>2. (TakenIdsUnshared /\ LookedUpHolds /\ TakenEnough)'
  BY DEF IdInv, TakenIdsUnshared, LookedUpHolds, TakenEnough, Needed
<1> QED
  BY <1>1, <1>2 DEF IdInv

\* IdInv is inductive: one case for each action of the mapper.
LEMMA StepKeepsIdInv == IdInv /\ [IdNext]_idVars => IdInv'
<1> SUFFICES ASSUME IdInv, [IdNext]_idVars PROVE IdInv'
  OBVIOUS
<1>1. CASE \E names \in NameBatches, reuse \in BOOLEAN : LookUp(names, reuse)
  BY <1>1, LookUpKeepsIdInv
<1>2. CASE TakeDeleted
  BY <1>2, TakeDeletedKeepsIdInv
<1>3. CASE TakeFresh
  BY <1>3, TakeFreshKeepsIdInv
<1>4. CASE WriteMappings
  BY <1>4, WriteMappingsKeepsIdInv
<1>5. CASE \E n \in Names : DeletePoint(n)
  BY <1>5, DeletePointKeepsIdInv
<1>6. CASE AbandonBatch
  BY <1>6, AbandonBatchKeepsIdInv
<1>7. CASE UNCHANGED idVars
  BY <1>7, StutterKeepsIdInv
<1> QED
  BY <1>1, <1>2, <1>3, <1>4, <1>5, <1>6, <1>7 DEF IdNext

-------------------------------------------------------------------------------
(* The theorems.                                                           *)

\* The inductive invariant holds in every reachable state of the mapper.
THEOREM IdInvariant == IdSpec => []IdInv
<1>1. IdInit => IdInv
  BY InitIdInv
<1>2. IdInv /\ [IdNext]_idVars => IdInv'
  BY StepKeepsIdInv
<1> QED
  BY <1>1, <1>2, PTL DEF IdSpec

\* The mapper's state keeps its types, whatever create_ids_batch was interrupted.
THEOREM IdTypeCorrect == IdSpec => []IdTypeOK
<1>1. IdInv => IdTypeOK
  BY DEF IdInv
<1> QED
  BY <1>1, IdInvariant, PTL

\* No numeric id is ever owned by two string ids, in spite of reuse, of batches
\* that repeat a name and of batches that die between two transactions.
THEOREM OneOwnerAlways == IdSpec => []OneOwner
<1>1. IdInv => OneOwner
  BY DEF IdInv
<1> QED
  BY <1>1, IdInvariant, PTL

\* An id waiting for reuse is owned by nobody and waits once.
THEOREM FreeIdsUnownedAlways == IdSpec => []FreeIdsUnowned
<1>1. IdInv => FreeIdsUnowned
  BY DEF IdInv
<1> QED
  BY <1>1, IdInvariant, PTL

\* get_next_ids never hands out an id that is mapped, free or taken.
THEOREM IdsBelowNextAlways == IdSpec => []IdsBelowNext
<1>1. IdInv => IdsBelowNext
  BY DEF IdInv
<1> QED
  BY <1>1, IdInvariant, PTL

\* create_ids_batch never moves a string id that has a numeric id to another one:
\* what it read in its first transaction still holds in its last.
THEOREM IdsAreStable == IdSpec => IdIsStable
<1> DEFINE Stable(n) == idmap'[n] = idmap[n] \/ NoId \in {idmap[n], idmap'[n]}
<1>1. IdInv /\ [IdNext]_idVars => \A n \in Names : Stable(n)
  <2> SUFFICES ASSUME IdInv, [IdNext]_idVars, NEW n \in Names PROVE Stable(n)
    OBVIOUS
  <2>1. CASE WriteMappings
    <3>1. CASE NewPositionsOf(n) = {}
      BY <2>1, <3>1 DEF WriteMappings
    <3>2. CASE NewPositionsOf(n) # {}
      <4>1. PICK i \in NewAt(batch.old) : batch.names[i] = n
        BY <3>2 DEF NewPositionsOf
      <4>2. i \in DOMAIN batch.names /\ batch.old[i] = NoId
        BY <4>1 DEF IdInv, LookedUpHolds, NewAt
      <4>3. idmap[n] = NoId
        BY <4>1, <4>2 DEF IdInv, LookedUpHolds
      <4> QED
        BY <4>3
    <3> QED
      BY <3>1, <3>2
  <2>2. CASE \E m \in Names : DeletePoint(m)
    <3>1. PICK m \in Names : DeletePoint(m)
      BY <2>2
    <3>2. idmap \in [Names -> Nat]
      BY DEF IdInv, IdTypeOK
    <3> QED
      BY <3>1, <3>2 DEF DeletePoint
  <2>3. CASE \E names \in NameBatches, reuse \in BOOLEAN : LookUp(names, reuse)
    BY <2>3 DEF LookUp
  <2>4. CASE TakeDeleted \/ TakeFresh \/ AbandonBatch \/ UNCHANGED idVars
    BY <2>4 DEF TakeDeleted, TakeFresh, AbandonBatch, idVars
  <2> QED
    BY <2>1, <2>2, <2>3, <2>4 DEF IdNext
<1>2. IdInv /\ [IdNext]_idVars => [\A n \in Names : Stable(n)]_idVars
  BY <1>1
<1> QED
  BY <1>2, IdInvariant, PTL DEF IdSpec, IdIsStable

-------------------------------------------------------------------------------
(*****************************************************************************)
(* Part 2. One index, for any string ids, batches, vectors, filters,         *)
(* threads and bounds, with the death of the process anywhere.               *)
(*****************************************************************************)

(* The index drives the mapper only as the mapper allows.                  *)

\* An insert looks up the string ids of one of the batches requests may carry.
LEMMA BeginAddIsLookUp ==
  ASSUME NEW t \in Threads, NEW objs \in Batches, BeginAdd(t, objs)
  PROVE  IdNext
<1>1. NamesIn(objs) \in NameBatches
  BY IndexStoreAssumption
<1>2. (mem.del # 0) \in BOOLEAN /\ LookUp(NamesIn(objs), mem.del # 0)
  BY DEF BeginAdd
<1> QED
  BY <1>1, <1>2 DEF IdNext

\* Every step of the index is a step of the mapper or leaves it alone.
LEMMA StepIsMapperStep == [Next]_vars => [IdNext]_idVars
<1> SUFFICES ASSUME [Next]_vars PROVE [IdNext]_idVars
  OBVIOUS
<1> USE DEF ids, idVars
<1>1. CASE \E t \in Threads, objs \in Batches : BeginAdd(t, objs)
  BY <1>1, BeginAddIsLookUp
<1>2. CASE AddTakesDeleted \/ AddTakesFresh \/ AddWritesMappings
  BY <1>2 DEF AddTakesDeleted, AddTakesFresh, AddWritesMappings, IdNext
<1>3. CASE DeleteUnmaps
  BY <1>3 DEF DeleteUnmaps, HasMeta, IdNext
<1>4. CASE Crash
  BY <1>4 DEF Crash, IdNext
<1>5. CASE \/ AddLogsIds \/ AddStoresVectors \/ AddFindsBadVector \/ AddFindsOwnTransaction
           \/ AddStoresMeta \/ AddStoresFilters \/ AddLogsOps \/ AddToGraph
  BY <1>5 DEF AddLogsIds, AddStoresVectors, AddFindsBadVector, AddFindsOwnTransaction,
              AddStoresMeta, AddStoresFilters, AddLogsOps, AddToGraph
<1>6. CASE \/ \E n \in Names : DeleteByName(n)
           \/ \E t \in Tags : DeleteByFilter(t)
           \/ DeleteFindsNoMeta \/ DeleteMarks \/ DeleteLogs
  BY <1>6 DEF DeleteByName, DeleteByFilter, BeginDelete, DeleteFindsNoMeta, DeleteMarks,
              DeleteLogs
<1>7. CASE \/ \E n \in Names, t \in UpdateTags : BeginRetag(n, t)
           \/ RetagRemoves \/ RetagStoresMeta \/ RetagAdds
  BY <1>7 DEF BeginRetag, RetagRemoves, RetagStoresMeta, RetagAdds
<1>8. CASE \/ BeginSave \/ SaveWhenLong \/ AnswerWhenShort \/ SaveImage \/ SaveClearsWal
           \/ SaveCounts
  BY <1>8 DEF BeginSave, SaveWhenLong, AnswerWhenShort, SaveImage, SaveClearsWal, SaveCounts
<1>9. CASE Evict \/ Load \/ RecoverEntry \/ RecoverEnds
  BY <1>9 DEF Evict, Load, RecoverEntry, RecoverEnds
<1>10. CASE UNCHANGED vars
  BY <1>10 DEF vars
<1> QED
  BY <1>1, <1>2, <1>3, <1>4, <1>5, <1>6, <1>7, <1>8, <1>9, <1>10 DEF Next, Step

\* The mapper inside the index is the mapper of IdMapper, whatever insert,
\* deletion or crash drives it.
THEOREM IndexImplementsMapper == Spec => IdSpec
<1>1. Init => IdInit
  BY DEF Init
<1> QED
  BY <1>1, StepIsMapperStep, PTL DEF Spec, IdSpec

-------------------------------------------------------------------------------
(* Lemmas about graphs and logs.                                           *)

\* Any set of labels is finite.
LEMMA LabelsFinite ==
  ASSUME NEW S, S \subseteq Labels
  PROVE  IsFiniteSet(S) /\ Cardinality(S) \in Nat
<1>1. Labels = 1..MaxId /\ MaxId \in Nat
  BY IndexStoreAssumption, IdMapperAssumption
<1>2. IsFiniteSet(Labels)
  BY <1>1, FS_Interval
<1> QED
  BY <1>2, FS_Subset, FS_CardinalityType

\* addPoint leaves a graph.
LEMMA AddPointsIsGraph ==
  ASSUME NEW g \in Graphs, NEW new \in SUBSET Labels, NEW upd \in SUBSET Labels,
         NEW v, \A l \in new \cup upd : v[l] \in Vecs \cup {NoVec}
  PROVE  AddPoints(g, new, upd, v) \in Graphs
<1> DEFINE back == {l \in {k \in upd : g.mark[k] # "absent"} : g.mark[l] = "deleted"}
<1>1. Cardinality(back) \in Nat
  BY LabelsFinite
<1>2. g.del - Cardinality(back) \in Int
  BY <1>1 DEF Graphs
<1> HIDE DEF back
<1>3. AddPoints(g, new, upd, v).mark \in [Labels -> Marks]
  BY DEF AddPoints, Graphs, Marks
<1>4. AddPoints(g, new, upd, v).at \in [Labels -> Vecs \cup {NoVec}]
  BY DEF AddPoints, Graphs
<1>5. AddPoints(g, new, upd, v).del = g.del - Cardinality(back)
  BY DEF AddPoints, back
<1> QED
  BY <1>2, <1>3, <1>4, <1>5 DEF AddPoints, Graphs

\* markDelete leaves a graph.
LEMMA MarkDeleteIsGraph ==
  ASSUME NEW g \in Graphs, NEW l \in Labels
  PROVE  MarkDelete(g, l) \in Graphs
  BY DEF MarkDelete, Graphs, Marks

\* getElementsCount is unsigned.
LEMMA ElementsCountIsNat ==
  ASSUME NEW g \in Graphs
  PROVE  ElementsCount(g) \in Nat
<1> DEFINE present == Cardinality(Labels \ LabelsMarked(g, "absent"))
<1>1. present \in Nat /\ g.del \in Int
  BY LabelsFinite DEF Graphs
<1>2. ElementsCount(g) = (present - g.del) % SizeRange
  BY DEF ElementsCount
<1> HIDE DEF present
<1>3. present - g.del \in Int /\ SizeRange \in Nat /\ SizeRange > 0
  BY <1>1, HnswAssumption
<1> QED
  BY <1>2, <1>3

\* The records of labels are log records.
LEMMA RecordsAreRecords ==
  ASSUME NEW operation \in WalOps, NEW labels \in Seq(Labels)
  PROVE  /\ Records(operation, labels) \in Seq(WalRecords)
         /\ Len(Records(operation, labels)) = Len(labels)
         /\ \A i \in DOMAIN labels : Records(operation, labels)[i].id = labels[i]
<1>1. \A i \in DOMAIN labels : labels[i] \in Labels
  OBVIOUS
<1>2. /\ DOMAIN Records(operation, labels) = 1..Len(labels) /\ Len(labels) \in Nat
      /\ Records(operation, labels)
           = [i \in 1..Len(labels) |-> [op |-> operation, id |-> labels[i]]]
  BY DEF Records
<1>3. \A i \in 1..Len(labels) : [op |-> operation, id |-> labels[i]] \in WalRecords
  BY <1>1 DEF WalRecords
<1> QED
  BY <1>2, <1>3

\* What the recovery reads of the log are records of the log.
LEMMA ReadEntriesAreRecords ==
  ASSUME NEW entries \in Seq(WalRecords)
  PROVE  ReadEntries(entries) \in Seq(WalRecords)
<1>1. CASE AddsIn(entries) = {}
  BY <1>1 DEF ReadEntries
<1>2. CASE AddsIn(entries) # {}
  <2> DEFINE first == CHOOSE i \in AddsIn(entries) : \A j \in AddsIn(entries) : i <= j
  <2>1. AddsIn(entries) \subseteq 1..Len(entries)
    BY DEF AddsIn
  <2>2. \E i \in AddsIn(entries) : \A j \in AddsIn(entries) : i <= j
    BY <1>2, <2>1, LeastExists
  <2>3. first \in 1..Len(entries)
    BY <2>1, <2>2
  <2> HIDE DEF first
  <2>4. SubSeq(entries, 1, first - 1) \in Seq(WalRecords)
    BY <2>3
  <2> QED
    BY <1>2, <2>4 DEF ReadEntries, first
<1> QED
  BY <1>1, <1>2

\* The recovery of one entry leaves a graph.
LEMMA RecoverIsGraph ==
  ASSUME NEW g \in Graphs, NEW entry \in WalRecords, vec \in [Labels -> Vecs \cup {NoVec}]
  PROVE  Recover(g, entry) \in Graphs
<1>1. entry.id \in Labels
  BY DEF WalRecords
<1>2. AddPoints(g, {}, {entry.id}, vec) \in Graphs
  BY <1>1, AddPointsIsGraph
<1>3. MarkDelete(g, entry.id) \in Graphs
  BY <1>1, MarkDeleteIsGraph
<1> QED
  BY <1>2, <1>3 DEF Recover

\* The ids create_ids_batch returns are labels, one for each object.
LEMMA BatchIdsAreLabels ==
  ASSUME IndexInv, batch.stage = "allocated"
  PROVE  /\ BatchIds \in Seq(Labels) /\ BatchIsNew \in Seq(BOOLEAN)
         /\ Len(BatchIds) = Len(op.objs) /\ Len(BatchIsNew) = Len(op.objs)
         /\ \A i \in DOMAIN BatchIds : BatchIds[i] < nextId
         /\ \A i \in DOMAIN BatchIds : BatchIsNew[i] =>
              \E j \in DOMAIN batch.alloc : j > batch.reused /\ BatchIds[i] = batch.alloc[j]
<1>1. /\ IdTypeOK /\ IdsBelowNext /\ LookedUpHolds /\ TakenEnough /\ IdsFit /\ BatchIsOps
      /\ op \in Ops
  BY DEF IndexInv, IdInv, IndexTypeOK
<1>2. /\ batch.names = NamesIn(op.objs) /\ op.objs \in Seq(Objects)
      /\ DOMAIN batch.names = 1..Len(op.objs) /\ Len(op.objs) \in Nat
  BY <1>1 DEF BatchIsOps, Ops, NamesIn
<1>3. /\ batch.old \in Seq(Nat) /\ batch.alloc \in Seq(Nat) /\ Len(batch.alloc) = Needed
      /\ DOMAIN batch.old = 1..Len(op.objs) /\ nextId \in Nat /\ nextId <= MaxId + 1
      /\ batch.names \in Seq(Names) /\ idmap \in [Names -> Nat]
  BY <1>1, <1>2 DEF IdTypeOK, LookedUpHolds, TakenEnough, IdsFit
<1>4. Labels = 1..MaxId /\ MaxId \in Nat
  BY IndexStoreAssumption, IdMapperAssumption
<1>5. ASSUME NEW i \in 1..Len(op.objs)
      PROVE  /\ IdAt(i) \in Labels /\ IdAt(i) < nextId
             /\ IsNewAt(i) => \E j \in DOMAIN batch.alloc :
                                j > batch.reused /\ IdAt(i) = batch.alloc[j]
  <2>1. CASE batch.old[i] = NoId
    <3>1. i \in NewAt(batch.old)
      BY <1>3, <2>1 DEF NewAt
    <3>2. Rank(batch.old, i) \in DOMAIN batch.alloc
      <4>1. batch.old \in Seq(Nat)
        BY <1>3
      <4>2. Rank(batch.old, i) \in 1..Needed
        BY <4>1, <3>1, RankInRange DEF Needed
      <4> QED
        BY <1>3, <4>2
    <3>3. IdAt(i) = batch.alloc[Rank(batch.old, i)]
      BY <2>1 DEF IdAt
    <3>4. IdAt(i) \in 1..(nextId - 1)
      BY <1>1, <3>2, <3>3 DEF IdsBelowNext
    <3>5. IdAt(i) \in Labels /\ IdAt(i) < nextId
      BY <1>3, <1>4, <3>4
    <3> QED
      BY <3>2, <3>3, <3>5 DEF IsNewAt
  <2>2. CASE batch.old[i] # NoId
    <3>1. IdAt(i) = idmap[batch.names[i]] /\ batch.names[i] \in Names
      <4>1. i \in DOMAIN batch.names
        BY <1>2
      <4>2. batch.names[i] \in Names
        BY <1>3, <4>1
      <4>3. batch.old[i] = idmap[batch.names[i]]
        BY <1>1, <4>1 DEF LookedUpHolds
      <4> QED
        BY <2>2, <4>2, <4>3 DEF IdAt
    <3>2. IdAt(i) \in Nat /\ IdAt(i) # 0 /\ IdAt(i) < nextId
      BY <1>1, <1>3, <2>2, <3>1 DEF IdsBelowNext, IdAt, NoId
    <3>3. IdAt(i) \in Labels
      BY <1>3, <1>4, <3>2
    <3> QED
      BY <2>2, <3>2, <3>3 DEF IsNewAt
  <2> QED
    BY <2>1, <2>2
<1>6. /\ BatchIds = [i \in 1..Len(op.objs) |-> IdAt(i)]
      /\ BatchIsNew = [i \in 1..Len(op.objs) |-> IsNewAt(i)]
      /\ \A i \in 1..Len(op.objs) : IsNewAt(i) \in BOOLEAN
  BY <1>2 DEF BatchIds, BatchIsNew, IsNewAt
<1> QED
  BY <1>2, <1>5, <1>6

-------------------------------------------------------------------------------
(* Types.                                                                  *)

OpTypeOK == op \in Ops /\ promise \in [Names -> {"unknown", "present", "absent"}]

\* An operation that moves on is an operation, and so is none.
LEMMA OpsMove ==
  ASSUME NEW o \in Ops, NEW stage \in Stages
  PROVE  /\ [o EXCEPT !.stage = stage] \in Ops
         /\ [o EXCEPT !.pos = @ + 1] \in Ops
         /\ [o EXCEPT !.stage = stage, !.pos = @ + 1] \in Ops
<1>1. o.pos + 1 \in Nat \ {0}
  BY DEF Ops
<1>2. [o EXCEPT !.stage = stage] \in Ops
  BY DEF Ops
<1>3. [o EXCEPT !.pos = @ + 1] \in Ops
  BY <1>1 DEF Ops
<1>4. [o EXCEPT !.stage = stage, !.pos = @ + 1] \in Ops
  BY <1>1 DEF Ops
<1> QED
  BY <1>2, <1>3, <1>4

\* No operation is an operation without anything.
LEMMA NoOpIsOp == NoOp \in Ops
<1>1. <<>> \in Seq(Objects) /\ <<>> \in Seq(Labels) /\ <<>> \in Seq(BOOLEAN)
  OBVIOUS
<1> QED
  BY <1>1 DEF NoOp, Ops, Kinds, Stages

\* Moving to a stage keeps the types of op and promise.
LEMMA GoToTypes ==
  ASSUME OpTypeOK, NEW stage \in Stages, GoTo(stage)
  PROVE  OpTypeOK'
  BY OpsMove DEF OpTypeOK, GoTo

\* So does an answer.
LEMMA AnswerTypes ==
  ASSUME OpTypeOK, NEW outcome \in {"unknown", "present", "absent"}, Answer(outcome)
  PROVE  OpTypeOK'
  BY NoOpIsOp DEF OpTypeOK, Answer

\* So does the begin of a request.
LEMMA BeginTypes ==
  ASSUME OpTypeOK, NEW o \in Ops, Begin(o)
  PROVE  OpTypeOK'
  BY DEF OpTypeOK, Begin

\* The types of the state that requests share.
StateTypeOK ==
  /\ vec \in [Labels -> Vecs \cup {NoVec}]
  /\ meta \in [Labels -> [name : Names \cup {NoName}, tag : Tags \cup {NoTag}]]
  /\ filt \in [Tags -> SUBSET Labels]
  /\ vecWriter \in Threads \cup {NoThread}
  /\ wal \in Seq(WalRecords)
  /\ walCount \in Nat
  /\ mem \in Graphs /\ disk \in Graphs
  /\ updated \in BOOLEAN /\ loaded \in BOOLEAN
  /\ elementCount \in Nat
  /\ crashes \in 0..MaxCrashes

\* The types of the index are those of its parts.
LEMMA IndexTypes == IndexTypeOK <=> IdTypeOK /\ StateTypeOK /\ OpTypeOK
  BY DEF IndexTypeOK, StateTypeOK, OpTypeOK

\* A request that begins is an operation of its kind.
LEMMA BegunIsOp ==
  ASSUME NEW o \in Ops, NEW kind \in Kinds, NEW stage \in Stages,
         NEW names \in SUBSET Names, NEW labels \in Seq(Labels)
  PROVE  /\ [o EXCEPT !.kind = kind, !.stage = stage] \in Ops
         /\ [o EXCEPT !.kind = kind, !.stage = stage, !.ids = labels, !.names = names] \in Ops
         /\ \A t \in Tags \cup {NoTag} :
              [o EXCEPT !.kind = kind, !.stage = stage, !.ids = labels, !.tag = t] \in Ops
         /\ \A t \in Threads, objs \in Seq(Objects) :
              [o EXCEPT !.kind = kind, !.stage = stage, !.thread = t, !.objs = objs,
                        !.names = names] \in Ops
  BY DEF Ops

LogBelow(entries, n) == \A i \in DOMAIN entries : entries[i].id < n

\* Every log call appends records, of labels the counter has passed.
LEMMA LogAppends ==
  ASSUME IndexInv, AddLogsIds \/ AddLogsOps \/ DeleteLogs
  PROVE  /\ \E more \in Seq(WalRecords) : wal' = wal \o more /\ LogBelow(more, nextId)
         /\ wal \in Seq(WalRecords) /\ wal' \in Seq(WalRecords) /\ walCount' \in Nat
<1>1. /\ wal \in Seq(WalRecords) /\ walCount \in Nat /\ op \in Ops /\ nextId \in Nat
      /\ batch.alloc \in Seq(Nat) /\ IdsBelowNext /\ IdsFit /\ OpLabelsBelowNext
  BY DEF IndexInv, IndexTypeOK, IdInv, IdTypeOK
<1>2. op.ids \in Seq(Labels) /\ Len(op.ids) \in Nat
  BY <1>1 DEF Ops
<1> SUFFICES /\ \E more \in Seq(WalRecords) : wal' = wal \o more /\ LogBelow(more, nextId)
             /\ walCount' \in Nat
  <2>1. \A more \in Seq(WalRecords) : wal \o more \in Seq(WalRecords)
    BY <1>1
  <2> QED
    BY <1>1, <2>1
<1>3. ASSUME NEW operation \in WalOps, NEW labels \in Seq(Labels),
             LogRecords(operation, labels), \A i \in DOMAIN labels : labels[i] < nextId
      PROVE  /\ \E more \in Seq(WalRecords) : wal' = wal \o more /\ LogBelow(more, nextId)
             /\ walCount' \in Nat
  <2>1. /\ Records(operation, labels) \in Seq(WalRecords)
        /\ \A i \in DOMAIN labels : Records(operation, labels)[i].id = labels[i]
    BY RecordsAreRecords
  <2>2. LogBelow(Records(operation, labels), nextId)
    BY <1>3, <2>1 DEF LogBelow, Records
  <2>3. Len(labels) \in Nat
    OBVIOUS
  <2>4. wal' = wal \o Records(operation, labels) /\ walCount' = walCount + Len(labels)
    BY <1>3 DEF LogRecords
  <2>5. walCount' \in Nat
    BY <1>1, <2>3, <2>4
  <2>6. \E more \in Seq(WalRecords) : wal' = wal \o more /\ LogBelow(more, nextId)
    <3> DEFINE more == Records(operation, labels)
    <3>1. more \in Seq(WalRecords) /\ wal' = wal \o more /\ LogBelow(more, nextId)
      BY <2>1, <2>2, <2>4
    <3> HIDE DEF more
    <3> QED
      BY <3>1
  <2> QED
    BY <2>5, <2>6
<1>4. CASE AddLogsIds
  <2>1. \A i \in DOMAIN batch.alloc : batch.alloc[i] \in Labels /\ batch.alloc[i] < nextId
    <3>1. /\ nextId <= MaxId + 1
          /\ \A i \in DOMAIN batch.alloc : batch.alloc[i] \in 1..(nextId - 1)
      BY <1>1 DEF IdsBelowNext, IdsFit
    <3> QED
      BY <1>1, <3>1, IndexStoreAssumption, IdMapperAssumption
  <2>2. batch.alloc \in Seq(Labels)
    <3>1. batch.alloc \in Seq(Nat)
      BY <1>1
    <3> QED
      BY <2>1, <3>1
  <2>3. "ADD" \in WalOps /\ LogRecords("ADD", batch.alloc)
    BY <1>4 DEF AddLogsIds, WalOps
  <2> QED
    BY <1>3, <2>1, <2>2, <2>3
<1>5. CASE AddLogsOps
  <2> DEFINE r == [i \in DOMAIN op.ids |->
                     [op |-> IF op.isNew[i] THEN "ADD" ELSE "UPDATE", id |-> op.ids[i]]]
  <2>1. DOMAIN op.ids = 1..Len(op.ids) /\ \A i \in 1..Len(op.ids) : op.ids[i] \in Labels
    BY <1>2
  <2>2. \A i \in 1..Len(op.ids) :
          [op |-> IF op.isNew[i] THEN "ADD" ELSE "UPDATE", id |-> op.ids[i]] \in WalRecords
    BY <2>1 DEF WalRecords, WalOps
  <2>3. r \in Seq(WalRecords)
    BY <1>2, <2>1, <2>2
  <2>4. LogBelow(r, nextId)
    BY <1>1 DEF LogBelow, OpLabelsBelowNext
  <2>5. wal' = wal \o r /\ walCount' = walCount + Len(op.ids)
    BY <1>5 DEF AddLogsOps
  <2> HIDE DEF r
  <2> QED
    BY <1>1, <1>2, <2>3, <2>4, <2>5
<1>6. CASE DeleteLogs
  <2>1. "DELETE" \in WalOps /\ LogRecords("DELETE", op.ids)
    BY <1>6 DEF DeleteLogs, WalOps
  <2> QED
    BY <1>1, <1>2, <1>3, <2>1 DEF OpLabelsBelowNext
<1> QED
  BY <1>4, <1>5, <1>6

\* The types of an insert's steps.
LEMMA AddTypes ==
  ASSUME IndexInv,
         \/ \E t \in Threads, objs \in Batches : BeginAdd(t, objs)
         \/ AddTakesDeleted \/ AddTakesFresh \/ AddLogsIds \/ AddWritesMappings
         \/ AddStoresVectors \/ AddFindsBadVector \/ AddFindsOwnTransaction
         \/ AddStoresMeta \/ AddStoresFilters \/ AddLogsOps \/ AddToGraph
  PROVE  StateTypeOK' /\ OpTypeOK'
<1>1. StateTypeOK /\ OpTypeOK /\ IdTypeOK /\ IdsBelowNext /\ IdsFit /\ OpShape
  BY IndexTypes DEF IndexInv, IdInv
<1> USE DEF stores, log, graphs, rest
<1>2. ASSUME NEW t \in Threads, NEW objs \in Batches, BeginAdd(t, objs)
      PROVE  StateTypeOK' /\ OpTypeOK'
  <2> DEFINE o == [NoOp EXCEPT !.kind = "add", !.stage = "ids", !.thread = t, !.objs = objs,
                               !.names = {objs[i].name : i \in DOMAIN objs}]
  <2>1. objs \in Seq(Objects)
    BY IndexStoreAssumption
  <2>2. {objs[i].name : i \in DOMAIN objs} \in SUBSET Names
    <3>1. \A i \in DOMAIN objs : objs[i] \in Objects
      BY <2>1
    <3> QED
      BY <3>1 DEF Objects
  <2>3. "add" \in Kinds /\ "ids" \in Stages /\ <<>> \in Seq(Labels)
    BY DEF Kinds, Stages
  <2>4. o \in Ops
    BY <2>1, <2>2, <2>3, BegunIsOp, NoOpIsOp
  <2>5. Begin(o) /\ UNCHANGED <<stores, log, graphs, rest>>
    BY <1>2 DEF BeginAdd
  <2> HIDE DEF o
  <2> QED
    BY <1>1, <2>4, <2>5, BeginTypes DEF StateTypeOK
<1>3. CASE AddTakesDeleted
  BY <1>1, <1>3 DEF AddTakesDeleted, StateTypeOK, OpTypeOK
<1>4. CASE AddTakesFresh
  BY <1>1, <1>4, GoToTypes DEF AddTakesFresh, StateTypeOK, Stages
<1>5. CASE AddLogsIds
  BY <1>1, <1>5, LogAppends, GoToTypes DEF AddLogsIds, StateTypeOK, Stages
<1>6. CASE AddWritesMappings
  <2>1. batch.stage = "allocated"
    BY <1>6 DEF AddWritesMappings, WriteMappings
  <2>2. BatchIds \in Seq(Labels) /\ BatchIsNew \in Seq(BOOLEAN)
    BY <2>1, BatchIdsAreLabels
  <2>3. op' = [op EXCEPT !.stage = "vectors", !.ids = BatchIds, !.isNew = BatchIsNew]
    BY <1>6 DEF AddWritesMappings
  <2>4. op' \in Ops
    BY <1>1, <2>2, <2>3 DEF OpTypeOK, Ops, Stages
  <2> QED
    BY <1>1, <1>6, <2>4 DEF AddWritesMappings, StateTypeOK, OpTypeOK
\* An id of the batch is a label, and what is stored for it comes from the batch.
<1>7. ASSUME NEW stage \in WithIds, At("add", stage)
      PROVE  /\ BatchLabels \subseteq Labels
             /\ \A l \in BatchLabels : LastFor(l) \in Objects
             /\ \A i \in DOMAIN op.ids : op.objs[i] \in Objects /\ op.ids[i] \in Labels
  <2>1. /\ op.ids \in Seq(Labels) /\ op.objs \in Seq(Objects)
        /\ Len(op.ids) = Len(op.objs) /\ Len(op.ids) \in Nat
    BY <1>1, <1>7 DEF OpTypeOK, Ops, OpShape, At
  <2>2. \A i \in DOMAIN op.ids : op.objs[i] \in Objects /\ op.ids[i] \in Labels
    BY <2>1
  <2>3. ASSUME NEW l \in BatchLabels
        PROVE  LastFor(l) \in Objects
    <3> DEFINE P == {i \in DOMAIN op.ids : op.ids[i] = l}
    <3>1. P \subseteq 1..Len(op.ids) /\ P # {}
      BY <2>1, <2>3 DEF BatchLabels
    <3>2. LastOf(P) \in P
      BY <2>1, <3>1, LastOfIsLast
    <3> QED
      BY <2>2, <3>2 DEF LastFor
  <2> QED
    BY <2>2, <2>3 DEF BatchLabels
<1>8. CASE AddStoresVectors
  <2>1. \A l \in BatchLabels : LastFor(l).vec \in Vecs
    BY <1>7, <1>8 DEF AddStoresVectors, WithIds, Objects
  <2>2. vec' \in [Labels -> Vecs \cup {NoVec}]
    BY <1>1, <1>8, <2>1 DEF AddStoresVectors, StateTypeOK
  <2> QED
    BY <1>1, <1>8, <2>2, GoToTypes DEF AddStoresVectors, StateTypeOK, Stages
<1>9. CASE AddFindsBadVector
  <2>1. OpTypeOK'
    BY <1>1, <1>9, AnswerTypes DEF AddFindsBadVector, Fail
  <2>2. vecWriter' \in Threads \cup {NoThread}
    BY <1>1, <1>9 DEF AddFindsBadVector, OpTypeOK, Ops
  <2> QED
    BY <1>1, <1>9, <2>1, <2>2 DEF AddFindsBadVector, StateTypeOK
<1>10. CASE AddFindsOwnTransaction
  BY <1>1, <1>10, AnswerTypes DEF AddFindsOwnTransaction, Fail, StateTypeOK
<1>11. CASE AddStoresMeta
  <2>1. \A l \in BatchLabels :
          [name |-> LastFor(l).name, tag |-> LastFor(l).tag]
            \in [name : Names \cup {NoName}, tag : Tags \cup {NoTag}]
    BY <1>7, <1>11 DEF AddStoresMeta, WithIds, Objects
  <2>2. meta' \in [Labels -> [name : Names \cup {NoName}, tag : Tags \cup {NoTag}]]
    BY <1>1, <1>11, <2>1 DEF AddStoresMeta, StateTypeOK
  <2> QED
    BY <1>1, <1>11, <2>2, GoToTypes DEF AddStoresMeta, StateTypeOK, Stages
<1>12. CASE AddStoresFilters
  <2>1. \A i \in DOMAIN op.ids : op.ids[i] \in Labels
    BY <1>7, <1>12 DEF AddStoresFilters, WithIds
  <2>2. filt' \in [Tags -> SUBSET Labels]
    BY <1>1, <1>12, <2>1 DEF AddStoresFilters, StateTypeOK
  <2> QED
    BY <1>1, <1>12, <2>2, GoToTypes DEF AddStoresFilters, StateTypeOK, Stages
<1>13. CASE AddLogsOps
  BY <1>1, <1>13, LogAppends, GoToTypes DEF AddLogsOps, StateTypeOK, Stages
<1>14. CASE AddToGraph
  <2>1. PICK last \in [BatchLabels -> DOMAIN op.ids] :
          LET new == {op.ids[i] : i \in {j \in DOMAIN op.ids : op.isNew[j]}}
          IN  mem' = AddPoints(mem, new, BatchLabels \ new,
                               [l \in BatchLabels |-> op.objs[last[l]].vec])
    BY <1>14 DEF AddToGraph
  <2> DEFINE new == {op.ids[i] : i \in {j \in DOMAIN op.ids : op.isNew[j]}}
             v == [l \in BatchLabels |-> op.objs[last[l]].vec]
  <2>2. /\ BatchLabels \subseteq Labels
        /\ \A i \in DOMAIN op.ids : op.objs[i] \in Objects
    BY <1>7, <1>14 DEF AddToGraph, WithIds
  <2>3. new \subseteq BatchLabels
    BY DEF BatchLabels
  <2>4. \A l \in BatchLabels : v[l] \in Vecs
    BY <2>2 DEF Objects
  <2>5. mem' = AddPoints(mem, new, BatchLabels \ new, v)
    BY <2>1
  <2> HIDE DEF new, v
  <2>6. mem' \in Graphs
    BY <1>1, <2>2, <2>3, <2>4, <2>5, AddPointsIsGraph DEF StateTypeOK
  <2> QED
    BY <1>1, <1>14, <2>6, GoToTypes DEF AddToGraph, StateTypeOK, Stages
<1> QED
  BY <1>2, <1>3, <1>4, <1>5, <1>6, <1>8, <1>9, <1>10, <1>11, <1>12, <1>13, <1>14

\* The types of the steps of a deletion and of a filter update.
LEMMA DeleteTypes ==
  ASSUME IndexInv,
         \/ \E n \in Names : DeleteByName(n)
         \/ \E t \in Tags : DeleteByFilter(t)
         \/ DeleteFindsNoMeta \/ DeleteUnmaps \/ DeleteMarks \/ DeleteLogs
         \/ \E n \in Names, t \in UpdateTags : BeginRetag(n, t)
         \/ RetagRemoves \/ RetagStoresMeta \/ RetagAdds
  PROVE  StateTypeOK' /\ OpTypeOK'
<1>1. StateTypeOK /\ OpTypeOK /\ IdTypeOK /\ IdsBelowNext /\ IdsFit /\ OpShape
  BY IndexTypes DEF IndexInv, IdInv
<1> USE DEF stores, log, graphs, rest
\* The id of a string id is a label.
<1>2. ASSUME NEW n \in Names, idmap[n] # NoId
      PROVE  <<idmap[n]>> \in Seq(Labels)
  <2>1. /\ idmap[n] \in Nat /\ idmap[n] # 0 /\ idmap[n] < nextId /\ nextId \in Nat
        /\ nextId <= MaxId + 1
    BY <1>1, <1>2 DEF IdTypeOK, IdsBelowNext, IdsFit, NoId
  <2>2. idmap[n] \in Labels
    BY <2>1, IndexStoreAssumption, IdMapperAssumption
  <2> QED
    BY <2>2
<1>3. ASSUME NEW labels \in Seq(Labels), NEW names \in SUBSET Names,
             BeginDelete(labels, names)
      PROVE  StateTypeOK' /\ OpTypeOK'
  <2> DEFINE o == [NoOp EXCEPT !.kind = "delete", !.stage = "unmap", !.ids = labels,
                               !.names = names]
  <2>1. "delete" \in Kinds /\ "unmap" \in Stages
    BY DEF Kinds, Stages
  <2>2. o \in Ops
    BY <2>1, BegunIsOp, NoOpIsOp
  <2>3. Begin(o) /\ UNCHANGED <<stores, log, graphs, rest>>
    BY <1>3 DEF BeginDelete
  <2> HIDE DEF o
  <2> QED
    BY <1>1, <2>2, <2>3, BeginTypes DEF StateTypeOK
<1>4. CASE \E n \in Names : DeleteByName(n)
  BY <1>2, <1>3, <1>4 DEF DeleteByName
<1>5. CASE \E t \in Tags : DeleteByFilter(t)
  <2>0. PICK t \in Tags : DeleteByFilter(t)
    BY <1>5
  <2>1. PICK labels \in [1..Cardinality(filt[t]) -> filt[t]] :
          BeginDelete(labels, {meta[l].name : l \in {k \in filt[t] : HasMeta(k)}})
    BY <2>0 DEF DeleteByFilter
  <2>2. filt[t] \subseteq Labels
    BY <1>1 DEF StateTypeOK
  <2>3. labels \in Seq(Labels)
    BY <2>2, LabelsFinite
  <2>4. {meta[l].name : l \in {k \in filt[t] : HasMeta(k)}} \in SUBSET Names
    BY DEF HasMeta
  <2> QED
    BY <1>3, <2>1, <2>3, <2>4
<1>6. CASE DeleteFindsNoMeta
  BY <1>1, <1>6, AnswerTypes DEF DeleteFindsNoMeta, Fail, StateTypeOK
<1>7. CASE DeleteUnmaps
  <2>1. "mark" \in Stages /\ op \in Ops
    BY <1>1 DEF Stages, OpTypeOK
  <2>2. op' \in Ops
    BY <1>7, <2>1, OpsMove DEF DeleteUnmaps
  <2> QED
    BY <1>1, <1>7, <2>2 DEF DeleteUnmaps, StateTypeOK, OpTypeOK
<1>8. CASE DeleteMarks
  <2>1. op.pos \in DOMAIN op.ids
    BY <1>1, <1>8 DEF DeleteMarks, At, OpShape, OpTypeOK, Ops
  <2>2. Deleted \in Labels
    BY <1>1, <2>1 DEF Deleted, OpTypeOK, Ops
  <2>3. filt' \in [Tags -> SUBSET Labels]
    BY <1>1, <1>8 DEF DeleteMarks, StateTypeOK
  <2>4. "unmap" \in Stages /\ op \in Ops
    BY <1>1 DEF Stages, OpTypeOK
  <2>5. OpTypeOK'
    <3>1. CASE CanMark(mem, Deleted)
      <4>1. op' = [op EXCEPT !.stage = "unmap", !.pos = @ + 1] /\ UNCHANGED promise
        BY <1>8, <3>1 DEF DeleteMarks
      <4> QED
        BY <1>1, <2>4, <4>1, OpsMove DEF OpTypeOK
    <3>2. CASE ~CanMark(mem, Deleted)
      BY <1>1, <1>8, <3>2, AnswerTypes DEF DeleteMarks, Fail
    <3> QED
      BY <3>1, <3>2
  <2>6. mem' \in Graphs
    BY <1>1, <1>8, <2>2, MarkDeleteIsGraph DEF DeleteMarks, StateTypeOK
  <2> QED
    BY <1>1, <1>8, <2>3, <2>5, <2>6 DEF DeleteMarks, StateTypeOK
<1>9. CASE DeleteLogs
  BY <1>1, <1>9, LogAppends, GoToTypes DEF DeleteLogs, StateTypeOK, Stages
<1>10. CASE \E n \in Names, t \in UpdateTags : BeginRetag(n, t)
  <2>1. PICK n \in Names, t \in UpdateTags : BeginRetag(n, t)
    BY <1>10
  <2> DEFINE o == [NoOp EXCEPT !.kind = "retag", !.stage = "untag", !.ids = <<idmap[n]>>,
                               !.tag = t]
  <2>2. /\ "retag" \in Kinds /\ "untag" \in Stages /\ t \in Tags \cup {NoTag}
        /\ <<idmap[n]>> \in Seq(Labels)
    BY <1>2, <2>1, IndexStoreAssumption DEF Kinds, Stages, BeginRetag
  <2>3. o \in Ops
    BY <2>2, BegunIsOp, NoOpIsOp
  <2>4. Begin(o) /\ UNCHANGED <<stores, log, graphs, rest>>
    BY <2>1 DEF BeginRetag
  <2> HIDE DEF o
  <2> QED
    BY <1>1, <2>3, <2>4, BeginTypes DEF StateTypeOK
<1>11. CASE RetagRemoves
  <2>1. filt' \in [Tags -> SUBSET Labels]
    BY <1>1, <1>11 DEF RetagRemoves, StateTypeOK
  <2> QED
    BY <1>1, <1>11, <2>1, GoToTypes DEF RetagRemoves, StateTypeOK, Stages
<1>12. CASE RetagStoresMeta
  <2>1. op.tag \in Tags \cup {NoTag}
    BY <1>1 DEF OpTypeOK, Ops
  <2>2. meta' = [meta EXCEPT ![Deleted].tag = op.tag]
    BY <1>12 DEF RetagStoresMeta
  <2>3. meta' \in [Labels -> [name : Names \cup {NoName}, tag : Tags \cup {NoTag}]]
    BY <1>1, <2>1, <2>2 DEF StateTypeOK
  <2> QED
    BY <1>1, <1>12, <2>3, GoToTypes DEF RetagStoresMeta, StateTypeOK, Stages
<1>13. CASE RetagAdds
  <2>1. Deleted \in Labels
    BY <1>1, <1>13 DEF RetagAdds, At, OpShape, OpTypeOK, Ops, Deleted
  <2>2. filt' \in [Tags -> SUBSET Labels]
    BY <1>1, <1>13, <2>1 DEF RetagAdds, StateTypeOK
  <2> QED
    BY <1>1, <1>13, <2>2, AnswerTypes DEF RetagAdds, StateTypeOK
<1> QED
  BY <1>4, <1>5, <1>6, <1>7, <1>8, <1>9, <1>10, <1>11, <1>12, <1>13

\* An empty graph is one.
LEMMA EmptyGraphIsGraph == EmptyGraph \in Graphs
  BY DEF EmptyGraph, Graphs, Marks

\* The types of saving, evicting and loading, and of the death of the process.
LEMMA SaveTypes ==
  ASSUME IndexInv,
         \/ BeginSave \/ SaveWhenLong \/ AnswerWhenShort \/ SaveImage \/ SaveClearsWal
         \/ SaveCounts \/ Evict \/ Load \/ RecoverEntry \/ RecoverEnds \/ Crash
  PROVE  StateTypeOK' /\ OpTypeOK'
<1>1. StateTypeOK /\ OpTypeOK
  BY IndexTypes DEF IndexInv
<1>2. Outcome \in {"unknown", "present", "absent"}
  BY DEF Outcome
<1> USE DEF stores, log, graphs, rest
<1>3. CASE BeginSave
  <2>1. "save" \in Kinds /\ "image" \in Stages /\ <<>> \in Seq(Labels) /\ {} \in SUBSET Names
    BY DEF Kinds, Stages
  <2>2. [NoOp EXCEPT !.kind = "save", !.stage = "image"] \in Ops
    BY <2>1, BegunIsOp, NoOpIsOp
  <2> QED
    BY <1>1, <1>3, <2>2 DEF BeginSave, StateTypeOK, OpTypeOK
<1>4. CASE SaveWhenLong
  BY <1>1, <1>4, GoToTypes DEF SaveWhenLong, StateTypeOK, Stages
<1>5. CASE AnswerWhenShort
  BY <1>1, <1>2, <1>5, AnswerTypes DEF AnswerWhenShort, StateTypeOK
<1>6. CASE SaveImage
  BY <1>1, <1>6, GoToTypes DEF SaveImage, StateTypeOK, Stages
<1>7. CASE SaveClearsWal
  <2>1. wal' \in Seq(WalRecords)
    BY <1>7 DEF SaveClearsWal
  <2> QED
    BY <1>1, <1>7, <2>1, GoToTypes DEF SaveClearsWal, StateTypeOK, Stages
<1>8. CASE SaveCounts
  <2>1. elementCount' \in Nat
    BY <1>1, <1>8, ElementsCountIsNat DEF SaveCounts, StateTypeOK
  <2> QED
    BY <1>1, <1>2, <1>8, <2>1, AnswerTypes DEF SaveCounts, StateTypeOK
<1>9. CASE Evict
  BY <1>1, <1>9, EmptyGraphIsGraph DEF Evict, StateTypeOK, OpTypeOK
<1>10. CASE Load
  <2>1. "load" \in Kinds /\ "recover" \in Stages /\ <<>> \in Seq(Labels) /\ {} \in SUBSET Names
    BY DEF Kinds, Stages
  <2>2. [NoOp EXCEPT !.kind = "load", !.stage = "recover"] \in Ops
    BY <2>1, BegunIsOp, NoOpIsOp
  <2> QED
    BY <1>1, <1>10, <2>2 DEF Load, StateTypeOK, OpTypeOK
<1>11. CASE RecoverEntry
  <2>1. ReadEntries(wal) \in Seq(WalRecords) /\ op.pos \in Nat \ {0} /\ op \in Ops
    BY <1>1, ReadEntriesAreRecords DEF StateTypeOK, OpTypeOK, Ops
  <2>2. op.pos <= Len(ReadEntries(wal)) /\ mem' = Recover(mem, ReadEntries(wal)[op.pos])
    BY <1>11 DEF RecoverEntry
  <2>3. ReadEntries(wal)[op.pos] \in WalRecords
    BY <2>1, <2>2
  <2>4. mem' \in Graphs
    BY <1>1, <2>2, <2>3, RecoverIsGraph DEF StateTypeOK
  <2>5. op' \in Ops
    BY <1>11, <2>1, OpsMove, NoOpIsOp DEF RecoverEntry, NoOp, Ops
  <2> QED
    BY <1>1, <1>11, <2>4, <2>5 DEF RecoverEntry, StateTypeOK, OpTypeOK
<1>12. CASE RecoverEnds
  BY <1>1, <1>12, GoToTypes DEF RecoverEnds, StateTypeOK, Stages
<1>13. CASE Crash
  <2>1. OpTypeOK'
    BY <1>1, <1>13, AnswerTypes DEF Crash, Fail
  <2>2. crashes' \in 0..MaxCrashes
    BY <1>1, <1>13, IndexStoreAssumption DEF Crash, StateTypeOK
  <2>3. walCount' \in Nat
    BY <1>13 DEF Crash, CountOnOpen
  <2> QED
    BY <1>1, <1>13, <2>1, <2>2, <2>3, EmptyGraphIsGraph DEF Crash, StateTypeOK
<1> QED
  BY <1>3, <1>4, <1>5, <1>6, <1>7, <1>8, <1>9, <1>10, <1>11, <1>12, <1>13

\* Every step keeps the types.
LEMMA StepKeepsTypes ==
  ASSUME IndexInv, [Next]_vars
  PROVE  IdInv' /\ IndexTypeOK'
<1>1. IdInv'
  BY StepIsMapperStep, StepKeepsIdInv DEF IndexInv
<1>2. IdTypeOK'
  BY <1>1 DEF IdInv
<1>3. StateTypeOK' /\ OpTypeOK'
  <2>1. CASE UNCHANGED vars
    BY <2>1, IndexTypes DEF IndexInv, vars, stores, log, graphs, rest, StateTypeOK, OpTypeOK
  <2> QED
    BY <2>1, AddTypes, DeleteTypes, SaveTypes DEF Next, Step
<1>4. IndexTypeOK'
  BY <1>2, <1>3 DEF IndexTypeOK, StateTypeOK, OpTypeOK
<1> QED
  BY <1>1, <1>4

-------------------------------------------------------------------------------
(* The course of an operation.                                             *)

\* A batch takes no more ids than the request was let in for.
LEMMA StepKeepsIdsFit ==
  ASSUME IdInv, IdsFit, [IdNext]_idVars
  PROVE  IdsFit'
<1>1. /\ batch.old \in Seq(Nat) /\ batch.alloc \in Seq(Nat) /\ deletedIds \in Seq(Nat)
      /\ nextId \in Nat /\ TakenEnough
      /\ batch \in [stage : BatchStages, names : Seq(Names), reuse : BOOLEAN,
                    old : Seq(Nat), alloc : Seq(Nat), reused : Nat]
  BY DEF IdInv, IdTypeOK
<1>2. Needed \in Nat
  BY <1>1, NewAtFinite DEF Needed
<1>3. CASE \E names \in NameBatches, reuse \in BOOLEAN : LookUp(names, reuse)
  <2>1. PICK names \in NameBatches, reuse \in BOOLEAN : LookUp(names, reuse)
    BY <1>3
  <2> DEFINE new == {i \in DOMAIN names : idmap[names[i]] = NoId}
  <2>2. nextId + Cardinality(new) <= MaxId + 1
    BY <2>1 DEF LookUp
  <2>3. NewAt(batch'.old) = new
    BY <2>1 DEF LookUp, NewAt
  <2>4. IsFiniteSet(new) /\ Cardinality(new) \in Nat
    <3>1. IsFiniteSet(DOMAIN names)
      BY IdMapperAssumption, FS_Interval
    <3> QED
      BY <3>1, FS_Subset, FS_CardinalityType
  <2>5. Needed' = Cardinality(new)
    BY <2>3 DEF Needed
  <2> HIDE DEF new
  <2>6. nextId' = nextId /\ batch'.stage = "lookedUp"
    BY <2>1 DEF LookUp
  <2> QED
    BY <1>1, <2>2, <2>4, <2>5, <2>6, IdMapperAssumption DEF IdsFit
<1>4. CASE TakeDeleted
  <2> DEFINE k == IF batch.reuse THEN Smaller(Needed, Len(deletedIds)) ELSE 0
  <2>1. k \in 0..Len(deletedIds) /\ k <= Needed
    BY <1>1, <1>2 DEF Smaller
  <2>2. /\ batch' = [batch EXCEPT !.stage = "taken", !.reused = k,
                                  !.alloc = SubSeq(deletedIds, 1, k)]
        /\ nextId' = nextId /\ batch.stage = "lookedUp"
    BY <1>4 DEF TakeDeleted
  <2> HIDE DEF k
  <2>3. /\ batch'.old = batch.old /\ batch'.stage = "taken"
        /\ batch'.alloc = SubSeq(deletedIds, 1, k)
    BY <1>1, <2>2
  <2>4. Len(batch'.alloc) = k
    BY <1>1, <2>1, <2>3
  <2>5. Needed' = Needed
    BY <2>3 DEF Needed
  <2> QED
    BY <1>1, <1>2, <2>1, <2>2, <2>3, <2>4, <2>5, IdMapperAssumption DEF IdsFit
<1>5. CASE TakeFresh
  <2>1. batch.stage = "taken" /\ nextId' = nextId + (Needed - Len(batch.alloc))
    BY <1>5 DEF TakeFresh
  <2>2. batch'.stage = "allocated"
    BY <1>1, <1>5 DEF TakeFresh
  <2> QED
    BY <2>1, <2>2 DEF IdsFit
<1>6. CASE WriteMappings \/ AbandonBatch
  <2>1. nextId' = nextId /\ batch'.stage = "none"
    BY <1>6 DEF WriteMappings, AbandonBatch, NoBatch
  <2> QED
    BY <2>1 DEF IdsFit
<1>7. CASE (\E n \in Names : DeletePoint(n)) \/ UNCHANGED idVars
  <2>1. nextId' = nextId /\ batch' = batch
    BY <1>7 DEF DeletePoint, idVars
  <2> QED
    BY <2>1 DEF IdsFit, Needed
<1> QED
  BY <1>3, <1>4, <1>5, <1>6, <1>7 DEF IdNext

\* Every step keeps the course of the operation: an insert alone runs a batch, and
\* on its own string ids; an operation has the ids its stage needs; and the graph
\* is saved when the log is about to be cleared.
LEMMA StepKeepsCourse ==
  ASSUME IndexInv, [Next]_vars
  PROVE  BatchIsOps' /\ OpShape' /\ SavedBeforeCleared'
<1>1. op \in Ops /\ BatchIsOps /\ OpShape /\ SavedBeforeCleared /\ IdTypeOK
  BY DEF IndexInv, IndexTypeOK
<1> DEFINE Goal == BatchIsOps' /\ OpShape' /\ SavedBeforeCleared'
<1> USE DEF ids, stores, log, graphs, rest
<1>2. ASSUME NEW t \in Threads, NEW objs \in Batches, BeginAdd(t, objs)
      PROVE  Goal
  BY <1>1, <1>2 DEF BeginAdd, LookUp, Begin, Idle, NoOp, Ops, BatchIsOps, OpShape,
                    SavedBeforeCleared, WithIds
<1>3. CASE AddTakesDeleted
  BY <1>1, <1>3 DEF AddTakesDeleted, TakeDeleted, At, IdTypeOK, BatchIsOps, OpShape,
                    SavedBeforeCleared, WithIds
<1>4. CASE AddTakesFresh
  BY <1>1, <1>4 DEF AddTakesFresh, TakeFresh, GoTo, At, IdTypeOK, Ops, BatchIsOps, OpShape,
                    SavedBeforeCleared, WithIds
<1>5. CASE AddLogsIds
  BY <1>1, <1>5 DEF AddLogsIds, GoTo, At, Ops, BatchIsOps, OpShape, SavedBeforeCleared,
                    WithIds
<1>6. CASE AddWritesMappings
  <2>1. batch.stage = "allocated" /\ batch' = NoBatch /\ UNCHANGED loaded
    BY <1>6 DEF AddWritesMappings, WriteMappings
  <2>2. Len(BatchIds) = Len(op.objs) /\ Len(BatchIsNew) = Len(op.objs)
    BY <2>1, BatchIdsAreLabels
  <2>3. /\ op' = [op EXCEPT !.stage = "vectors", !.ids = BatchIds, !.isNew = BatchIsNew]
        /\ op.kind = "add"
    BY <1>6 DEF AddWritesMappings, At
  <2>4. /\ op'.kind = "add" /\ op'.stage = "vectors" /\ op'.objs = op.objs
        /\ op'.ids = BatchIds /\ op'.isNew = BatchIsNew
    BY <1>1, <2>3 DEF Ops
  <2> QED
    BY <1>1, <2>1, <2>2, <2>3, <2>4
       DEF NoBatch, BatchIsOps, OpShape, SavedBeforeCleared
<1>7. CASE AddStoresVectors \/ AddStoresMeta \/ AddStoresFilters \/ AddLogsOps \/ AddToGraph
  <2>1. PICK stage \in WithIds \cup {"saveCheck"} : GoTo(stage)
    BY <1>7 DEF AddStoresVectors, AddStoresMeta, AddStoresFilters, AddLogsOps, AddToGraph,
                WithIds
  <2>2. op.kind = "add" /\ op.stage \in WithIds /\ UNCHANGED <<batch, loaded>>
    BY <1>7 DEF AddStoresVectors, AddStoresMeta, AddStoresFilters, AddLogsOps, AddToGraph,
                At, WithIds
  <2> QED
    BY <1>1, <2>1, <2>2 DEF GoTo, Ops, BatchIsOps, OpShape, SavedBeforeCleared, WithIds
<1>8. CASE AddFindsBadVector \/ AddFindsOwnTransaction
  BY <1>1, <1>8 DEF AddFindsBadVector, AddFindsOwnTransaction, At, Fail, Answer, NoOp,
                    BatchIsOps, OpShape, SavedBeforeCleared
<1>9. ASSUME NEW labels, NEW names, BeginDelete(labels, names)
      PROVE  Goal
  BY <1>1, <1>9 DEF BeginDelete, Begin, Idle, NoOp, BatchIsOps, OpShape, SavedBeforeCleared
<1>10. CASE DeleteFindsNoMeta
  BY <1>1, <1>10 DEF DeleteFindsNoMeta, At, Fail, Answer, NoOp, BatchIsOps, OpShape,
                     SavedBeforeCleared
<1>11. CASE DeleteUnmaps
  <2>1. /\ op.kind = "delete" /\ op.pos <= Len(op.ids) /\ op.stage = "unmap"
        /\ UNCHANGED <<batch, loaded>>
        /\ op' \in {[op EXCEPT !.stage = "mark"], [op EXCEPT !.pos = @ + 1]}
    BY <1>11 DEF DeleteUnmaps, At, MoreToDelete, DeletePoint
  <2> QED
    BY <1>1, <2>1 DEF Ops, BatchIsOps, OpShape, SavedBeforeCleared
<1>12. CASE DeleteMarks
  <2>1. /\ op.kind = "delete" /\ UNCHANGED <<batch, loaded>>
        /\ op' \in {[op EXCEPT !.stage = "unmap", !.pos = @ + 1], NoOp}
    BY <1>12 DEF DeleteMarks, At, Fail, Answer
  <2>2. CASE op' = NoOp
    BY <1>1, <2>1, <2>2 DEF NoOp, BatchIsOps, OpShape, SavedBeforeCleared
  <2>3. CASE op' = [op EXCEPT !.stage = "unmap", !.pos = @ + 1]
    BY <1>1, <2>1, <2>3 DEF Ops, BatchIsOps, OpShape, SavedBeforeCleared
  <2> QED
    BY <2>1, <2>2, <2>3
<1>13. CASE DeleteLogs
  BY <1>1, <1>13 DEF DeleteLogs, At, GoTo, Ops, BatchIsOps, OpShape, SavedBeforeCleared
<1>14. ASSUME NEW n \in Names, NEW t \in UpdateTags, BeginRetag(n, t)
       PROVE  Goal
  BY <1>1, <1>14 DEF BeginRetag, Begin, Idle, NoOp, BatchIsOps, OpShape, SavedBeforeCleared
<1>15. CASE RetagRemoves \/ RetagStoresMeta
  BY <1>1, <1>15 DEF RetagRemoves, RetagStoresMeta, At, GoTo, Ops, BatchIsOps, OpShape,
                     SavedBeforeCleared
<1>16. CASE RetagAdds
  BY <1>1, <1>16 DEF RetagAdds, At, Answer, NoOp, BatchIsOps, OpShape, SavedBeforeCleared
<1>17. CASE BeginSave
  BY <1>1, <1>17 DEF BeginSave, Idle, NoOp, BatchIsOps, OpShape, SavedBeforeCleared
<1>18. CASE SaveWhenLong \/ SaveClearsWal \/ RecoverEnds
  BY <1>1, <1>18 DEF SaveWhenLong, SaveClearsWal, RecoverEnds, At, GoTo, Ops, BatchIsOps,
                     OpShape, SavedBeforeCleared, WithIds
<1>19. CASE SaveImage
  BY <1>1, <1>19 DEF SaveImage, GoTo, Ops, BatchIsOps, OpShape, SavedBeforeCleared, WithIds
<1>20. CASE AnswerWhenShort \/ SaveCounts
  BY <1>1, <1>20 DEF AnswerWhenShort, SaveCounts, Answer, NoOp, BatchIsOps, OpShape,
                     SavedBeforeCleared
<1>21. CASE Evict
  BY <1>1, <1>21 DEF Evict, Idle, BatchIsOps, OpShape, SavedBeforeCleared
<1>22. CASE Load
  BY <1>1, <1>22 DEF Load, NoOp, BatchIsOps, OpShape, SavedBeforeCleared
<1>23. CASE RecoverEntry
  BY <1>1, <1>23 DEF RecoverEntry, At, Ops, BatchIsOps, OpShape, SavedBeforeCleared
<1>24. CASE Crash
  BY <1>24 DEF Crash, AbandonBatch, Fail, Answer, NoBatch, NoOp, BatchIsOps, OpShape,
               SavedBeforeCleared
<1>25. CASE UNCHANGED vars
  BY <1>1, <1>25 DEF vars, BatchIsOps, OpShape, SavedBeforeCleared
<1> QED
  BY <1>2, <1>3, <1>4, <1>5, <1>6, <1>7, <1>8, <1>9, <1>10, <1>11, <1>12, <1>13, <1>14,
     <1>15, <1>16, <1>17, <1>18, <1>19, <1>20, <1>21, <1>22, <1>23, <1>24, <1>25
     DEF Next, Step, DeleteByName, DeleteByFilter

-------------------------------------------------------------------------------
(* Labels and the counter.                                                 *)

\* The counter of the mapper never goes back.
LEMMA NextIdGrows ==
  ASSUME IdInv, [IdNext]_idVars
  PROVE  nextId \in Nat /\ nextId' \in Nat /\ nextId <= nextId'
<1>1. nextId \in Nat /\ batch.old \in Seq(Nat) /\ batch.alloc \in Seq(Nat) /\ TakenEnough
  BY DEF IdInv, IdTypeOK
<1>2. CASE TakeFresh
  <2>1. Needed \in Nat
    BY <1>1, NewAtFinite DEF Needed
  <2>2. Len(batch.alloc) \in Nat /\ Len(batch.alloc) <= Needed
    BY <1>1, <1>2 DEF TakeFresh, TakenEnough
  <2>3. nextId' = nextId + (Needed - Len(batch.alloc))
    BY <1>2 DEF TakeFresh
  <2> QED
    BY <1>1, <2>1, <2>2, <2>3
<1>3. CASE ~TakeFresh
  <2>1. nextId' = nextId
    BY <1>3 DEF IdNext, LookUp, TakeDeleted, WriteMappings, DeletePoint, AbandonBatch, idVars
  <2> QED
    BY <1>1, <2>1
<1> QED
  BY <1>2, <1>3

\* Only addPoint of a new label brings a label into the graph.
LEMMA AddPointsBrings ==
  ASSUME NEW g \in Graphs, NEW new \in SUBSET Labels, NEW upd \in SUBSET Labels, NEW v,
         NEW l \in Labels, AddPoints(g, new, upd, v).mark[l] # "absent"
  PROVE  l \in new \/ g.mark[l] # "absent"
  BY DEF AddPoints

\* markDelete brings none.
LEMMA MarkDeleteBrings ==
  ASSUME NEW g \in Graphs, NEW k \in Labels, CanMark(g, k),
         NEW l \in Labels, MarkDelete(g, k).mark[l] # "absent"
  PROVE  g.mark[l] # "absent"
<1>1. MarkDelete(g, k).mark = [g.mark EXCEPT ![k] = "deleted"] /\ g.mark \in [Labels -> Marks]
  BY DEF MarkDelete, Graphs
<1>2. g.mark[k] # "absent"
  BY DEF CanMark
<1> QED
  BY <1>1, <1>2

\* Nor does the recovery of an entry.
LEMMA RecoverBrings ==
  ASSUME NEW g \in Graphs, NEW entry \in WalRecords,
         NEW l \in Labels, Recover(g, entry).mark[l] # "absent"
  PROVE  g.mark[l] # "absent"
<1>1. entry.id \in Labels
  BY DEF WalRecords
<1>2. CASE Recover(g, entry) = AddPoints(g, {}, {entry.id}, vec)
  BY <1>1, <1>2, AddPointsBrings
<1>3. CASE CanMark(g, entry.id) /\ Recover(g, entry) = MarkDelete(g, entry.id)
  BY <1>1, <1>3, MarkDeleteBrings
<1>4. CASE Recover(g, entry) = g
  BY <1>4
<1> QED
  BY <1>2, <1>3, <1>4 DEF Recover

GraphBelow(g, n) == \A l \in Labels : g.mark[l] # "absent" => l < n
BitmapsBelow(bitmaps, n) == \A t \in Tags : \A l \in bitmaps[t] : l < n
IdsBelow(labels, n) == \A i \in DOMAIN labels : labels[i] < n

\* The parts of LabelsBelowNext.
LEMMA LabelsBelowNextParts ==
  LabelsBelowNext <=> /\ GraphBelow(mem, nextId) /\ GraphBelow(disk, nextId)
                      /\ LogBelow(wal, nextId) /\ BitmapsBelow(filt, nextId)
  BY DEF LabelsBelowNext, GraphBelow, LogBelow, BitmapsBelow

\* What is below the counter stays below it.
LEMMA BelowStays ==
  ASSUME NEW m \in Nat, NEW n \in Nat, m <= n
  PROVE  /\ \A g : GraphBelow(g, m) => GraphBelow(g, n)
         /\ \A entries \in Seq(WalRecords) : LogBelow(entries, m) => LogBelow(entries, n)
         /\ \A bitmaps \in [Tags -> SUBSET Labels] :
              BitmapsBelow(bitmaps, m) => BitmapsBelow(bitmaps, n)
         /\ \A labels \in Seq(Labels) : IdsBelow(labels, m) => IdsBelow(labels, n)
<1>1. ASSUME NEW l \in Labels, l < m
      PROVE  l < n
  <2>1. l \in Nat
    BY HnswAssumption
  <2> QED
    BY <1>1, <2>1
<1>2. \A g : GraphBelow(g, m) => GraphBelow(g, n)
  BY <1>1 DEF GraphBelow
<1>3. \A entries \in Seq(WalRecords) : LogBelow(entries, m) => LogBelow(entries, n)
  <2> SUFFICES ASSUME NEW entries \in Seq(WalRecords), LogBelow(entries, m),
                      NEW i \in DOMAIN entries
               PROVE  entries[i].id < n
    BY DEF LogBelow
  <2>1. entries[i] \in WalRecords
    OBVIOUS
  <2>2. entries[i].id \in Labels /\ entries[i].id < m
    BY <2>1 DEF LogBelow, WalRecords
  <2> QED
    BY <1>1, <2>2
<1>4. \A bitmaps \in [Tags -> SUBSET Labels] :
        BitmapsBelow(bitmaps, m) => BitmapsBelow(bitmaps, n)
  BY <1>1 DEF BitmapsBelow
<1>5. \A labels \in Seq(Labels) : IdsBelow(labels, m) => IdsBelow(labels, n)
  <2> SUFFICES ASSUME NEW labels \in Seq(Labels), IdsBelow(labels, m), NEW i \in DOMAIN labels
               PROVE  labels[i] < n
    BY DEF IdsBelow
  <2>1. labels[i] \in Labels /\ labels[i] < m
    BY DEF IdsBelow
  <2> QED
    BY <1>1, <2>1
<1> QED
  BY <1>2, <1>3, <1>4, <1>5

\* What is appended to the log is below the counter when the labels are.
LEMMA LogStaysBelow ==
  ASSUME NEW entries \in Seq(WalRecords), NEW more \in Seq(WalRecords), NEW n,
         LogBelow(entries, n), LogBelow(more, n)
  PROVE  LogBelow(entries \o more, n)
<1>1. /\ DOMAIN (entries \o more) = 1..(Len(entries) + Len(more))
      /\ \A i \in DOMAIN (entries \o more) :
           \/ i \in DOMAIN entries /\ (entries \o more)[i] = entries[i]
           \/ i - Len(entries) \in DOMAIN more /\ (entries \o more)[i] = more[i - Len(entries)]
  OBVIOUS
<1> QED
  BY <1>1 DEF LogBelow

\* No step stores or remembers a label that is still to be handed out.
LEMMA StepKeepsLabelsBelow ==
  ASSUME IndexInv, [Next]_vars
  PROVE  LabelsBelowNext' /\ OpLabelsBelowNext'
<1>1. /\ op \in Ops /\ mem \in Graphs /\ disk \in Graphs /\ wal \in Seq(WalRecords)
      /\ filt \in [Tags -> SUBSET Labels] /\ IdInv /\ IdTypeOK /\ IdsBelowNext /\ OpShape
  BY DEF IndexInv, IdInv, IndexTypeOK
<1>2. /\ GraphBelow(mem, nextId) /\ GraphBelow(disk, nextId) /\ LogBelow(wal, nextId)
      /\ BitmapsBelow(filt, nextId) /\ IdsBelow(op.ids, nextId)
  BY LabelsBelowNextParts DEF IndexInv, OpLabelsBelowNext, IdsBelow
<1>3. nextId \in Nat /\ nextId' \in Nat /\ nextId <= nextId'
  BY <1>1, StepIsMapperStep, NextIdGrows
\* It is enough to compare with the counter before the step.
<1> SUFFICES /\ GraphBelow(mem', nextId) /\ GraphBelow(disk', nextId)
             /\ LogBelow(wal', nextId) /\ BitmapsBelow(filt', nextId)
             /\ IdsBelow(op'.ids, nextId)
  <2>1. /\ mem' \in Graphs /\ wal' \in Seq(WalRecords) /\ filt' \in [Tags -> SUBSET Labels]
        /\ op'.ids \in Seq(Labels)
    BY StepKeepsTypes DEF IndexTypeOK, Ops
  <2>2. /\ GraphBelow(mem', nextId') /\ GraphBelow(disk', nextId') /\ LogBelow(wal', nextId')
        /\ BitmapsBelow(filt', nextId') /\ IdsBelow(op'.ids, nextId')
    BY <1>3, <2>1, BelowStays
  <2> QED
    BY <2>2 DEF LabelsBelowNext, OpLabelsBelowNext, GraphBelow, LogBelow, BitmapsBelow, IdsBelow
<1> USE DEF stores, log, graphs, rest
<1>4. IdsBelow(NoOp.ids, nextId) /\ GraphBelow(EmptyGraph, nextId) /\ LogBelow(<<>>, nextId)
  BY DEF IdsBelow, NoOp, GraphBelow, EmptyGraph, LogBelow
<1>5. ASSUME NEW n \in Names
      PROVE  IdsBelow(<<idmap[n]>>, nextId)
  BY <1>1 DEF IdsBelowNext, IdsBelow
\* Steps that touch no graph, log or bitmap, and keep the operation's ids or end it.
<1>6. ASSUME UNCHANGED <<mem, disk, wal, filt>>, op'.ids = op.ids \/ op' = NoOp
      PROVE  /\ GraphBelow(mem', nextId) /\ GraphBelow(disk', nextId)
             /\ LogBelow(wal', nextId) /\ BitmapsBelow(filt', nextId)
             /\ IdsBelow(op'.ids, nextId)
  BY <1>2, <1>4, <1>6
<1>7. CASE \/ AddTakesDeleted \/ AddTakesFresh \/ AddStoresVectors \/ AddFindsBadVector
           \/ AddFindsOwnTransaction \/ AddStoresMeta \/ DeleteFindsNoMeta \/ DeleteUnmaps
           \/ RetagStoresMeta \/ SaveWhenLong \/ AnswerWhenShort \/ SaveCounts \/ RecoverEnds
           \/ UNCHANGED vars
  <2>1. UNCHANGED <<mem, disk, wal, filt>>
    BY <1>7 DEF AddTakesDeleted, AddTakesFresh, AddStoresVectors, AddFindsBadVector,
                AddFindsOwnTransaction, AddStoresMeta, DeleteFindsNoMeta, DeleteUnmaps,
                RetagStoresMeta, SaveWhenLong, AnswerWhenShort, SaveCounts, RecoverEnds, vars
  <2>2. op'.ids = op.ids \/ op' = NoOp
    BY <1>1, <1>7
       DEF AddTakesDeleted, AddTakesFresh, AddStoresVectors, AddFindsBadVector,
           AddFindsOwnTransaction, AddStoresMeta, DeleteFindsNoMeta, DeleteUnmaps,
           RetagStoresMeta, SaveWhenLong, AnswerWhenShort, SaveCounts, RecoverEnds, vars,
           GoTo, Fail, Answer, Ops
  <2> QED
    BY <1>6, <2>1, <2>2
<1>8. CASE BeginSave \/ \E t \in Threads, objs \in Batches : BeginAdd(t, objs)
  <2>1. UNCHANGED <<mem, disk, wal, filt>> /\ op'.ids = <<>>
    BY <1>8 DEF BeginSave, BeginAdd, Begin, NoOp
  <2> QED
    BY <1>2, <1>4, <2>1 DEF NoOp
<1>9. CASE AddLogsIds \/ AddLogsOps \/ DeleteLogs
  <2>1. LogBelow(wal', nextId)
    BY <1>1, <1>2, <1>9, LogAppends, LogStaysBelow
  <2>2. UNCHANGED <<mem, disk, filt>> /\ op'.ids = op.ids
    BY <1>1, <1>9 DEF AddLogsIds, AddLogsOps, DeleteLogs, GoTo, Ops
  <2> QED
    BY <1>2, <2>1, <2>2
<1>10. CASE AddWritesMappings
  <2>1. batch.stage = "allocated"
    BY <1>10 DEF AddWritesMappings, WriteMappings
  <2>2. op'.ids = BatchIds /\ UNCHANGED <<mem, disk, wal, filt>>
    BY <1>1, <1>10 DEF AddWritesMappings, Ops
  <2> QED
    BY <1>2, <2>1, <2>2, BatchIdsAreLabels DEF IdsBelow
<1>11. CASE AddStoresFilters
  <2>1. BitmapsBelow(filt', nextId)
    BY <1>2, <1>11 DEF AddStoresFilters, BitmapsBelow, IdsBelow
  <2>2. UNCHANGED <<mem, disk, wal>> /\ op'.ids = op.ids
    BY <1>1, <1>11 DEF AddStoresFilters, GoTo, Ops
  <2> QED
    BY <1>2, <2>1, <2>2
<1>12. CASE AddToGraph
  <2>1. PICK last \in [BatchLabels -> DOMAIN op.ids] :
          LET new == {op.ids[i] : i \in {j \in DOMAIN op.ids : op.isNew[j]}}
          IN  mem' = AddPoints(mem, new, BatchLabels \ new,
                               [l \in BatchLabels |-> op.objs[last[l]].vec])
    BY <1>12 DEF AddToGraph
  <2> DEFINE new == {op.ids[i] : i \in {j \in DOMAIN op.ids : op.isNew[j]}}
             v == [l \in BatchLabels |-> op.objs[last[l]].vec]
  <2>2. mem' = AddPoints(mem, new, BatchLabels \ new, v)
    BY <2>1
  <2>3. /\ new \in SUBSET Labels /\ BatchLabels \ new \in SUBSET Labels
        /\ \A l \in new : l < nextId
    BY <1>1, <1>2 DEF Ops, BatchLabels, IdsBelow
  <2> HIDE DEF new, v
  <2>4. GraphBelow(mem', nextId)
    BY <1>1, <1>2, <2>2, <2>3, AddPointsBrings DEF GraphBelow
  <2>5. UNCHANGED <<disk, wal, filt>> /\ op'.ids = op.ids
    BY <1>1, <1>12 DEF AddToGraph, GoTo, Ops
  <2> QED
    BY <1>2, <2>4, <2>5
<1>13. CASE \E n \in Names : DeleteByName(n)
  <2>1. PICK n \in Names : DeleteByName(n)
    BY <1>13
  <2>2. UNCHANGED <<mem, disk, wal, filt>> /\ op'.ids = <<idmap[n]>>
    BY <2>1 DEF DeleteByName, BeginDelete, Begin, NoOp
  <2> QED
    BY <1>2, <1>5, <2>2
<1>14. CASE \E t \in Tags : DeleteByFilter(t)
  <2>1. PICK t \in Tags : DeleteByFilter(t)
    BY <1>14
  <2>2. PICK labels \in [1..Cardinality(filt[t]) -> filt[t]] :
          BeginDelete(labels, {meta[l].name : l \in {k \in filt[t] : HasMeta(k)}})
    BY <2>1 DEF DeleteByFilter
  <2>3. UNCHANGED <<mem, disk, wal, filt>> /\ op'.ids = labels
    BY <2>2 DEF BeginDelete, Begin, NoOp
  <2>4. IdsBelow(labels, nextId)
    BY <1>2 DEF BitmapsBelow, IdsBelow
  <2> QED
    BY <1>2, <2>3, <2>4
<1>15. CASE DeleteMarks
  <2>1. op.pos \in DOMAIN op.ids
    BY <1>1, <1>15 DEF DeleteMarks, At, OpShape, Ops
  <2>2. Deleted \in Labels
    BY <1>1, <2>1 DEF Deleted, Ops
  <2>3. GraphBelow(mem', nextId)
    BY <1>1, <1>2, <1>15, <2>2, MarkDeleteBrings DEF DeleteMarks, GraphBelow
  <2>4. BitmapsBelow(filt', nextId)
    BY <1>2, <1>15 DEF DeleteMarks, BitmapsBelow
  <2>5. UNCHANGED <<disk, wal>> /\ (op'.ids = op.ids \/ op' = NoOp)
    BY <1>1, <1>15 DEF DeleteMarks, Fail, Answer, Ops
  <2> QED
    BY <1>2, <1>4, <2>3, <2>4, <2>5
<1>16. CASE \E n \in Names, t \in UpdateTags : BeginRetag(n, t)
  <2>1. PICK n \in Names, t \in UpdateTags : BeginRetag(n, t)
    BY <1>16
  <2>2. UNCHANGED <<mem, disk, wal, filt>> /\ op'.ids = <<idmap[n]>>
    BY <2>1 DEF BeginRetag, Begin, NoOp
  <2> QED
    BY <1>2, <1>5, <2>2
<1>17. CASE RetagRemoves \/ RetagAdds
  <2>1. Deleted < nextId \/ RetagRemoves
    <3>1. CASE RetagAdds
      <4>1. op.pos \in DOMAIN op.ids
        BY <1>1, <3>1 DEF RetagAdds, At, OpShape, Ops
      <4> QED
        BY <1>2, <4>1 DEF Deleted, IdsBelow
    <3> QED
      BY <1>17, <3>1
  <2>2. BitmapsBelow(filt', nextId)
    BY <1>2, <1>17, <2>1 DEF RetagRemoves, RetagAdds, BitmapsBelow
  <2>3. UNCHANGED <<mem, disk, wal>> /\ (op'.ids = op.ids \/ op' = NoOp)
    BY <1>1, <1>17 DEF RetagRemoves, RetagAdds, GoTo, Answer, Ops
  <2> QED
    BY <1>2, <1>4, <2>2, <2>3
<1>18. CASE SaveImage \/ SaveClearsWal
  <2>1. /\ UNCHANGED <<mem, filt>> /\ disk' \in {disk, mem} /\ wal' \in {wal, <<>>}
        /\ op'.ids = op.ids
    BY <1>1, <1>18 DEF SaveImage, SaveClearsWal, GoTo, Ops
  <2> QED
    BY <1>2, <1>4, <2>1
<1>19. CASE Evict \/ Load \/ Crash
  <2>1. /\ UNCHANGED <<disk, wal, filt>> /\ mem' \in {EmptyGraph, disk}
        /\ op'.ids \in {op.ids, NoOp.ids}
    BY <1>19 DEF Evict, Load, Crash, Fail, Answer, NoOp
  <2> QED
    BY <1>2, <1>4, <2>1
<1>20. CASE RecoverEntry
  <2>1. ReadEntries(wal) \in Seq(WalRecords) /\ op.pos \in Nat \ {0}
    BY <1>1, ReadEntriesAreRecords DEF Ops
  <2>2. op.pos <= Len(ReadEntries(wal)) /\ mem' = Recover(mem, ReadEntries(wal)[op.pos])
    BY <1>20 DEF RecoverEntry
  <2>3. ReadEntries(wal)[op.pos] \in WalRecords
    BY <2>1, <2>2
  <2>4. GraphBelow(mem', nextId)
    BY <1>1, <1>2, <2>2, <2>3, RecoverBrings DEF GraphBelow
  <2>5. UNCHANGED <<disk, wal, filt>> /\ op'.ids = op.ids
    BY <1>1, <1>20 DEF RecoverEntry, Ops
  <2> QED
    BY <1>2, <2>4, <2>5
<1> QED
  BY <1>7, <1>8, <1>9, <1>10, <1>11, <1>12, <1>13, <1>14, <1>15, <1>16, <1>17, <1>18, <1>19,
     <1>20 DEF Next, Step

-------------------------------------------------------------------------------
(* The count of deleted elements.                                          *)

Counted(g) == g.del >= Cardinality(LabelsMarked(g, "deleted"))

\* addPoint counts down by the labels whose mark it clears, and by no others.
LEMMA AddPointsCounts ==
  ASSUME NEW g \in Graphs, NEW new \in SUBSET Labels, NEW upd \in SUBSET Labels, NEW v,
         Counted(g)
  PROVE  Counted(AddPoints(g, new, upd, v))
<1> DEFINE h == AddPoints(g, new, upd, v)
           D == LabelsMarked(g, "deleted")
           E == LabelsMarked(h, "deleted")
           back == {l \in {k \in upd : g.mark[k] # "absent"} : g.mark[l] = "deleted"}
<1>1. h.del = g.del - Cardinality(back)
  BY DEF AddPoints
<1>2. back \subseteq D /\ E \subseteq D \ back /\ D \subseteq Labels
  BY DEF AddPoints, LabelsMarked
<1>3. D \cap back = back
  BY <1>2
<1> HIDE DEF h, D, E, back
<1>4. /\ IsFiniteSet(D) /\ Cardinality(D) \in Nat /\ Cardinality(back) \in Nat
      /\ IsFiniteSet(D \ back) /\ Cardinality(D \ back) \in Nat /\ Cardinality(E) \in Nat
  BY <1>2, LabelsFinite
<1>5. Cardinality(D \ back) = Cardinality(D) - Cardinality(back)
  BY <1>3, <1>4, FS_Difference
<1>6. Cardinality(E) <= Cardinality(D \ back)
  BY <1>2, <1>4, FS_Subset
<1>7. g.del >= Cardinality(D) /\ g.del \in Int
  BY DEF Counted, Graphs, D
<1>8. h.del >= Cardinality(E)
  BY <1>1, <1>4, <1>5, <1>6, <1>7
<1> QED
  BY <1>8 DEF Counted, h, E

\* markDelete counts the label it marks, once more when it is marked already.
LEMMA MarkDeleteCounts ==
  ASSUME NEW g \in Graphs, NEW l \in Labels, Counted(g)
  PROVE  Counted(MarkDelete(g, l))
<1> DEFINE h == MarkDelete(g, l)
           D == LabelsMarked(g, "deleted")
           E == LabelsMarked(h, "deleted")
<1>1. h.del = g.del + 1
  BY DEF MarkDelete
<1>2. E \subseteq D \cup {l} /\ D \subseteq Labels
  BY DEF MarkDelete, LabelsMarked, Graphs
<1> HIDE DEF h, D, E
<1>3. /\ IsFiniteSet(D) /\ Cardinality(D) \in Nat /\ IsFiniteSet(D \cup {l})
      /\ Cardinality(D \cup {l}) \in Nat /\ Cardinality(E) \in Nat
  BY <1>2, LabelsFinite
<1>4. Cardinality(D \cup {l}) <= Cardinality(D) + 1
  BY <1>3, FS_AddElement
<1>5. Cardinality(E) <= Cardinality(D \cup {l})
  BY <1>2, <1>3, FS_Subset
<1>6. g.del >= Cardinality(D) /\ g.del \in Int
  BY DEF Counted, Graphs, D
<1>7. h.del >= Cardinality(E)
  BY <1>1, <1>3, <1>4, <1>5, <1>6
<1> QED
  BY <1>7 DEF Counted, h, E

\* So does the recovery of an entry.
LEMMA RecoverCounts ==
  ASSUME NEW g \in Graphs, NEW entry \in WalRecords, Counted(g)
  PROVE  Counted(Recover(g, entry))
<1>1. entry.id \in Labels
  BY DEF WalRecords
<1>2. Counted(AddPoints(g, {}, {entry.id}, vec))
  BY <1>1, AddPointsCounts
<1>3. Counted(MarkDelete(g, entry.id))
  BY <1>1, MarkDeleteCounts
<1> QED
  BY <1>2, <1>3 DEF Recover

\* Nothing is deleted in an empty graph.
LEMMA EmptyGraphCounts == Counted(EmptyGraph)
<1>1. LabelsMarked(EmptyGraph, "deleted") = {}
  BY DEF LabelsMarked, EmptyGraph
<1> QED
  BY <1>1, FS_EmptySet DEF Counted, EmptyGraph

\* Neither the graph in memory nor the saved one ever counts too few deletions.
LEMMA StepKeepsCounted ==
  ASSUME IndexInv, [Next]_vars
  PROVE  DeletedCounted' /\ SavedDeletedCounted'
<1>1. op \in Ops /\ mem \in Graphs /\ wal \in Seq(WalRecords) /\ OpShape
  BY DEF IndexInv, IndexTypeOK
<1>2. Counted(mem) /\ Counted(disk)
  BY DEF IndexInv, DeletedCounted, SavedDeletedCounted, Counted
<1> SUFFICES Counted(mem') /\ Counted(disk')
  BY DEF DeletedCounted, SavedDeletedCounted, Counted, LabelsMarked
<1> USE DEF stores, log, graphs, rest
<1>3. CASE AddToGraph
  <2>1. PICK last \in [BatchLabels -> DOMAIN op.ids] :
          LET new == {op.ids[i] : i \in {j \in DOMAIN op.ids : op.isNew[j]}}
          IN  mem' = AddPoints(mem, new, BatchLabels \ new,
                               [l \in BatchLabels |-> op.objs[last[l]].vec])
    BY <1>3 DEF AddToGraph
  <2> DEFINE new == {op.ids[i] : i \in {j \in DOMAIN op.ids : op.isNew[j]}}
             v == [l \in BatchLabels |-> op.objs[last[l]].vec]
  <2>2. mem' = AddPoints(mem, new, BatchLabels \ new, v)
    BY <2>1
  <2>3. new \in SUBSET Labels /\ BatchLabels \ new \in SUBSET Labels
    BY <1>1 DEF Ops, BatchLabels
  <2> HIDE DEF new, v
  <2>4. Counted(mem')
    BY <1>1, <1>2, <2>2, <2>3, AddPointsCounts
  <2> QED
    BY <1>2, <1>3, <2>4 DEF AddToGraph
<1>4. CASE DeleteMarks
  <2>1. Deleted \in Labels
    BY <1>1, <1>4 DEF DeleteMarks, At, OpShape, Ops, Deleted
  <2> QED
    BY <1>1, <1>2, <1>4, <2>1, MarkDeleteCounts DEF DeleteMarks
<1>5. CASE RecoverEntry
  <2>1. ReadEntries(wal) \in Seq(WalRecords) /\ op.pos \in Nat \ {0}
    BY <1>1, ReadEntriesAreRecords DEF Ops
  <2>2. op.pos <= Len(ReadEntries(wal)) /\ mem' = Recover(mem, ReadEntries(wal)[op.pos])
    BY <1>5 DEF RecoverEntry
  <2>3. ReadEntries(wal)[op.pos] \in WalRecords
    BY <2>1, <2>2
  <2> QED
    BY <1>1, <1>2, <1>5, <2>2, <2>3, RecoverCounts DEF RecoverEntry
<1>6. CASE Evict \/ Load \/ Crash \/ SaveImage
  BY <1>2, <1>6, EmptyGraphCounts DEF Evict, Load, Crash, SaveImage
<1>7. CASE \/ \E t \in Threads, objs \in Batches : BeginAdd(t, objs)
           \/ AddTakesDeleted \/ AddTakesFresh \/ AddLogsIds \/ AddWritesMappings
           \/ AddStoresVectors \/ AddFindsBadVector \/ AddFindsOwnTransaction
           \/ AddStoresMeta \/ AddStoresFilters \/ AddLogsOps
  BY <1>2, <1>7 DEF BeginAdd, AddTakesDeleted, AddTakesFresh, AddLogsIds, AddWritesMappings,
                    AddStoresVectors, AddFindsBadVector, AddFindsOwnTransaction,
                    AddStoresMeta, AddStoresFilters, AddLogsOps
<1>8. CASE \/ \E n \in Names : DeleteByName(n)
           \/ \E t \in Tags : DeleteByFilter(t)
           \/ DeleteFindsNoMeta \/ DeleteUnmaps \/ DeleteLogs
           \/ \E n \in Names, t \in UpdateTags : BeginRetag(n, t)
           \/ RetagRemoves \/ RetagStoresMeta \/ RetagAdds
  BY <1>2, <1>8 DEF DeleteByName, DeleteByFilter, BeginDelete, DeleteFindsNoMeta,
                    DeleteUnmaps, DeleteLogs, BeginRetag, RetagRemoves, RetagStoresMeta,
                    RetagAdds
<1>9. CASE \/ BeginSave \/ SaveWhenLong \/ AnswerWhenShort \/ SaveClearsWal \/ SaveCounts
           \/ RecoverEnds \/ UNCHANGED vars
  BY <1>2, <1>9 DEF BeginSave, SaveWhenLong, AnswerWhenShort, SaveClearsWal, SaveCounts,
                    RecoverEnds, vars
<1> QED
  BY <1>3, <1>4, <1>5, <1>6, <1>7, <1>8, <1>9 DEF Next, Step

-------------------------------------------------------------------------------
(* New labels.                                                             *)

\* A label an insert takes for new stays out of the graph until the insert brings
\* it there: fresh ids are above every label in the graph, and while the insert
\* runs nothing else changes the graph.
LEMMA StepKeepsFreshAbsent ==
  ASSUME IndexInv, [Next]_vars
  PROVE  TakenFreshAbsent'
<1>1. /\ op \in Ops /\ mem \in Graphs /\ BatchIsOps /\ TakenFreshAbsent /\ IdsFit /\ IdInv
      /\ IdTypeOK /\ TakenEnough /\ BatchIsOps /\ IdsBelowNext
  BY DEF IndexInv, IndexTypeOK, IdInv
<1>2. IdInv' /\ TakenEnough' /\ BatchIsOps' /\ IdsFit'
  BY StepKeepsTypes, StepKeepsCourse, StepKeepsIdsFit, StepIsMapperStep DEF IdInv, IndexInv
<1> USE DEF ids, stores, log, graphs, rest
\* When no insert is on its way to the graph there is nothing to show.
<1>3. ASSUME ~(op'.kind = "add" /\ op'.stage \in {"ids", "logIds", "map"} \cup WithIds)
      PROVE  TakenFreshAbsent'
  <2>1. batch' = NoBatch
    BY <1>2, <1>3 DEF BatchIsOps, TakenEnough
  <2> QED
    BY <1>3, <2>1 DEF TakenFreshAbsent, NoBatch
<1>4. ASSUME NEW t \in Threads, NEW objs \in Batches, BeginAdd(t, objs)
      PROVE  TakenFreshAbsent'
  <2>1. batch'.alloc = <<>> /\ batch'.stage = "lookedUp" /\ op'.stage = "ids"
    BY <1>4 DEF BeginAdd, LookUp, Begin, NoOp
  <2> QED
    BY <2>1 DEF TakenFreshAbsent, WithIds
<1>5. CASE AddTakesDeleted
  <2> DEFINE k == IF batch.reuse THEN Smaller(Needed, Len(deletedIds)) ELSE 0
  <2>1. batch.old \in Seq(Nat) /\ deletedIds \in Seq(Nat)
    BY <1>1 DEF IdTypeOK
  <2>2. k \in 0..Len(deletedIds)
    <3>1. Needed \in Nat
      BY <2>1, NewAtFinite DEF Needed
    <3> QED
      BY <2>1, <3>1 DEF Smaller
  <2>3. batch' = [batch EXCEPT !.stage = "taken", !.reused = k,
                               !.alloc = SubSeq(deletedIds, 1, k)]
    BY <1>5 DEF AddTakesDeleted, TakeDeleted
  <2> HIDE DEF k
  <2>4. batch'.reused = k /\ batch'.alloc = SubSeq(deletedIds, 1, k)
    BY <1>1, <2>3 DEF IdTypeOK
  <2>5. Len(batch'.alloc) = k /\ DOMAIN batch'.alloc = 1..k
    BY <2>1, <2>2, <2>4
  <2>6. op' = op /\ op.stage = "ids"
    BY <1>5 DEF AddTakesDeleted, At
  <2> QED
    BY <2>2, <2>4, <2>5, <2>6 DEF TakenFreshAbsent, WithIds
<1>6. CASE AddTakesFresh
  <2> DEFINE s == batch.alloc
             k == Needed - Len(batch.alloc)
             f == [j \in 1..k |-> nextId + j - 1]
  <2>1. /\ batch.stage = "taken" /\ mem' = mem /\ nextId' = nextId + k
        /\ batch' = [batch EXCEPT !.stage = "allocated", !.alloc = @ \o f]
        /\ op' = [op EXCEPT !.stage = "logIds"]
    BY <1>6 DEF AddTakesFresh, TakeFresh, GoTo
  <2>2. s \in Seq(Nat) /\ Len(s) \in Nat /\ nextId \in Nat /\ batch.reused \in Nat
    BY <1>1 DEF IdTypeOK
  <2>3. k \in Nat
    <3>1. Needed \in Nat
      BY <1>1, NewAtFinite DEF Needed, IdTypeOK
    <3> QED
      BY <1>1, <2>1, <2>2, <3>1 DEF TakenEnough
  <2>4. /\ batch'.alloc = s \o f /\ batch'.reused = batch.reused
        /\ batch'.stage = "allocated" /\ op'.stage = "logIds"
    BY <1>1, <2>1 DEF IdTypeOK, Ops
  <2>5. Len(s) <= batch.reused
    BY <1>1, <2>1 DEF TakenFreshAbsent
  <2> HIDE DEF k
  <2>6. f \in Seq(Nat) /\ DOMAIN f = 1..k
    BY <2>2, <2>3
  <2> SUFFICES ASSUME NEW j \in DOMAIN batch'.alloc, j > batch.reused
               PROVE  mem.mark[batch'.alloc[j]] = "absent"
    BY <2>1, <2>4 DEF TakenFreshAbsent, WithIds
  <2>7. j \in Nat /\ j - Len(s) \in 1..k /\ batch'.alloc[j] = f[j - Len(s)]
    <3> HIDE DEF s, f
    <3>0. DOMAIN s = 1..Len(s)
      BY <2>2
    <3>1. /\ DOMAIN (s \o f) = 1..(Len(s) + Len(f))
          /\ \A i \in DOMAIN (s \o f) :
               \/ i \in DOMAIN s /\ (s \o f)[i] = s[i]
               \/ /\ i \notin DOMAIN s /\ i - Len(s) \in DOMAIN f
                  /\ (s \o f)[i] = f[i - Len(s)]
      <4>1. s \in Seq(Nat) /\ f \in Seq(Nat)
        BY <2>2, <2>6
      <4> QED
        BY <4>1, JoinSeq
    <3>2. j \in DOMAIN (s \o f) /\ j \in Nat /\ j \notin DOMAIN s
      BY <2>2, <2>4, <2>5, <2>6, <3>0, <3>1
    <3> QED
      BY <2>4, <2>6, <3>1, <3>2
  <2>8. batch'.alloc[j] = nextId + (j - Len(s)) - 1
    BY <2>7
  <2> HIDE DEF s, f
  <2>9. batch'.alloc[j] \in nextId..(nextId' - 1)
    <3> DEFINE d == j - Len(s)
    <3>1. d \in 1..k /\ batch'.alloc[j] = nextId + d - 1 /\ nextId' = nextId + k
      BY <2>1, <2>7, <2>8
    <3> HIDE DEF d
    <3> QED
      BY <2>2, <2>3, <3>1
  <2>10. batch'.alloc[j] \in Labels
    <3>1. nextId' <= MaxId + 1 /\ nextId >= 1 /\ nextId' \in Nat
      BY <1>1, <1>2, <2>1, <2>2, <2>3 DEF IdsFit, IdInv
    <3> QED
      BY <2>2, <2>9, <3>1, IndexStoreAssumption, IdMapperAssumption
  <2>11. ~(batch'.alloc[j] < nextId)
    BY <2>2, <2>9
  <2>12. \A l \in Labels : mem.mark[l] # "absent" => l < nextId
    BY DEF IndexInv, LabelsBelowNext
  <2> QED
    BY <2>10, <2>11, <2>12
<1>7. CASE AddLogsIds
  <2>1. mem' = mem /\ batch' = batch /\ op'.stage = "map"
    BY <1>1, <1>7 DEF AddLogsIds, GoTo, Ops
  <2> QED
    BY <1>1, <2>1 DEF TakenFreshAbsent, WithIds
<1>8. CASE AddWritesMappings
  <2>1. /\ batch.stage = "allocated" /\ batch' = NoBatch /\ mem' = mem
        /\ op' = [op EXCEPT !.stage = "vectors", !.ids = BatchIds, !.isNew = BatchIsNew]
    BY <1>8 DEF AddWritesMappings, WriteMappings
  <2>2. op'.ids = BatchIds /\ op'.isNew = BatchIsNew
    BY <1>1, <2>1 DEF Ops
  <2>3. \A i \in DOMAIN BatchIds : BatchIsNew[i] => mem.mark[BatchIds[i]] = "absent"
    BY <1>1, <2>1, BatchIdsAreLabels DEF TakenFreshAbsent
  <2> QED
    BY <2>1, <2>2, <2>3 DEF TakenFreshAbsent, NoBatch
<1>9. CASE AddStoresVectors \/ AddStoresMeta \/ AddStoresFilters \/ AddLogsOps
  <2>1. mem' = mem /\ batch' = batch /\ op.kind = "add" /\ op.stage \in WithIds
    BY <1>9 DEF AddStoresVectors, AddStoresMeta, AddStoresFilters, AddLogsOps, At, WithIds
  <2>2. op'.ids = op.ids /\ op'.isNew = op.isNew
    BY <1>1, <1>9 DEF AddStoresVectors, AddStoresMeta, AddStoresFilters, AddLogsOps, GoTo, Ops
  <2> QED
    BY <1>1, <2>1, <2>2 DEF TakenFreshAbsent
<1>10. CASE AddToGraph \/ AddFindsBadVector \/ AddFindsOwnTransaction
  <2>1. op'.stage \in {"saveCheck", "none"}
    BY <1>1, <1>10 DEF AddToGraph, AddFindsBadVector, AddFindsOwnTransaction, GoTo, Fail,
                       Answer, NoOp, Ops
  <2> QED
    BY <1>3, <2>1 DEF WithIds
<1>11. CASE \/ \E n \in Names : DeleteByName(n)
            \/ \E t \in Tags : DeleteByFilter(t)
            \/ \E n \in Names, t \in UpdateTags : BeginRetag(n, t)
  <2>1. op'.kind \in {"delete", "retag"}
    <3>1. CASE \E n \in Names : DeleteByName(n)
      BY <3>1 DEF DeleteByName, BeginDelete, Begin, NoOp
    <3>2. CASE \E t \in Tags : DeleteByFilter(t)
      BY <3>2 DEF DeleteByFilter, BeginDelete, Begin, NoOp
    <3>3. CASE \E n \in Names, t \in UpdateTags : BeginRetag(n, t)
      BY <3>3 DEF BeginRetag, Begin, NoOp
    <3> QED
      BY <1>11, <3>1, <3>2, <3>3
  <2> QED
    BY <1>3, <2>1
<1>12. CASE \/ DeleteFindsNoMeta \/ DeleteUnmaps \/ DeleteMarks \/ DeleteLogs
            \/ RetagRemoves \/ RetagStoresMeta \/ RetagAdds \/ RecoverEntry
  <2>1. op.kind \in {"delete", "retag", "load"}
    BY <1>12 DEF DeleteFindsNoMeta, DeleteUnmaps, DeleteMarks, DeleteLogs, RetagRemoves,
                 RetagStoresMeta, RetagAdds, RecoverEntry, At
  <2>2. op'.kind = op.kind \/ op' = NoOp
    <3>1. CASE DeleteFindsNoMeta \/ RetagAdds
      BY <3>1 DEF DeleteFindsNoMeta, RetagAdds, Fail, Answer
    <3>2. CASE DeleteUnmaps \/ RecoverEntry
      BY <1>1, <3>2 DEF DeleteUnmaps, RecoverEntry, Ops
    <3>3. CASE DeleteMarks
      BY <1>1, <3>3 DEF DeleteMarks, Fail, Answer, Ops
    <3>4. CASE DeleteLogs \/ RetagRemoves \/ RetagStoresMeta
      BY <1>1, <3>4 DEF DeleteLogs, RetagRemoves, RetagStoresMeta, GoTo, Ops
    <3> QED
      BY <1>12, <3>1, <3>2, <3>3, <3>4
  <2> QED
    BY <1>3, <2>1, <2>2 DEF NoOp
<1>13. CASE \/ SaveWhenLong \/ AnswerWhenShort \/ SaveImage \/ SaveClearsWal \/ SaveCounts
            \/ BeginSave \/ RecoverEnds
  <2>1. op'.stage \in {"image", "clear", "count", "none"}
    <3>1. CASE SaveWhenLong \/ SaveImage \/ SaveClearsWal \/ RecoverEnds
      BY <1>1, <3>1 DEF SaveWhenLong, SaveImage, SaveClearsWal, RecoverEnds, GoTo, Ops
    <3>2. CASE AnswerWhenShort \/ SaveCounts
      BY <3>2 DEF AnswerWhenShort, SaveCounts, Answer, NoOp
    <3>3. CASE BeginSave
      BY <3>3 DEF BeginSave, NoOp
    <3> QED
      BY <1>13, <3>1, <3>2, <3>3
  <2> QED
    BY <1>3, <2>1 DEF WithIds
<1>14. CASE Evict \/ Load \/ Crash
  <2>1. op'.kind = "none" \/ op'.kind = "load"
    <3>1. CASE Evict
      BY <3>1 DEF Evict, Idle
    <3>2. CASE Load
      BY <3>2 DEF Load, NoOp, IndexInv, OpShape
    <3>3. CASE Crash
      BY <3>3 DEF Crash, Fail, Answer, NoOp
    <3> QED
      BY <1>14, <3>1, <3>2, <3>3
  <2> QED
    BY <1>3, <2>1
<1>15. CASE UNCHANGED vars
  BY <1>1, <1>15 DEF vars, TakenFreshAbsent
<1> QED
  BY <1>4, <1>5, <1>6, <1>7, <1>8, <1>9, <1>10, <1>11, <1>12, <1>13, <1>14,
     <1>15 DEF Next, Step

-------------------------------------------------------------------------------
(* The theorems.                                                           *)

\* A new index satisfies the invariant.
LEMMA InitIndexInv == Init => IndexInv
<1> SUFFICES ASSUME Init PROVE IndexInv
  OBVIOUS
<1>1. IdInv
  BY InitIdInv DEF Init
<1>2. IdTypeOK /\ batch = NoBatch /\ nextId = 1
  BY <1>1 DEF IdInv, Init, IdInit
<1> USE DEF Init
<1>3. StateTypeOK /\ OpTypeOK
  <2>1. wal \in Seq(WalRecords) /\ crashes \in 0..MaxCrashes
    BY IndexStoreAssumption
  <2> QED
    BY <2>1, EmptyGraphIsGraph, NoOpIsOp DEF StateTypeOK, OpTypeOK, NoMeta
<1>4. IdsFit /\ BatchIsOps /\ TakenFreshAbsent
  BY <1>2, IdMapperAssumption DEF IdsFit, BatchIsOps, TakenFreshAbsent, NoBatch, NoOp
<1>5. OpShape /\ SavedBeforeCleared /\ OpLabelsBelowNext
  BY DEF OpShape, SavedBeforeCleared, OpLabelsBelowNext, NoOp
<1>6. LabelsBelowNext
  BY DEF LabelsBelowNext, EmptyGraph
<1>7. DeletedCounted /\ SavedDeletedCounted
  BY EmptyGraphCounts DEF DeletedCounted, SavedDeletedCounted, Counted
<1> QED
  BY <1>1, <1>2, <1>3, <1>4, <1>5, <1>6, <1>7, IndexTypes DEF IndexInv

\* The invariant is inductive.
LEMMA StepKeepsIndexInv == IndexInv /\ [Next]_vars => IndexInv'
<1> SUFFICES ASSUME IndexInv, [Next]_vars PROVE IndexInv'
  OBVIOUS
<1>1. IdInv' /\ IndexTypeOK'
  BY StepKeepsTypes
<1>2. IdsFit'
  BY StepKeepsIdsFit, StepIsMapperStep DEF IndexInv
<1>3. BatchIsOps' /\ OpShape' /\ SavedBeforeCleared'
  BY StepKeepsCourse
<1>4. LabelsBelowNext' /\ OpLabelsBelowNext'
  BY StepKeepsLabelsBelow
<1>5. DeletedCounted' /\ SavedDeletedCounted'
  BY StepKeepsCounted
<1>6. TakenFreshAbsent'
  BY StepKeepsFreshAbsent
<1> QED
  BY <1>1, <1>2, <1>3, <1>4, <1>5, <1>6 DEF IndexInv

\* The inductive invariant holds in every reachable state of an index.
THEOREM IndexInvariant == Spec => []IndexInv
  BY InitIndexInv, StepKeepsIndexInv, PTL DEF Spec

\* The state of an index keeps its types.
THEOREM IndexTypeCorrect == Spec => []IndexTypeOK
<1>1. IndexInv => IndexTypeOK
  BY DEF IndexInv
<1> QED
  BY <1>1, IndexInvariant, PTL

\* No label in a graph, in the log or in a bitmap is ever handed out as fresh: not
\* after a failed request, nor after any number of crashes.
THEOREM LabelsAlwaysBelowNext == Spec => []LabelsBelowNext
<1>1. IndexInv => LabelsBelowNext
  BY DEF IndexInv
<1> QED
  BY <1>1, IndexInvariant, PTL

\* addPoint is told that a label is new only when the graph lacks it, though the
\* mapping survives crashes that the graph does not.
THEOREM FreshLabelsAlwaysAbsent == Spec => []FreshLabelsAbsent
<1>1. IndexInv => FreshLabelsAbsent
  BY DEF IndexInv, TakenFreshAbsent, FreshLabelsAbsent, At, WithIds
<1> QED
  BY <1>1, IndexInvariant, PTL

\* deletedElementsCount_ never falls below the number of marked labels, so that
\* unmarking them cannot take it below zero.
THEOREM DeletedAlwaysCounted == Spec => []DeletedCounted
<1>1. IndexInv => DeletedCounted
  BY DEF IndexInv
<1> QED
  BY <1>1, IndexInvariant, PTL

\* The log is cleared only when the saved image equals the graph in memory: no
\* step comes between the image and the clearing that changes the graph.
THEOREM LogAlwaysClearedWhenSaved == Spec => LogClearedWhenSaved
<1> DEFINE Clears == wal # <<>> /\ wal' = <<>>
<1>1. IndexInv /\ [Next]_vars => (Clears => disk = mem)
  <2> SUFFICES ASSUME IndexInv, [Next]_vars, Clears PROVE disk = mem
    OBVIOUS
  <2>1. wal \in Seq(WalRecords) /\ SavedBeforeCleared
    BY DEF IndexInv, IndexTypeOK
  <2> USE DEF stores, log, graphs, rest
  <2>2. CASE SaveClearsWal
    BY <2>1, <2>2 DEF SaveClearsWal, SavedBeforeCleared
  <2>3. CASE AddLogsIds \/ AddLogsOps \/ DeleteLogs
    <3>1. PICK more \in Seq(WalRecords) : wal' = wal \o more
      BY <2>3, LogAppends
    <3>2. Len(wal) > 0 /\ Len(wal') = Len(wal) + Len(more) /\ Len(more) \in Nat
      BY <2>1, <3>1
    <3>3. Len(wal') > 0
      BY <2>1, <3>2
    <3> QED
      BY <3>3
  <2>4. CASE UNCHANGED wal
    BY <2>4
  <2>5. SaveClearsWal \/ AddLogsIds \/ AddLogsOps \/ DeleteLogs \/ UNCHANGED wal
    BY DEF Next, Step, vars, BeginAdd, AddTakesDeleted, AddTakesFresh, AddWritesMappings,
           AddStoresVectors, AddFindsBadVector, AddFindsOwnTransaction, AddStoresMeta,
           AddStoresFilters, AddToGraph, DeleteByName, DeleteByFilter, BeginDelete,
           DeleteFindsNoMeta, DeleteUnmaps, DeleteMarks, BeginRetag, RetagRemoves,
           RetagStoresMeta, RetagAdds, BeginSave, SaveWhenLong, AnswerWhenShort, SaveImage,
           SaveCounts, Evict, Load, RecoverEntry, RecoverEnds, Crash
  <2> QED
    BY <2>2, <2>3, <2>4, <2>5
<1>2. IndexInv /\ [Next]_vars => [Clears => disk = mem]_vars
  BY <1>1
<1> QED
  BY <1>2, IndexInvariant, PTL DEF Spec, LogClearedWhenSaved

-------------------------------------------------------------------------------
(*****************************************************************************)
(* Part 3. An index under well-meant requests: what was promised is kept,    *)
(* and the stores agree.                                                     *)
(*****************************************************************************)

\* The types the steps below need.
Typed ==
  /\ op \in Ops /\ mem \in Graphs /\ disk \in Graphs /\ wal \in Seq(WalRecords)
  /\ updated \in BOOLEAN /\ loaded \in BOOLEAN
  /\ idmap \in [Names -> Nat] /\ deletedIds \in Seq(Nat) /\ batch.alloc \in Seq(Nat)
  /\ batch.names \in Seq(Names) /\ batch.old \in Seq(Nat)
  /\ meta \in [Labels -> [name : Names \cup {NoName}, tag : Tags \cup {NoTag}]]
  /\ filt \in [Tags -> SUBSET Labels]
  /\ promise \in [Names -> {"unknown", "present", "absent"}]
  /\ \A m, n \in Names : idmap[m] # NoId /\ idmap[m] = idmap[n] => m = n
  /\ \A n \in Names : idmap[n] # NoId => idmap[n] \in Labels
  /\ OpShape

LEMMA InvTyped == IndexInv => Typed
<1> SUFFICES ASSUME IndexInv PROVE Typed
  OBVIOUS
<1>1. IdInv /\ IndexTypeOK /\ IdsFit /\ IdTypeOK /\ OneOwner /\ IdsBelowNext /\ OpShape
  BY DEF IndexInv, IdInv
<1>2. /\ op \in Ops /\ mem \in Graphs /\ disk \in Graphs /\ wal \in Seq(WalRecords)
      /\ updated \in BOOLEAN /\ loaded \in BOOLEAN
      /\ meta \in [Labels -> [name : Names \cup {NoName}, tag : Tags \cup {NoTag}]]
      /\ filt \in [Tags -> SUBSET Labels]
      /\ promise \in [Names -> {"unknown", "present", "absent"}]
  BY <1>1 DEF IndexTypeOK
<1>3. /\ idmap \in [Names -> Nat] /\ deletedIds \in Seq(Nat) /\ nextId \in Nat
      /\ batch \in [stage : BatchStages, names : Seq(Names), reuse : BOOLEAN,
                    old : Seq(Nat), alloc : Seq(Nat), reused : Nat]
  BY <1>1 DEF IdTypeOK
<1>4. ASSUME NEW n \in Names, idmap[n] # NoId
      PROVE  idmap[n] \in Labels
  <2>1. idmap[n] < nextId /\ nextId <= MaxId + 1 /\ idmap[n] \in Nat
    BY <1>1, <1>3 DEF IdsBelowNext, IdsFit
  <2>2. MaxId \in Nat /\ Labels = 1..MaxId
    BY IndexStoreAssumption, IdMapperAssumption
  <2> QED
    BY <1>4, <1>3, <2>1, <2>2 DEF NoId
<1> QED
  BY <1>1, <1>2, <1>3, <1>4 DEF Typed, OneOwner

-------------------------------------------------------------------------------
(* Steps that change neither the stores nor the graph.                     *)

\* No request has left names, labels or bitmaps in between.
Calm ==
  /\ ~Adding /\ ~At("delete", "mark")
  /\ ~At("retag", "meta") /\ ~At("retag", "tag")

\* What the stores say of each other.
Stored == LiveOwned /\ FreeMarked /\ NamesStored /\ TagsSettled /\ BitsExact

\* The free list may only get shorter.
LEMMA CalmKeepsStored ==
  ASSUME Calm, Calm', Stored, UNCHANGED <<idmap, meta, filt, Image>>,
         \A i \in DOMAIN deletedIds' : \E j \in DOMAIN deletedIds : deletedIds'[i] = deletedIds[j]
  PROVE  Stored'
<1>1. ~Adding /\ ~Unnamed /\ ~At("delete", "mark") /\ ~At("retag", "meta") /\ ~At("retag", "tag")
      /\ ~At("add", "filters") /\ Retagged = {}
  BY DEF Calm, Adding, WithIds, Unnamed, At, Retagged
<1>2. (~Adding /\ ~Unnamed /\ ~At("delete", "mark") /\ ~At("retag", "meta") /\ ~At("retag", "tag")
      /\ ~At("add", "filters") /\ Retagged = {})'
  BY DEF Calm, Adding, WithIds, Unnamed, At, Retagged
<1>3. LiveOwned'
  BY <1>1, <1>2 DEF Stored, LiveOwned, OwnedLabels
<1>4. FreeMarked'
  BY <1>1, <1>2 DEF Stored, FreeMarked
<1>5. NamesStored'
  BY <1>1, <1>2 DEF Stored, NamesStored
<1>6. TagsSettled'
  BY <1>1, <1>2 DEF Stored, TagsSettled
<1>7. BitsExact'
  BY <1>1, <1>2 DEF Stored, BitsExact, OwnedLabels, Calm, Adding, WithIds
<1> QED
  BY <1>3, <1>4, <1>5, <1>6, <1>7 DEF Stored

\* A request under way sees the graph in memory.
LEMMA ImageIsMem ==
  ASSUME Typed, op.kind # "none"
  PROVE  loaded /\ Image = mem
  BY DEF Typed, OpShape, Image

\* What moving to a stage leaves of an operation.
Moved(stage) ==
  /\ op'.stage = stage
  /\ op'.kind = op.kind /\ op'.thread = op.thread /\ op'.names = op.names /\ op'.objs = op.objs
  /\ op'.ids = op.ids /\ op'.isNew = op.isNew /\ op'.pos = op.pos /\ op'.tag = op.tag

LEMMA GoToMoves ==
  ASSUME Typed, NEW stage, GoTo(stage)
  PROVE  Moved(stage) /\ promise' = promise
  BY DEF Typed, GoTo, Ops, Moved

\* No request fails, nothing is recovered, and the process does not die.
LEMMA NothingFails ==
  ASSUME WellMeant, Typed, PlainInv
  PROVE  /\ ~AddFindsBadVector /\ ~AddFindsOwnTransaction /\ ~DeleteFindsNoMeta
         /\ ~RecoverEntry /\ ~RecoverEnds /\ ~Crash
         /\ At("delete", "mark") => CanMark(mem, Deleted)
<1>1. OpMeant /\ DeleteDrops /\ LiveOwned
  BY DEF PlainInv
<1>2. ~AddFindsBadVector
  BY DEF WellMeant, AddFindsBadVector
<1>3. ~AddFindsOwnTransaction
  BY <1>1, IndexStoreAssumption DEF OpMeant, AddFindsOwnTransaction, At
<1>4. ~DeleteFindsNoMeta
  <2> SUFFICES ASSUME DeleteFindsNoMeta PROVE FALSE
    OBVIOUS
  <2>1. op.kind = "delete" /\ op.pos \in Nat \ {0} /\ op.pos <= Len(op.ids) /\ op.ids \in Seq(Labels)
        /\ ~HasMeta(op.ids[op.pos])
    BY DEF DeleteFindsNoMeta, At, MoreToDelete, Deleted, Typed, Ops
  <2>2. op.pos \in DOMAIN op.ids
    BY <2>1
  <2> QED
    BY <1>1, <2>1, <2>2 DEF DeleteDrops
<1>5. ~RecoverEntry /\ ~RecoverEnds
  BY <1>1 DEF OpMeant, RecoverEntry, RecoverEnds, At
<1>6. ~Crash
  BY <1>1 DEF WellMeant, OpMeant, Crash
<1>7. ASSUME At("delete", "mark") PROVE CanMark(mem, Deleted)
  <2>1. Image.mark[Deleted] = "live"
    BY <1>1, <1>7 DEF LiveOwned
  <2>2. Image = mem
    BY <1>7, ImageIsMem DEF At
  <2> QED
    BY <2>1, <2>2 DEF CanMark
<1> QED
  BY <1>2, <1>3, <1>4, <1>5, <1>6, <1>7

\* Saving, evicting and loading change nothing that a reader sees.
LEMMA ImageStays ==
  ASSUME Typed, PlainInv, Evict \/ Load \/ SaveImage \/ UNCHANGED <<mem, disk, loaded>>
  PROVE  Image' = Image
<1>1. SavedUnlessUpdated /\ OpShape
  BY DEF PlainInv, Typed
<1>2. CASE Evict
  BY <1>1, <1>2 DEF Evict, Idle, SavedUnlessUpdated, Image
<1>3. CASE Load
  BY <1>3 DEF Load, Image
<1>4. CASE SaveImage
  <2>1. op.kind # "none"
    BY <1>1, <1>4 DEF SaveImage, OpShape
  <2>2. loaded /\ loaded' = loaded /\ mem' = mem
    BY <1>4, <2>1, ImageIsMem DEF SaveImage
  <2> QED
    BY <2>2 DEF Image
<1>5. CASE UNCHANGED <<mem, disk, loaded>>
  BY <1>5 DEF Image
<1> QED
  BY <1>2, <1>3, <1>4, <1>5

\* The steps before an insert writes its mappings, the beginnings, the saves and the ends.
LEMMA CalmSteps ==
  ASSUME WellMeant, Typed, Typed', PlainInv,
         \/ \E t \in Threads, objs \in Batches : BeginAdd(t, objs)
         \/ AddTakesDeleted \/ AddTakesFresh \/ AddLogsIds
         \/ \E n \in Names : DeleteByName(n)
         \/ \E t \in Tags : DeleteByFilter(t)
         \/ DeleteLogs
         \/ \E n \in Names, t \in UpdateTags : BeginRetag(n, t)
         \/ BeginSave \/ SaveWhenLong \/ AnswerWhenShort \/ SaveImage \/ SaveClearsWal
         \/ SaveCounts \/ Evict \/ Load
  PROVE  Stored'
<1> USE DEF stores, log, graphs, ids, rest
<1>1. Stored /\ OpMeant /\ SavedUnlessUpdated /\ OpShape /\ op \in Ops
  BY DEF PlainInv, Stored, Typed
<1>2. Calm
  BY <1>1 DEF Calm, Adding, WithIds, At, BeginAdd, AddTakesDeleted, AddTakesFresh, AddLogsIds,
     DeleteByName, DeleteByFilter, BeginDelete, DeleteLogs, BeginRetag, Begin, Idle, OpShape,
     BeginSave, SaveWhenLong, AnswerWhenShort, SaveImage, SaveClearsWal, SaveCounts, Evict, Load
<1>3. Calm'
  <2>1. ASSUME NEW t \in Threads, NEW objs \in Batches, BeginAdd(t, objs) PROVE Calm'
    BY <2>1 DEF BeginAdd, Begin, NoOp, Calm, Adding, WithIds, At
  <2>2. CASE AddTakesDeleted
    BY <2>2, <1>2 DEF AddTakesDeleted, Calm, Adding, At
  <2>3. CASE AddTakesFresh \/ AddLogsIds \/ DeleteLogs \/ SaveWhenLong \/ SaveImage \/ SaveClearsWal
    <3>1. op'.stage \in {"logIds", "map", "saveCheck", "image", "clear", "count"}
      BY <2>3, <1>1 DEF AddTakesFresh, AddLogsIds, DeleteLogs, SaveWhenLong, SaveImage,
         SaveClearsWal, GoTo, Ops
    <3> QED
      BY <3>1 DEF Calm, Adding, WithIds, At
  <2>4. ASSUME NEW n \in Names, DeleteByName(n) PROVE Calm'
    BY <2>4 DEF DeleteByName, BeginDelete, Begin, NoOp, Calm, Adding, WithIds, At
  <2>5. ASSUME NEW t \in Tags, DeleteByFilter(t) PROVE Calm'
    <3>1. PICK labels, names : BeginDelete(labels, names)
      BY <2>5 DEF DeleteByFilter
    <3>2. op'.kind = "delete" /\ op'.stage = "unmap"
      BY <3>1 DEF BeginDelete, Begin, NoOp
    <3> QED
      BY <3>2 DEF Calm, Adding, WithIds, At
  <2>6. ASSUME NEW n \in Names, NEW t \in UpdateTags, BeginRetag(n, t) PROVE Calm'
    BY <2>6 DEF BeginRetag, Begin, NoOp, Calm, Adding, WithIds, At
  <2>7. CASE BeginSave \/ AnswerWhenShort \/ SaveCounts
    <3>1. CASE BeginSave
      BY <3>1 DEF BeginSave, NoOp, Calm, Adding, WithIds, At
    <3>2. CASE AnswerWhenShort \/ SaveCounts
      <4>1. op' = NoOp
        BY <3>2 DEF AnswerWhenShort, SaveCounts, Answer
      <4> QED
        BY <4>1 DEF NoOp, Calm, Adding, WithIds, At
    <3> QED
      BY <2>7, <3>1, <3>2
  <2>8. CASE Evict
    BY <2>8, <1>2 DEF Evict, Calm, Adding, At
  <2>9. CASE Load
    BY <2>9, <1>2 DEF Load, NoOp, Calm, Adding, WithIds, At
  <2> QED
    BY <2>1, <2>2, <2>3, <2>4, <2>5, <2>6, <2>7, <2>8, <2>9
<1>4. UNCHANGED <<idmap, meta, filt>>
  BY DEF BeginAdd, LookUp, AddTakesDeleted, TakeDeleted, AddTakesFresh, TakeFresh, AddLogsIds,
     DeleteByName, DeleteByFilter, BeginDelete, DeleteLogs, BeginRetag,
     BeginSave, SaveWhenLong, AnswerWhenShort, SaveImage, SaveClearsWal, SaveCounts, Evict, Load
<1>5. Image' = Image
  <2>1. Evict \/ Load \/ SaveImage \/ UNCHANGED <<mem, disk, loaded>>
    BY DEF BeginAdd, AddTakesDeleted, AddTakesFresh, AddLogsIds,
       DeleteByName, DeleteByFilter, BeginDelete, DeleteLogs, BeginRetag,
       BeginSave, SaveWhenLong, AnswerWhenShort, SaveClearsWal, SaveCounts
  <2> QED
    BY <2>1, ImageStays
<1>6. \A i \in DOMAIN deletedIds' : \E j \in DOMAIN deletedIds : deletedIds'[i] = deletedIds[j]
  <2>1. CASE AddTakesDeleted
    <3> DEFINE k == IF batch.reuse THEN Smaller(Needed, Len(deletedIds)) ELSE 0
    <3>1. deletedIds' = SubSeq(deletedIds, k + 1, Len(deletedIds)) /\ deletedIds \in Seq(Nat)
      BY <2>1 DEF AddTakesDeleted, TakeDeleted, Typed
    <3>2. Needed \in Nat
      BY NewAtFinite DEF Needed, Typed
    <3>3. k \in 0..Len(deletedIds)
      BY <3>1, <3>2 DEF Smaller
    <3> HIDE DEF k
    <3>4. /\ DOMAIN deletedIds' = 1..(Len(deletedIds) - k)
          /\ \A i \in 1..(Len(deletedIds) - k) : deletedIds'[i] = deletedIds[i + k]
      BY <3>1, <3>3, SplitSeq
    <3>5. ASSUME NEW i \in DOMAIN deletedIds'
          PROVE  \E j \in DOMAIN deletedIds : deletedIds'[i] = deletedIds[j]
      <4>1. i + k \in DOMAIN deletedIds /\ deletedIds'[i] = deletedIds[i + k]
        BY <3>1, <3>3, <3>4, <3>5
      <4> QED
        BY <4>1
    <3> QED
      BY <3>5
  <2>2. CASE UNCHANGED deletedIds
    BY <2>2
  <2>3. AddTakesDeleted \/ UNCHANGED deletedIds
    BY DEF BeginAdd, LookUp, AddTakesFresh, TakeFresh, AddLogsIds,
       DeleteByName, DeleteByFilter, BeginDelete, DeleteLogs, BeginRetag,
       BeginSave, SaveWhenLong, AnswerWhenShort, SaveImage, SaveClearsWal, SaveCounts, Evict, Load
  <2> QED
    BY <2>1, <2>2, <2>3
<1> QED
  BY <1>1, <1>2, <1>3, <1>4, <1>5, <1>6, CalmKeepsStored

-------------------------------------------------------------------------------
(* The steps of an insert from the mappings to the graph.                  *)

\* No label is "no id".
LEMMA LabelsAreIds == NoId \notin Labels
  BY IndexStoreAssumption, IdMapperAssumption DEF NoId

\* An insert that has its mappings has one id for each of its objects.
LEMMA AddIds ==
  ASSUME WellMeant, Typed, OpMeant, AddMapped, Adding
  PROVE  /\ op.ids \in Seq(Labels) /\ op.objs \in Seq(Objects) /\ DOMAIN op.ids = DOMAIN op.objs
         /\ \A i \in DOMAIN op.ids :
              /\ op.objs[i].name \in op.names /\ op.objs[i].name \in Names
              /\ op.ids[i] = idmap[op.objs[i].name] /\ op.ids[i] # NoId /\ op.ids[i] \in Labels
         /\ \A i, j \in DOMAIN op.ids : op.ids[i] = op.ids[j] => i = j
         /\ \A n \in op.names : \E i \in DOMAIN op.ids : n = op.objs[i].name
         /\ \A n \in Names : idmap[n] \in BatchLabels => n \in op.names
         /\ BatchLabels \subseteq OwnedLabels
         /\ \A i \in DOMAIN op.ids : LastFor(op.ids[i]) = op.objs[i]
<1>1. /\ op \in Ops /\ op.kind = "add" /\ op.objs \in Batches
      /\ op.names = {op.objs[i].name : i \in DOMAIN op.objs}
      /\ Len(op.ids) = Len(op.objs)
      /\ \A i \in DOMAIN op.objs : op.ids[i] # NoId /\ op.ids[i] = idmap[op.objs[i].name]
  BY DEF Typed, OpMeant, AddMapped, Adding
<1>2. op.ids \in Seq(Labels) /\ op.objs \in Seq(Objects) /\ op.names \subseteq Names
  BY <1>1 DEF Ops
<1>3. DOMAIN op.ids = DOMAIN op.objs
  BY <1>1, <1>2
<1>4. ASSUME NEW i \in DOMAIN op.ids
      PROVE  /\ op.objs[i].name \in op.names /\ op.objs[i].name \in Names
             /\ op.ids[i] = idmap[op.objs[i].name] /\ op.ids[i] # NoId /\ op.ids[i] \in Labels
  <2>1. op.objs[i].name \in op.names
    BY <1>1, <1>3
  <2>2. op.ids[i] \in Labels
    BY <1>2
  <2> QED
    BY <1>1, <1>2, <1>3, <2>1, <2>2
<1>5. ASSUME NEW i \in DOMAIN op.ids, NEW j \in DOMAIN op.ids, op.ids[i] = op.ids[j]
      PROVE  i = j
  <2>1. op.objs[i].name = op.objs[j].name
    BY <1>4, <1>5 DEF Typed
  <2> QED
    BY <1>1, <1>3, <2>1 DEF WellMeant
<1>6. \A n \in op.names : \E i \in DOMAIN op.ids : n = op.objs[i].name
  BY <1>1, <1>3
<1>7. ASSUME NEW n \in Names, idmap[n] \in BatchLabels
      PROVE  n \in op.names
  <2>1. PICK i \in DOMAIN op.ids : idmap[n] = op.ids[i]
    BY <1>7 DEF BatchLabels
  <2>2. n = op.objs[i].name
    BY <1>4, <2>1 DEF Typed
  <2> QED
    BY <1>4, <2>2
<1>8. BatchLabels \subseteq OwnedLabels
  BY <1>4 DEF BatchLabels, OwnedLabels
<1>9. ASSUME NEW i \in DOMAIN op.ids
      PROVE  LastFor(op.ids[i]) = op.objs[i]
  <2>1. {j \in DOMAIN op.ids : op.ids[j] = op.ids[i]} = {i}
    BY <1>5
  <2>2. LastOf({i}) = i
    <3>1. {i} \subseteq 1..Len(op.ids) /\ Len(op.ids) \in Nat /\ {i} # {}
      BY <1>2
    <3>2. LastOf({i}) \in {i}
      BY <3>1, LastOfIsLast
    <3> QED
      BY <3>2
  <2> QED
    BY <2>1, <2>2 DEF LastFor
<1> QED
  BY <1>2, <1>3, <1>4, <1>5, <1>6, <1>7, <1>8, <1>9

\* A batch gives each name without an id an id of its own, and no name loses its id.
LEMMA MappingsWritten ==
  ASSUME WellMeant, IndexInv, PlainInv, AddWritesMappings
  PROVE  /\ \A n \in Names : idmap[n] # NoId \/ n \notin op.names => idmap'[n] = idmap[n]
         /\ op.objs \in Seq(Objects) /\ Len(BatchIds) = Len(op.objs)
         /\ \A i \in DOMAIN op.objs :
              BatchIds[i] # NoId /\ BatchIds[i] = idmap'[op.objs[i].name]
         /\ \A i \in DOMAIN op.objs : ~BatchIsNew[i] => mem.mark[BatchIds[i]] # "absent"
         /\ \A n \in op.names : idmap[n] = NoId => mem.mark[idmap'[n]] # "live"
<1>1. /\ Typed /\ OpMeant /\ LiveOwned /\ TakenMarked /\ LookedUpHolds /\ BatchIsOps
      /\ TakenEnough /\ IdsBelowNext /\ IdTypeOK /\ TakenFreshAbsent
  BY InvTyped DEF PlainInv, IndexInv, IdInv
<1>2. /\ batch.stage = "allocated" /\ op.kind = "add" /\ op.stage = "map"
      /\ idmap' = [n \in Names |-> IF NewPositionsOf(n) = {} THEN idmap[n]
                                   ELSE IdAt(LastOf(NewPositionsOf(n)))]
  BY DEF AddWritesMappings, WriteMappings, At
<1>3. /\ batch.names = NamesIn(op.objs) /\ op.objs \in Batches /\ op.objs \in Seq(Objects)
      /\ op.names = {op.objs[i].name : i \in DOMAIN op.objs}
      /\ batch.old \in Seq(Nat) /\ batch.alloc \in Seq(Nat) /\ Len(batch.alloc) = Needed
      /\ idmap \in [Names -> Nat] /\ batch.reused \in Nat
  BY <1>1, <1>2 DEF BatchIsOps, OpMeant, Typed, Ops, TakenEnough, IdTypeOK
<1>4. /\ DOMAIN batch.old = DOMAIN op.objs /\ DOMAIN batch.names = DOMAIN op.objs
      /\ \A i \in DOMAIN op.objs :
           /\ batch.names[i] = op.objs[i].name /\ op.objs[i].name \in Names
           /\ op.objs[i].name \in op.names
           /\ batch.old[i] = idmap[op.objs[i].name]
  <2>1. DOMAIN batch.names = DOMAIN op.objs /\ \A i \in DOMAIN op.objs : batch.names[i] = op.objs[i].name
    BY <1>3 DEF NamesIn
  <2>2. ASSUME NEW i \in DOMAIN op.objs PROVE op.objs[i].name \in Names
    <3>1. op.objs[i] \in Objects
      BY <1>3
    <3> QED
      BY <3>1 DEF Objects
  <2> QED
    BY <1>1, <1>3, <2>1, <2>2 DEF LookedUpHolds
<1>5. ASSUME NEW n \in Names, idmap[n] # NoId \/ n \notin op.names
      PROVE  idmap'[n] = idmap[n]
  <2>1. NewPositionsOf(n) = {}
    BY <1>4, <1>5 DEF NewPositionsOf, NewAt
  <2> QED
    BY <1>2, <2>1
<1>6. DOMAIN BatchIds = DOMAIN op.objs /\ DOMAIN BatchIsNew = DOMAIN op.objs
      /\ \A i \in DOMAIN op.objs : BatchIds[i] = IdAt(i) /\ BatchIsNew[i] = IsNewAt(i)
  BY <1>4 DEF BatchIds, BatchIsNew
<1>7. Len(BatchIds) = Len(op.objs)
  BY <1>1, <1>2, BatchIdsAreLabels
<1>8. ASSUME NEW i \in DOMAIN op.objs
      PROVE  /\ BatchIds[i] # NoId /\ BatchIds[i] = idmap'[op.objs[i].name]
             /\ ~BatchIsNew[i] => mem.mark[BatchIds[i]] # "absent"
             /\ batch.old[i] = NoId => mem.mark[BatchIds[i]] # "live"
  <2> DEFINE n == op.objs[i].name
  <2>0. n \in Names /\ batch.old[i] = idmap[n] /\ op.kind # "none" /\ ~Adding
    BY <1>2, <1>4 DEF Adding, WithIds
  <2>1. CASE batch.old[i] # NoId
    <3>1. BatchIds[i] = idmap[n] /\ idmap'[n] = idmap[n]
      BY <1>5, <1>6, <2>0, <2>1 DEF IdAt
    <3>2. mem.mark[idmap[n]] = "live"
      BY <1>1, <2>0, <2>1, ImageIsMem DEF LiveOwned
    <3> QED
      BY <2>0, <2>1, <3>1, <3>2
  <2>2. CASE batch.old[i] = NoId
    <3>1. i \in NewAt(batch.old)
      BY <1>4, <2>2 DEF NewAt
    <3>2. NewPositionsOf(n) = {i}
      <4>1. \A j \in NewAt(batch.old) : j \in DOMAIN op.objs /\ batch.names[j] = op.objs[j].name
        BY <1>4 DEF NewAt
      <4>2. \A j \in DOMAIN op.objs : op.objs[j].name = n => j = i
        BY <1>3 DEF WellMeant
      <4> QED
        BY <3>1, <4>1, <4>2 DEF NewPositionsOf
    <3>3. LastOf({i}) = i
      <4>1. {i} \subseteq 1..Len(op.objs) /\ Len(op.objs) \in Nat /\ {i} # {}
        BY <1>3
      <4>2. LastOf({i}) \in {i}
        BY <4>1, LastOfIsLast
      <4> QED
        BY <4>2
    <3>4. idmap'[n] = IdAt(i) /\ BatchIds[i] = IdAt(i)
      BY <1>2, <1>6, <2>0, <3>2, <3>3
    <3>5. Rank(batch.old, i) \in 1..Needed
      BY <1>3, <3>1, RankInRange DEF Needed
    <3>6. Rank(batch.old, i) \in DOMAIN batch.alloc /\ IdAt(i) = batch.alloc[Rank(batch.old, i)]
      BY <1>3, <2>2, <3>5 DEF IdAt
    <3>7. IdAt(i) # NoId
      BY <1>1, <3>6 DEF IdsBelowNext, NoId
    <3>8. ASSUME ~BatchIsNew[i] PROVE mem.mark[BatchIds[i]] # "absent"
      <4>1. Rank(batch.old, i) <= batch.reused
        <5>1. ~(Rank(batch.old, i) > batch.reused)
          BY <1>6, <2>2, <3>8 DEF IsNewAt
        <5>2. Rank(batch.old, i) \in Nat /\ batch.reused \in Nat
          BY <1>3, <3>6
        <5> QED
          BY <5>1, <5>2
      <4>2. mem.mark[batch.alloc[Rank(batch.old, i)]] = "deleted"
        BY <1>1, <3>6, <4>1 DEF TakenMarked
      <4> QED
        BY <3>4, <3>6, <4>2
    <3>9. mem.mark[batch.alloc[Rank(batch.old, i)]] # "live"
      <4>1. Rank(batch.old, i) <= batch.reused \/ Rank(batch.old, i) > batch.reused
        BY <1>3, <3>5
      <4> QED
        BY <1>1, <3>6, <4>1 DEF TakenMarked, TakenFreshAbsent
    <3> QED
      BY <3>4, <3>6, <3>7, <3>8, <3>9
  <2> QED
    BY <2>1, <2>2
<1>9. ASSUME NEW n \in op.names, idmap[n] = NoId
      PROVE  mem.mark[idmap'[n]] # "live"
  <2>1. PICK i \in DOMAIN op.objs : n = op.objs[i].name
    BY <1>3
  <2> QED
    BY <1>4, <1>8, <1>9, <2>1
<1> QED
  BY <1>3, <1>5, <1>7, <1>8, <1>9

\* The mappings are written: the stores agree but for the labels of the batch.
LEMMA MappingsKeepStored ==
  ASSUME WellMeant, IndexInv, PlainInv, AddWritesMappings, Typed'
  PROVE  Stored' /\ AddMapped' /\ TakenMarked'
<1>1. /\ Typed /\ OpMeant /\ LiveOwned /\ FreeMarked /\ NamesStored /\ TagsSettled /\ BitsExact
  BY InvTyped DEF PlainInv
<1>2. /\ op.kind = "add" /\ op.stage = "map" /\ batch' = NoBatch
      /\ op' = [op EXCEPT !.stage = "vectors", !.ids = BatchIds, !.isNew = BatchIsNew]
      /\ UNCHANGED <<deletedIds, meta, filt, mem, disk, loaded>>
  BY DEF AddWritesMappings, WriteMappings, At, stores, graphs
<1>3. /\ op'.kind = "add" /\ op'.stage = "vectors" /\ op'.ids = BatchIds /\ op'.isNew = BatchIsNew
      /\ op'.names = op.names /\ op'.objs = op.objs
  BY <1>1, <1>2 DEF Typed, Ops
<1>4. /\ \A n \in Names : idmap[n] # NoId \/ n \notin op.names => idmap'[n] = idmap[n]
      /\ op.objs \in Seq(Objects) /\ Len(BatchIds) = Len(op.objs)
      /\ \A i \in DOMAIN op.objs : BatchIds[i] # NoId /\ BatchIds[i] = idmap'[op.objs[i].name]
      /\ \A i \in DOMAIN op.objs : ~BatchIsNew[i] => mem.mark[BatchIds[i]] # "absent"
  BY MappingsWritten
<1>5. Image = mem /\ Image' = Image /\ ~Adding /\ ~Unnamed /\ Retagged = {}
      /\ ~At("delete", "mark")
  BY <1>1, <1>2, ImageIsMem DEF Image, Adding, WithIds, Unnamed, Retagged, At
<1>6. /\ Adding' /\ Unnamed' /\ ~At("delete", "mark")' /\ ~At("retag", "tag")' /\ ~At("retag", "meta")'
      /\ ~At("add", "filters")' /\ Retagged' = BatchLabels'
      /\ BatchLabels' = {BatchIds[i] : i \in DOMAIN BatchIds}
  BY <1>3 DEF Adding, WithIds, Unnamed, Retagged, At, BatchLabels
<1>7. BatchIds \in Seq(Labels) /\ DOMAIN BatchIds = DOMAIN op.objs
  BY <1>3, <1>4 DEF Typed, Ops
<1>8. /\ op.objs \in Batches /\ op.names = {op.objs[i].name : i \in DOMAIN op.objs}
      /\ \A i \in DOMAIN op.objs : op.objs[i].name \in Names /\ op.objs[i].name \in op.names
  <2>1. op.objs \in Batches /\ op.names = {op.objs[i].name : i \in DOMAIN op.objs}
    BY <1>1, <1>2 DEF OpMeant
  <2>2. \A i \in DOMAIN op.objs : op.objs[i] \in Objects
    BY <1>4
  <2> QED
    BY <2>1, <2>2 DEF Objects
<1>9. OwnedLabels' = OwnedLabels \cup BatchLabels'
  <2>1. \A n \in Names : idmap[n] # NoId => idmap'[n] = idmap[n]
    BY <1>4
  <2>2. \A n \in op.names : idmap'[n] \in BatchLabels'
    BY <1>4, <1>6, <1>7, <1>8
  <2>3. \A n \in Names : n \notin op.names => idmap'[n] = idmap[n]
    BY <1>4
  <2>4. \A l \in BatchLabels' : l # NoId /\ \E n \in Names : l = idmap'[n]
    BY <1>4, <1>6, <1>7, <1>8
  <2>5. OwnedLabels' = {idmap'[n] : n \in Names} \ {NoId}
    BY DEF OwnedLabels
  <2> QED
    BY <2>1, <2>2, <2>3, <2>4, <2>5 DEF OwnedLabels
<1>10. LiveOwned'
  <2>1. \A n \in Names : idmap'[n] # NoId /\ n \notin op.names => Image.mark[idmap'[n]] = "live"
    BY <1>1, <1>4, <1>5 DEF LiveOwned
  <2>2. \A l \in Labels : Image.mark[l] = "live" => l \in OwnedLabels'
    BY <1>1, <1>5, <1>9 DEF LiveOwned
  <2> QED
    BY <1>3, <1>5, <1>6, <2>1, <2>2 DEF LiveOwned
<1>11. FreeMarked'
  BY <1>1, <1>2, <1>5, <1>6 DEF FreeMarked
<1>12. NamesStored'
  BY <1>1, <1>2, <1>3, <1>4, <1>5, <1>6 DEF NamesStored
<1>13. TagsSettled'
  <2>1. ASSUME NEW objs \in Batches, NEW i \in DOMAIN objs,
               idmap'[objs[i].name] # NoId, objs[i].name \notin op.names
        PROVE  meta[idmap'[objs[i].name]].tag \in {objs[i].tag, NoTag}
    <3>1. objs \in Seq(Objects)
      BY IndexStoreAssumption
    <3>2. objs[i] \in Objects
      BY <3>1
    <3>3. objs[i].name \in Names
      BY <3>2 DEF Objects
    <3>4. idmap'[objs[i].name] = idmap[objs[i].name]
      BY <1>4, <2>1, <3>3
    <3> QED
      BY <1>1, <1>5, <2>1, <3>4 DEF TagsSettled
  <2> QED
    BY <1>2, <1>3, <1>6, <2>1 DEF TagsSettled
<1>14. BitsExact'
  <2>1. \A t \in Tags, l \in Labels : l \notin BatchLabels' =>
          (l \in filt[t] <=> l \in OwnedLabels' /\ meta[l].tag = t)
    BY <1>1, <1>5, <1>9 DEF BitsExact
  <2>2. ASSUME NEW i \in DOMAIN BatchIds, NEW t \in Tags, BatchIds[i] \in filt[t]
        PROVE  t = op.objs[i].tag
    <3>1. BatchIds[i] \in Labels
      BY <1>7
    <3>2. BatchIds[i] \in OwnedLabels /\ meta[BatchIds[i]].tag = t
      BY <1>1, <1>5, <2>2, <3>1 DEF BitsExact
    <3>3. PICK n \in Names : idmap[n] = BatchIds[i] /\ idmap[n] # NoId
      BY <3>2 DEF OwnedLabels
    <3>4. idmap'[n] = BatchIds[i] /\ idmap'[op.objs[i].name] = BatchIds[i] /\ BatchIds[i] # NoId
      BY <1>4, <1>7, <3>3
    <3>5. n = op.objs[i].name
      BY <1>7, <1>8, <3>4 DEF Typed
    <3>6. meta[BatchIds[i]].tag \in {op.objs[i].tag, NoTag}
      BY <1>1, <1>5, <1>7, <1>8, <3>3, <3>5 DEF TagsSettled
    <3> QED
      BY <3>2, <3>6, IndexStoreAssumption
  <2> QED
    BY <1>2, <1>3, <1>6, <2>1, <2>2 DEF BitsExact
<1>15. AddMapped'
  BY <1>3, <1>4 DEF AddMapped
<1>16. TakenMarked'
  BY <1>2, <1>3, <1>4, <1>7 DEF TakenMarked, NoBatch
<1> QED
  BY <1>10, <1>11, <1>12, <1>13, <1>14, <1>15, <1>16 DEF Stored

\* The transaction of the vectors, and the log, touch neither names nor labels.
LEMMA QuietKeepsStored ==
  ASSUME Typed, PlainInv, AddStoresVectors \/ AddLogsOps
  PROVE  Stored'
<1>1. /\ Typed /\ OpMeant /\ LiveOwned /\ FreeMarked /\ NamesStored /\ TagsSettled /\ BitsExact
  BY DEF PlainInv
<1>2. /\ UNCHANGED <<idmap, deletedIds, meta, filt, mem, disk, loaded>>
      /\ op.kind = "add" /\ op'.kind = "add" /\ op'.names = op.names /\ op'.objs = op.objs
      /\ op'.ids = op.ids
      /\ \/ op.stage = "vectors" /\ op'.stage = "meta"
         \/ op.stage = "logOps" /\ op'.stage = "graph"
  BY <1>1, GoToMoves DEF AddStoresVectors, AddLogsOps, ids, stores, graphs, At, Moved
<1>3. /\ Adding /\ ~At("delete", "mark") /\ ~At("retag", "tag") /\ ~At("retag", "meta")
      /\ ~At("add", "filters")
  BY <1>2 DEF Adding, WithIds, At
<1>4. /\ Adding' /\ ~At("delete", "mark")' /\ ~At("retag", "tag")' /\ ~At("retag", "meta")'
      /\ ~At("add", "filters")'
  BY <1>2 DEF Adding, WithIds, At
<1>5. Unnamed' = Unnamed /\ Retagged' = Retagged /\ Image' = Image /\ OwnedLabels' = OwnedLabels
  BY <1>2, <1>3, <1>4 DEF Unnamed, Retagged, BatchLabels, Image, OwnedLabels
<1>6. LiveOwned' /\ FreeMarked'
  BY <1>1, <1>2, <1>3, <1>4, <1>5 DEF LiveOwned, FreeMarked
<1>7. NamesStored' /\ TagsSettled'
  BY <1>1, <1>2, <1>3, <1>4, <1>5 DEF NamesStored, TagsSettled
<1>8. BitsExact'
  BY <1>1, <1>2, <1>3, <1>4, <1>5 DEF BitsExact
<1> QED
  BY <1>6, <1>7, <1>8 DEF Stored

\* The metadata of the batch is stored under its labels.
LEMMA MetaKeepsStored ==
  ASSUME WellMeant, Typed, PlainInv, AddStoresMeta
  PROVE  Stored'
<1>1. /\ OpMeant /\ LiveOwned /\ FreeMarked /\ NamesStored /\ TagsSettled /\ BitsExact /\ AddMapped
  BY DEF PlainInv
<1>2. /\ UNCHANGED <<idmap, deletedIds, filt, mem, disk, loaded>>
      /\ op.kind = "add" /\ op'.kind = "add" /\ op'.names = op.names /\ op'.objs = op.objs
      /\ op'.ids = op.ids /\ op.stage = "meta" /\ op'.stage = "filters"
      /\ meta' = [l \in Labels |-> IF l \in BatchLabels
                    THEN [name |-> LastFor(l).name, tag |-> LastFor(l).tag] ELSE meta[l]]
  BY GoToMoves DEF AddStoresMeta, ids, graphs, At, Moved
<1>3. /\ Adding /\ Unnamed /\ ~At("delete", "mark") /\ ~At("retag", "tag") /\ ~At("retag", "meta")
      /\ ~At("add", "filters") /\ Retagged = BatchLabels
  BY <1>2 DEF Adding, WithIds, At, Unnamed, Retagged
<1>4. /\ Adding' /\ ~Unnamed' /\ ~At("delete", "mark")' /\ ~At("retag", "tag")'
      /\ ~At("retag", "meta")' /\ At("add", "filters")' /\ Retagged' = BatchLabels
      /\ Image' = Image /\ OwnedLabels' = OwnedLabels
  BY <1>2 DEF Adding, WithIds, At, Unnamed, Retagged, BatchLabels, Image, OwnedLabels
<1>5. /\ \A i \in DOMAIN op.ids :
           /\ op.ids[i] \in Labels /\ op.ids[i] \in BatchLabels
           /\ op.ids[i] = idmap[op.objs[i].name] /\ LastFor(op.ids[i]) = op.objs[i]
      /\ \A n \in op.names : \E i \in DOMAIN op.ids : n = op.objs[i].name
      /\ \A n \in Names : idmap[n] \in BatchLabels => n \in op.names
  BY <1>1, <1>3, AddIds DEF BatchLabels
<1>6. /\ \A i \in DOMAIN op.ids : /\ meta'[op.ids[i]].name = op.objs[i].name
                                  /\ meta'[op.ids[i]].tag = op.objs[i].tag
      /\ \A l \in Labels : l \notin BatchLabels => meta'[l] = meta[l]
  BY <1>2, <1>5
<1>7. LiveOwned' /\ FreeMarked'
  BY <1>1, <1>2, <1>3, <1>4 DEF LiveOwned, FreeMarked
<1>8. NamesStored'
  <2>1. ASSUME NEW n \in Names, idmap[n] # NoId
        PROVE  meta'[idmap[n]].name = n
    <3>1. CASE n \in op.names
      BY <1>5, <1>6, <3>1
    <3>2. CASE n \notin op.names
      <4>1. idmap[n] \in Labels /\ idmap[n] \notin BatchLabels
        BY <1>5, <2>1, <3>2 DEF Typed
      <4> QED
        BY <1>1, <1>6, <2>1, <3>2, <4>1 DEF NamesStored
    <3> QED
      BY <3>1, <3>2
  <2> QED
    BY <1>2, <2>1 DEF NamesStored
<1>9. TagsSettled'
  <2>1. ASSUME NEW objs \in Batches, NEW i \in DOMAIN objs, idmap[objs[i].name] # NoId
        PROVE  meta'[idmap[objs[i].name]].tag \in {objs[i].tag, NoTag}
    <3> DEFINE n == objs[i].name
    <3>1. n \in Names
      <4>1. objs[i] \in Objects
        BY IndexStoreAssumption
      <4> QED
        BY <4>1 DEF Objects
    <3>2. CASE n \in op.names
      <4>1. PICK j \in DOMAIN op.ids : n = op.objs[j].name
        BY <1>5, <3>2
      <4>2. op.objs \in Batches /\ j \in DOMAIN op.objs
        BY <1>1, <1>2, <1>3, <4>1, AddIds DEF OpMeant
      <4>3. op.objs[j].tag = objs[i].tag
        BY <4>1, <4>2 DEF WellMeant
      <4> QED
        BY <1>5, <1>6, <4>1, <4>3
    <3>3. CASE n \notin op.names
      <4>1. idmap[n] \in Labels /\ idmap[n] \notin BatchLabels
        BY <1>5, <2>1, <3>1, <3>3 DEF Typed
      <4> QED
        BY <1>1, <1>6, <2>1, <3>3, <4>1 DEF TagsSettled
    <3> QED
      BY <3>2, <3>3
  <2>2. \A i \in DOMAIN op.ids : meta'[op.ids[i]].tag = op.objs[i].tag
    BY <1>6
  <2> QED
    BY <1>2, <1>4, <2>1, <2>2 DEF TagsSettled
<1>10. BitsExact'
  <2>1. \A t \in Tags, l \in Labels : l \notin BatchLabels =>
          (l \in filt[t] <=> l \in OwnedLabels /\ meta'[l].tag = t)
    BY <1>1, <1>3, <1>6 DEF BitsExact
  <2>2. \A i \in DOMAIN op.ids, t \in Tags : op.ids[i] \in filt[t] => t = op.objs[i].tag
    BY <1>1, <1>2 DEF BitsExact
  <2> QED
    BY <1>2, <1>4, <2>1, <2>2 DEF BitsExact
<1> QED
  BY <1>7, <1>8, <1>9, <1>10 DEF Stored

\* The batch enters the bitmaps of its tags, and no other has it.
LEMMA FiltersKeepStored ==
  ASSUME WellMeant, Typed, PlainInv, AddStoresFilters
  PROVE  Stored'
<1>1. /\ OpMeant /\ LiveOwned /\ FreeMarked /\ NamesStored /\ TagsSettled /\ BitsExact /\ AddMapped
  BY DEF PlainInv
<1>2. /\ UNCHANGED <<idmap, deletedIds, meta, mem, disk, loaded>>
      /\ op.kind = "add" /\ op'.kind = "add" /\ op'.names = op.names /\ op'.objs = op.objs
      /\ op'.ids = op.ids /\ op.stage = "filters" /\ op'.stage = "logOps"
      /\ filt' = [t \in Tags |->
           filt[t] \cup {op.ids[i] : i \in {j \in DOMAIN op.ids : op.objs[j].tag = t}}]
  BY GoToMoves DEF AddStoresFilters, ids, graphs, At, Moved
<1>3. /\ Adding /\ ~Unnamed /\ ~At("delete", "mark") /\ ~At("retag", "tag") /\ ~At("retag", "meta")
      /\ At("add", "filters") /\ Retagged = BatchLabels
  BY <1>2 DEF Adding, WithIds, At, Unnamed, Retagged
<1>4. /\ Adding' /\ ~Unnamed' /\ ~At("delete", "mark")' /\ ~At("retag", "tag")'
      /\ ~At("retag", "meta")' /\ ~At("add", "filters")' /\ Retagged' = {}
      /\ Image' = Image /\ OwnedLabels' = OwnedLabels
  BY <1>2 DEF Adding, WithIds, At, Unnamed, Retagged, BatchLabels, Image, OwnedLabels
<1>5. LiveOwned' /\ FreeMarked'
  BY <1>1, <1>2, <1>3, <1>4 DEF LiveOwned, FreeMarked
<1>6. NamesStored' /\ TagsSettled'
  BY <1>1, <1>2, <1>3, <1>4 DEF NamesStored, TagsSettled
<1>7. BitsExact'
  <2>1. ASSUME NEW t \in Tags, NEW l \in Labels
        PROVE  l \in filt'[t] <=> l \in OwnedLabels /\ meta[l].tag = t
    <3>1. l \in filt'[t] <=>
            l \in filt[t] \/ \E j \in DOMAIN op.ids : op.objs[j].tag = t /\ l = op.ids[j]
      BY <1>2
    <3>2. CASE l \notin BatchLabels
      BY <1>1, <1>3, <3>1, <3>2 DEF BitsExact, BatchLabels
    <3>3. CASE l \in BatchLabels
      <4>1. PICK i \in DOMAIN op.ids : l = op.ids[i]
        BY <3>3 DEF BatchLabels
      <4>2. l \in OwnedLabels /\ meta[l].tag = op.objs[i].tag
        BY <1>1, <1>3, <3>3, <4>1, AddIds DEF TagsSettled
      <4>3. \A j \in DOMAIN op.ids : l = op.ids[j] => j = i
        BY <1>1, <1>3, <4>1, AddIds
      <4>4. l \in filt[t] => t = op.objs[i].tag
        BY <1>1, <1>2, <4>1 DEF BitsExact
      <4> QED
        BY <3>1, <4>1, <4>2, <4>3, <4>4
    <3> QED
      BY <3>2, <3>3
  <2> QED
    BY <1>2, <1>4, <2>1 DEF BitsExact
<1> QED
  BY <1>5, <1>6, <1>7 DEF Stored

\* The count of deleted elements is exact.
CountsDeleted(g) == g.del = Cardinality(LabelsMarked(g, "deleted"))

\* addPoint counts down by the labels whose mark it clears, when those it is told are new are.
LEMMA AddPointsCountsExactly ==
  ASSUME NEW g \in Graphs, NEW new \in SUBSET Labels, NEW upd \in SUBSET Labels, NEW v,
         CountsDeleted(g), \A l \in new : g.mark[l] = "absent"
  PROVE  CountsDeleted(AddPoints(g, new, upd, v))
<1> DEFINE h == AddPoints(g, new, upd, v)
           D == LabelsMarked(g, "deleted")
           E == LabelsMarked(h, "deleted")
           back == {l \in {k \in upd : g.mark[k] # "absent"} : g.mark[l] = "deleted"}
<1>1. h.del = g.del - Cardinality(back)
  BY DEF AddPoints
<1>2. back \subseteq D /\ E = D \ back /\ D \subseteq Labels
  BY DEF AddPoints, LabelsMarked
<1>3. D \cap back = back
  BY <1>2
<1>4. g.del = Cardinality(D)
  BY DEF CountsDeleted
<1> HIDE DEF h, D, E, back
<1>5. IsFiniteSet(D)
  BY <1>2, LabelsFinite
<1>6. Cardinality(D \ back) = Cardinality(D) - Cardinality(back)
  BY <1>3, <1>5, FS_Difference
<1>7. h.del = Cardinality(E)
  BY <1>1, <1>2, <1>4, <1>6
<1> QED
  BY <1>7 DEF CountsDeleted, h, E

\* markDelete counts the live label it marks.
LEMMA MarkDeleteCountsExactly ==
  ASSUME NEW g \in Graphs, NEW l \in Labels, CountsDeleted(g), g.mark[l] = "live"
  PROVE  CountsDeleted(MarkDelete(g, l))
<1> DEFINE h == MarkDelete(g, l)
           D == LabelsMarked(g, "deleted")
           E == LabelsMarked(h, "deleted")
<1>1. h.del = g.del + 1 /\ g.del = Cardinality(D)
  BY DEF MarkDelete, CountsDeleted
<1>2. E = D \cup {l} /\ l \notin D /\ D \subseteq Labels
  BY DEF MarkDelete, LabelsMarked, Graphs
<1> HIDE DEF h, D, E
<1>3. IsFiniteSet(D)
  BY <1>2, LabelsFinite
<1>4. Cardinality(D \cup {l}) = Cardinality(D) + 1
  BY <1>2, <1>3, FS_AddElement
<1>5. h.del = Cardinality(E)
  BY <1>1, <1>2, <1>4
<1> QED
  BY <1>5 DEF CountsDeleted, h, E

\* The graph after the batch: its labels live, the others as they were.
LEMMA BatchLinked ==
  ASSUME WellMeant, IndexInv, Typed, PlainInv, AddToGraph
  PROVE  /\ \A l \in Labels : mem'.mark[l] = IF l \in BatchLabels THEN "live" ELSE mem.mark[l]
         /\ CountsDeleted(mem')
<1>1. /\ OpMeant /\ TakenMarked /\ DelExact /\ AddMapped /\ TakenFreshAbsent
  BY DEF PlainInv, IndexInv
<1> DEFINE new == {op.ids[i] : i \in {j \in DOMAIN op.ids : op.isNew[j]}}
<1>2. PICK last \in [BatchLabels -> DOMAIN op.ids] :
         mem' = AddPoints(mem, new, BatchLabels \ new, [l \in BatchLabels |-> op.objs[last[l]].vec])
  BY DEF AddToGraph
<1>3. Adding /\ op.kind = "add" /\ op.stage \in WithIds /\ mem \in Graphs
  BY DEF AddToGraph, Adding, WithIds, At, Typed
<1>4. new \subseteq BatchLabels /\ BatchLabels \subseteq Labels
  BY <1>1, <1>3, AddIds DEF BatchLabels
<1>5. \A l \in new : mem.mark[l] = "absent"
  BY <1>1, <1>3 DEF TakenFreshAbsent
<1>6. \A l \in BatchLabels \ new : mem.mark[l] # "absent"
  BY <1>1, <1>3 DEF TakenMarked, BatchLabels
<1> DEFINE v == [l \in BatchLabels |-> op.objs[last[l]].vec]
<1> HIDE DEF new, v
<1>7. mem' = AddPoints(mem, new, BatchLabels \ new, v)
  BY <1>2 DEF v
<1>8. ASSUME NEW l \in Labels
      PROVE  mem'.mark[l] = IF l \in BatchLabels THEN "live" ELSE mem.mark[l]
  BY <1>4, <1>6, <1>7 DEF AddPoints
<1>9. CountsDeleted(mem)
  BY <1>1 DEF DelExact, CountsDeleted
<1>10. CountsDeleted(mem')
  <2>1. new \in SUBSET Labels /\ BatchLabels \ new \in SUBSET Labels
    BY <1>4
  <2>2. CountsDeleted(AddPoints(mem, new, BatchLabels \ new, v))
    BY <1>3, <1>5, <1>9, <2>1, AddPointsCountsExactly
  <2> QED
    BY <1>7, <2>2
<1> QED
  BY <1>8, <1>10

\* The batch is in the graph.
LEMMA GraphKeepsStored ==
  ASSUME WellMeant, IndexInv, Typed, PlainInv, AddToGraph
  PROVE  Stored'
<1>1. /\ OpMeant /\ LiveOwned /\ FreeMarked /\ NamesStored /\ TagsSettled /\ BitsExact /\ AddMapped
      /\ \A i \in DOMAIN deletedIds : \A n \in Names : deletedIds[i] # idmap[n]
      /\ \A i \in DOMAIN deletedIds : deletedIds[i] \in Labels
  <2>1. /\ OpMeant /\ LiveOwned /\ FreeMarked /\ NamesStored /\ TagsSettled /\ BitsExact /\ AddMapped
    BY DEF PlainInv
  <2>2. IdsBelowNext /\ IdsFit /\ FreeIdsUnowned /\ nextId \in Nat /\ MaxId \in Nat
    BY IdMapperAssumption DEF IndexInv, IdInv, IdTypeOK
  <2>3. ASSUME NEW i \in DOMAIN deletedIds PROVE deletedIds[i] \in Labels
    <3>1. deletedIds[i] \in 1..(nextId - 1) /\ nextId <= MaxId + 1
      BY <2>2 DEF IdsBelowNext, IdsFit
    <3> QED
      BY <2>2, <3>1, IndexStoreAssumption
  <2> QED
    BY <2>1, <2>2, <2>3 DEF FreeIdsUnowned
<1>2. /\ UNCHANGED <<idmap, deletedIds, meta, filt, disk, loaded>>
      /\ op.kind = "add" /\ op'.kind = "add" /\ op'.names = op.names /\ op'.objs = op.objs
      /\ op'.ids = op.ids /\ op.stage = "graph" /\ op'.stage = "saveCheck"
  BY GoToMoves DEF AddToGraph, ids, stores, At, Moved
<1>3. /\ Adding /\ ~Unnamed /\ ~At("delete", "mark") /\ ~At("retag", "tag") /\ ~At("retag", "meta")
      /\ ~At("add", "filters") /\ Retagged = {} /\ Image = mem
  BY <1>2, ImageIsMem DEF Adding, WithIds, At, Unnamed, Retagged
<1>4. /\ ~Adding' /\ ~Unnamed' /\ ~At("delete", "mark")' /\ ~At("retag", "tag")'
      /\ ~At("retag", "meta")' /\ ~At("add", "filters")' /\ Retagged' = {}
      /\ OwnedLabels' = OwnedLabels
  BY <1>2 DEF Adding, WithIds, At, Unnamed, Retagged, OwnedLabels
<1>5. Image' = mem'
  BY <1>2, ImageIsMem DEF Image
<1>6. \A l \in Labels : mem'.mark[l] = IF l \in BatchLabels THEN "live" ELSE mem.mark[l]
  BY BatchLinked
<1>7. LiveOwned'
  <2>1. ASSUME NEW n \in Names, idmap[n] # NoId
        PROVE  mem'.mark[idmap[n]] = "live"
    <3>1. idmap[n] \in Labels
      BY <2>1 DEF Typed
    <3>2. CASE n \in op.names
      <4>1. idmap[n] \in BatchLabels
        BY <1>1, <1>3, <3>2, AddIds DEF BatchLabels
      <4> QED
        BY <1>6, <3>1, <4>1
    <3>3. CASE n \notin op.names
      BY <1>1, <1>3, <1>6, <2>1, <3>1, <3>3 DEF LiveOwned
    <3> QED
      BY <3>2, <3>3
  <2>2. ASSUME NEW l \in Labels, mem'.mark[l] = "live"
        PROVE  l \in OwnedLabels
    BY <1>1, <1>3, <1>6, <2>2, AddIds DEF LiveOwned
  <2> QED
    BY <1>2, <1>4, <1>5, <2>1, <2>2 DEF LiveOwned
<1>8. FreeMarked'
  <2>1. ASSUME NEW i \in DOMAIN deletedIds PROVE mem'.mark[deletedIds[i]] = "deleted"
    <3>1. deletedIds[i] \notin BatchLabels
      <4>1. BatchLabels \subseteq OwnedLabels
        BY <1>1, <1>3, AddIds
      <4> QED
        BY <1>1, <4>1 DEF OwnedLabels
    <3> QED
      BY <1>1, <1>3, <1>6, <3>1 DEF FreeMarked
  <2> QED
    BY <1>2, <1>5, <2>1 DEF FreeMarked
<1>9. NamesStored' /\ TagsSettled'
  BY <1>1, <1>2, <1>3, <1>4 DEF NamesStored, TagsSettled
<1>10. BitsExact'
  BY <1>1, <1>2, <1>3, <1>4 DEF BitsExact
<1> QED
  BY <1>7, <1>8, <1>9, <1>10 DEF Stored

-------------------------------------------------------------------------------
(* Deletions and updates of filters.                                       *)

\* The id a deletion is at is that of the name in its metadata.
LEMMA DroppedName ==
  ASSUME WellMeant, Typed, PlainInv, op.kind = "delete", op.stage \in {"unmap", "mark"}, MoreToDelete
  PROVE  /\ op.ids \in Seq(Labels) /\ op.pos \in DOMAIN op.ids
         /\ Deleted \in Labels /\ Deleted # NoId
         /\ meta[Deleted].name \in Names /\ meta[Deleted].name \in op.names
         /\ op.stage = "unmap" => idmap[meta[Deleted].name] = Deleted
<1>1. op.ids \in Seq(Labels) /\ op.pos \in Nat \ {0} /\ op.pos <= Len(op.ids)
  BY DEF Typed, Ops, MoreToDelete
<1>2. op.pos \in DOMAIN op.ids
  BY <1>1
<1>3. Deleted \in Labels
  BY <1>1, <1>2 DEF Deleted
<1>4. DeleteDrops
  BY DEF PlainInv
<1>5. meta[Deleted].name \in Names /\ meta[Deleted].name \in op.names
  BY <1>2, <1>4 DEF DeleteDrops, HasMeta, Deleted
<1>6. op.stage = "unmap" => ToDrop(op.pos)
  BY <1>1 DEF ToDrop
<1>7. op.stage = "unmap" => idmap[meta[Deleted].name] = Deleted
  BY <1>2, <1>4, <1>6 DEF DeleteDrops, Deleted
<1> QED
  BY <1>1, <1>2, <1>3, <1>5, <1>7, LabelsAreIds

\* What DeleteUnmaps does to a mapping that leads to the id.
LEMMA UnmapsDeleted ==
  ASSUME WellMeant, Typed, PlainInv, DeleteUnmaps
  PROVE  /\ op.kind = "delete" /\ op.stage = "unmap" /\ MoreToDelete
         /\ idmap' = [idmap EXCEPT ![meta[Deleted].name] = NoId]
         /\ deletedIds' = Append(deletedIds, Deleted)
         /\ idmap[meta[Deleted].name] = Deleted
         /\ Moved("mark") /\ promise' = promise
         /\ UNCHANGED <<meta, filt, mem, disk, loaded, vecWriter, crashes, nextId, batch>>
<1>1. op.kind = "delete" /\ op.stage = "unmap" /\ MoreToDelete
  BY DEF DeleteUnmaps, At
<1>2. idmap[meta[Deleted].name] = Deleted /\ Deleted # NoId
  BY <1>1, DroppedName
<1>3. idmap' = [idmap EXCEPT ![meta[Deleted].name] = NoId] /\ deletedIds' = Append(deletedIds, Deleted)
  BY <1>2 DEF DeleteUnmaps, DeletePoint
<1>4. op' = [op EXCEPT !.stage = "mark"] /\ promise' = promise
  BY <1>2 DEF DeleteUnmaps
<1>5. Moved("mark")
  BY <1>4 DEF Typed, Ops, Moved
<1> QED
  BY <1>1, <1>2, <1>3, <1>4, <1>5 DEF DeleteUnmaps, DeletePoint, stores, graphs, rest

\* The name is gone, its label still in the graph and the bitmaps.
LEMMA UnmapKeepsStored ==
  ASSUME WellMeant, Typed, PlainInv, DeleteUnmaps
  PROVE  Stored'
<1>1. LiveOwned /\ FreeMarked /\ NamesStored /\ TagsSettled /\ BitsExact
  BY DEF PlainInv
<1> DEFINE d == Deleted
           n0 == meta[d].name
<1>2. /\ op.kind = "delete" /\ op.stage = "unmap" /\ op'.kind = "delete" /\ op'.stage = "mark"
      /\ op'.ids = op.ids /\ op'.pos = op.pos /\ op'.names = op.names
      /\ idmap' = [idmap EXCEPT ![n0] = NoId] /\ deletedIds' = Append(deletedIds, d)
      /\ idmap[n0] = d /\ d \in Labels /\ d # NoId /\ n0 \in Names
      /\ UNCHANGED <<meta, filt, mem, disk, loaded>>
  BY UnmapsDeleted, DroppedName DEF Moved
<1>3. /\ ~Adding /\ ~Unnamed /\ ~At("delete", "mark") /\ ~At("retag", "tag") /\ ~At("retag", "meta")
      /\ ~At("add", "filters") /\ Retagged = {}
  BY <1>2 DEF Adding, WithIds, At, Unnamed, Retagged
<1>4. /\ ~Adding' /\ ~Unnamed' /\ At("delete", "mark")' /\ ~At("retag", "tag")'
      /\ ~At("retag", "meta")' /\ ~At("add", "filters")' /\ Deleted' = d /\ Retagged' = {d}
      /\ Image' = Image
  BY <1>2 DEF Adding, WithIds, At, Unnamed, Retagged, Deleted, Image
<1>5. /\ idmap \in [Names -> Nat] /\ deletedIds \in Seq(Nat)
      /\ \A m, n \in Names : idmap[m] # NoId /\ idmap[m] = idmap[n] => m = n
      /\ \A n \in Names : idmap[n] # NoId => idmap[n] \in Labels
  BY DEF Typed
<1> HIDE DEF d, n0
<1>6. /\ \A n \in Names : idmap'[n] = IF n = n0 THEN NoId ELSE idmap[n]
      /\ OwnedLabels' = OwnedLabels \ {d}
  <2>1. \A n \in Names : idmap'[n] = IF n = n0 THEN NoId ELSE idmap[n]
    BY <1>2, <1>5
  <2>2. OwnedLabels' = {idmap'[n] : n \in Names} \ {NoId}
    BY DEF OwnedLabels
  <2> QED
    BY <1>2, <1>5, <2>1, <2>2 DEF OwnedLabels
<1>7. LiveOwned'
  <2>1. Image.mark[d] = "live"
    BY <1>1, <1>2, <1>3 DEF LiveOwned
  <2>2. \A n \in Names : idmap'[n] # NoId => Image.mark[idmap'[n]] = "live"
    BY <1>1, <1>3, <1>6 DEF LiveOwned
  <2>3. \A l \in Labels : Image.mark[l] = "live" => l \in OwnedLabels' \/ l = d
    BY <1>1, <1>3, <1>6 DEF LiveOwned
  <2>4. d \notin OwnedLabels'
    BY <1>6
  <2> QED
    BY <1>4, <2>1, <2>2, <2>3, <2>4 DEF LiveOwned
<1>8. FreeMarked'
  <2>1. DOMAIN deletedIds' = 1..(Len(deletedIds) + 1)
        /\ \A i \in DOMAIN deletedIds' :
             \/ i \in DOMAIN deletedIds /\ deletedIds'[i] = deletedIds[i]
             \/ deletedIds'[i] = d
    BY <1>2, <1>5
  <2> QED
    BY <1>1, <1>3, <1>4, <2>1 DEF FreeMarked
<1>9. NamesStored'
  BY <1>1, <1>2, <1>3, <1>4, <1>6 DEF NamesStored
<1>10. TagsSettled'
  <2>1. ASSUME NEW objs \in Batches, NEW i \in DOMAIN objs, idmap'[objs[i].name] # NoId
        PROVE  meta[idmap'[objs[i].name]].tag \in {objs[i].tag, NoTag}
    <3>1. objs[i] \in Objects
      BY IndexStoreAssumption
    <3>2. idmap'[objs[i].name] = idmap[objs[i].name]
      BY <1>6, <2>1, <3>1 DEF Objects
    <3> QED
      BY <1>1, <1>3, <2>1, <3>2 DEF TagsSettled
  <2> QED
    BY <1>2, <1>4, <2>1 DEF TagsSettled
<1>11. BitsExact'
  <2>1. \A t \in Tags, l \in Labels : l # d =>
          (l \in filt[t] <=> l \in OwnedLabels' /\ meta[l].tag = t)
    BY <1>1, <1>3, <1>6 DEF BitsExact
  <2>2. \A t \in Tags : d \in filt[t] => t = meta[d].tag
    BY <1>1, <1>2, <1>3 DEF BitsExact
  <2> QED
    BY <1>2, <1>4, <2>1, <2>2 DEF BitsExact
<1> QED
  BY <1>7, <1>8, <1>9, <1>10, <1>11 DEF Stored

\* What DeleteMarks does.
LEMMA MarksDeleted ==
  ASSUME WellMeant, Typed, PlainInv, DeleteMarks
  PROVE  /\ op.kind = "delete" /\ op.stage = "mark" /\ MoreToDelete
         /\ mem' = MarkDelete(mem, Deleted) /\ mem.mark[Deleted] = "live"
         /\ filt' = [t \in Tags |-> IF t = meta[Deleted].tag THEN filt[t] \ {Deleted} ELSE filt[t]]
         /\ op' = [op EXCEPT !.stage = "unmap", !.pos = @ + 1] /\ promise' = promise
         /\ op'.kind = "delete" /\ op'.stage = "unmap" /\ op'.pos = op.pos + 1
         /\ op'.ids = op.ids /\ op'.names = op.names
         /\ UNCHANGED <<ids, vec, meta, disk, loaded, updated, elementCount, rest, log>>
<1>1. op.kind = "delete" /\ op.stage = "mark" /\ MoreToDelete
  BY DEF DeleteMarks, At, Typed, OpShape, MoreToDelete
<1>2. CanMark(mem, Deleted)
  BY <1>1, NothingFails DEF At
<1>3. mem.mark[Deleted] = "live"
  BY <1>1, ImageIsMem DEF PlainInv, LiveOwned, At
<1>4. /\ mem' = MarkDelete(mem, Deleted) /\ promise' = promise
      /\ op' = [op EXCEPT !.stage = "unmap", !.pos = @ + 1]
  BY <1>2 DEF DeleteMarks
<1>5. /\ op'.kind = "delete" /\ op'.stage = "unmap" /\ op'.pos = op.pos + 1
      /\ op'.ids = op.ids /\ op'.names = op.names
  BY <1>1, <1>4 DEF Typed, Ops
<1> QED
  BY <1>1, <1>3, <1>4, <1>5 DEF DeleteMarks

\* The label is marked, and in no bitmap any more.
LEMMA MarkKeepsStored ==
  ASSUME WellMeant, Typed, PlainInv, DeleteMarks
  PROVE  Stored'
<1>1. LiveOwned /\ FreeMarked /\ NamesStored /\ TagsSettled /\ BitsExact
  BY DEF PlainInv
<1> DEFINE d == Deleted
<1>2. /\ op.kind = "delete" /\ op.stage = "mark" /\ op'.kind = "delete" /\ op'.stage = "unmap"
      /\ UNCHANGED <<idmap, deletedIds, meta, disk, loaded>> /\ d \in Labels
      /\ mem' = MarkDelete(mem, d)
      /\ filt' = [t \in Tags |-> IF t = meta[d].tag THEN filt[t] \ {d} ELSE filt[t]]
  BY MarksDeleted, DroppedName DEF ids
<1>3. /\ ~Adding /\ ~Unnamed /\ At("delete", "mark") /\ ~At("retag", "tag") /\ ~At("retag", "meta")
      /\ ~At("add", "filters") /\ Retagged = {d} /\ Image = mem
  BY <1>2, ImageIsMem DEF Adding, WithIds, At, Unnamed, Retagged
<1>4. /\ ~Adding' /\ ~Unnamed' /\ ~At("delete", "mark")' /\ ~At("retag", "tag")'
      /\ ~At("retag", "meta")' /\ ~At("add", "filters")' /\ Retagged' = {}
      /\ OwnedLabels' = OwnedLabels
  BY <1>2 DEF Adding, WithIds, At, Unnamed, Retagged, OwnedLabels
<1>5. Image' = mem'
  BY <1>2, ImageIsMem DEF Image
<1>6. \A l \in Labels : mem'.mark[l] = IF l = d THEN "deleted" ELSE mem.mark[l]
  BY <1>2 DEF MarkDelete, Typed, Graphs
<1>7. d \notin OwnedLabels
  BY <1>1, <1>3 DEF LiveOwned
<1> HIDE DEF d
<1>8. LiveOwned'
  <2>1. ASSUME NEW n \in Names, idmap[n] # NoId PROVE mem'.mark[idmap[n]] = "live"
    <3>1. idmap[n] \in Labels /\ idmap[n] # d
      BY <1>7, <2>1 DEF Typed, OwnedLabels
    <3> QED
      BY <1>1, <1>3, <1>6, <2>1, <3>1 DEF LiveOwned
  <2>2. \A l \in Labels : mem'.mark[l] = "live" => l \in OwnedLabels
    <3>1. Deleted = d
      BY DEF d
    <3> QED
      BY <1>1, <1>3, <1>6, <3>1 DEF LiveOwned
  <2> QED
    BY <1>2, <1>4, <1>5, <2>1, <2>2 DEF LiveOwned
<1>9. FreeMarked'
  <2>1. ASSUME NEW i \in DOMAIN deletedIds PROVE mem'.mark[deletedIds[i]] = "deleted"
    <3>1. mem.mark[deletedIds[i]] = "deleted" \/ deletedIds[i] = d
      BY <1>1, <1>3 DEF FreeMarked, d
    <3>2. DOMAIN mem.mark = Labels /\ mem'.mark = [mem.mark EXCEPT ![d] = "deleted"]
      BY <1>2 DEF Typed, Graphs, MarkDelete
    <3> QED
      BY <1>2, <3>1, <3>2
  <2> QED
    BY <1>2, <1>4, <1>5, <2>1 DEF FreeMarked
<1>10. NamesStored' /\ TagsSettled'
  BY <1>1, <1>2, <1>3, <1>4 DEF NamesStored, TagsSettled
<1>11. BitsExact'
  <2>1. ASSUME NEW t \in Tags, NEW l \in Labels
        PROVE  l \in filt'[t] <=> l \in OwnedLabels /\ meta[l].tag = t
    <3>1. l \in filt'[t] <=> l \in filt[t] /\ ~(t = meta[d].tag /\ l = d)
      BY <1>2
    <3>2. CASE l = d
      <4>1. d \in filt[t] => t = meta[d].tag
        BY <1>1, <1>3 DEF BitsExact, d
      <4> QED
        BY <1>7, <3>1, <3>2, <4>1
    <3>3. CASE l # d
      BY <1>1, <1>3, <3>1, <3>3 DEF BitsExact
    <3> QED
      BY <3>2, <3>3
  <2> QED
    BY <1>2, <1>4, <2>1 DEF BitsExact
<1> QED
  BY <1>8, <1>9, <1>10, <1>11 DEF Stored

\* What an update of filters is about.
LEMMA RetagIsOwned ==
  ASSUME WellMeant, Typed, PlainInv, op.kind = "retag"
  PROVE  /\ Deleted \in OwnedLabels /\ Deleted \in Labels /\ op.tag \in UpdateTags
         /\ \E n \in Names : idmap[n] = Deleted
<1>1. Deleted \in OwnedLabels /\ op.tag \in UpdateTags
  BY DEF PlainInv, OpMeant
<1>2. \E n \in Names : idmap[n] = Deleted
  BY <1>1 DEF OwnedLabels
<1>3. Deleted \in Labels
  BY <1>1 DEF OwnedLabels, Typed
<1> QED
  BY <1>1, <1>2, <1>3

\* The id leaves the bitmap of its tag.
LEMMA UntagKeepsStored ==
  ASSUME WellMeant, Typed, PlainInv, RetagRemoves
  PROVE  Stored'
<1>1. LiveOwned /\ FreeMarked /\ NamesStored /\ TagsSettled /\ BitsExact
  BY DEF PlainInv
<1> DEFINE d == Deleted
<1>2. /\ op.kind = "retag" /\ op.stage = "untag" /\ op'.kind = "retag" /\ op'.stage = "meta"
      /\ op'.ids = op.ids /\ op'.pos = op.pos
      /\ UNCHANGED <<idmap, deletedIds, meta, mem, disk, loaded>> /\ d \in Labels
      /\ filt' = [t \in Tags |-> IF t = meta[d].tag THEN filt[t] \ {d} ELSE filt[t]]
  BY RetagIsOwned, GoToMoves DEF RetagRemoves, ids, graphs, At, Moved
<1>3. /\ ~Adding /\ ~Unnamed /\ ~At("delete", "mark") /\ ~At("retag", "tag") /\ ~At("retag", "meta")
      /\ ~At("add", "filters") /\ Retagged = {}
  BY <1>2 DEF Adding, WithIds, At, Unnamed, Retagged
<1>4. /\ ~Adding' /\ ~Unnamed' /\ ~At("delete", "mark")' /\ ~At("retag", "tag")'
      /\ At("retag", "meta")' /\ ~At("add", "filters")' /\ Retagged' = {d}
      /\ OwnedLabels' = OwnedLabels /\ Deleted' = d /\ Image' = Image
  BY <1>2 DEF Adding, WithIds, At, Unnamed, Retagged, OwnedLabels, Deleted, Image
<1> HIDE DEF d
<1>5. LiveOwned' /\ FreeMarked' /\ NamesStored' /\ TagsSettled'
  BY <1>1, <1>2, <1>3, <1>4 DEF LiveOwned, FreeMarked, NamesStored, TagsSettled
<1>6. BitsExact'
  <2>1. ASSUME NEW t \in Tags, NEW l \in Labels
        PROVE  l \in filt'[t] <=> l \in filt[t] /\ ~(t = meta[d].tag /\ l = d)
    BY <1>2
  <2>2. \A t \in Tags, l \in Labels : l \in filt[t] <=> l \in OwnedLabels /\ meta[l].tag = t
    BY <1>1, <1>3 DEF BitsExact
  <2>3. \A t \in Tags : d \notin filt'[t]
    BY <1>2, <2>1, <2>2
  <2> QED
    BY <1>2, <1>4, <2>1, <2>2, <2>3 DEF BitsExact
<1> QED
  BY <1>5, <1>6 DEF Stored

\* Its metadata gets the new tag.
LEMMA RetagKeepsStored ==
  ASSUME WellMeant, Typed, PlainInv, RetagStoresMeta
  PROVE  Stored'
<1>1. LiveOwned /\ FreeMarked /\ NamesStored /\ TagsSettled /\ BitsExact
  BY DEF PlainInv
<1> DEFINE d == Deleted
<1>2. /\ op.kind = "retag" /\ op.stage = "meta" /\ op'.kind = "retag" /\ op'.stage = "tag"
      /\ op'.ids = op.ids /\ op'.pos = op.pos /\ op'.tag = op.tag /\ op.tag \in UpdateTags
      /\ UNCHANGED <<idmap, deletedIds, filt, mem, disk, loaded>> /\ d \in Labels
      /\ meta' = [meta EXCEPT ![d].tag = op.tag]
  BY RetagIsOwned, GoToMoves DEF RetagStoresMeta, ids, graphs, At, Moved
<1>3. /\ ~Adding /\ ~Unnamed /\ ~At("delete", "mark") /\ ~At("retag", "tag") /\ At("retag", "meta")
      /\ ~At("add", "filters") /\ Retagged = {d}
  BY <1>2 DEF Adding, WithIds, At, Unnamed, Retagged
<1>4. /\ ~Adding' /\ ~Unnamed' /\ ~At("delete", "mark")' /\ At("retag", "tag")'
      /\ ~At("retag", "meta")' /\ ~At("add", "filters")' /\ Retagged' = {d}
      /\ OwnedLabels' = OwnedLabels /\ Deleted' = d /\ Image' = Image
  BY <1>2 DEF Adding, WithIds, At, Unnamed, Retagged, OwnedLabels, Deleted, Image
<1>5. \A t \in Tags : d \notin filt[t]
  BY <1>1, <1>3 DEF BitsExact
<1> HIDE DEF d
<1>6. /\ meta'[d].tag = op.tag
      /\ \A l \in Labels : meta'[l].name = meta[l].name
      /\ \A l \in Labels : l # d => meta'[l] = meta[l]
  BY <1>2 DEF Typed
<1>7. LiveOwned' /\ FreeMarked'
  BY <1>1, <1>2, <1>3, <1>4 DEF LiveOwned, FreeMarked
<1>8. NamesStored'
  BY <1>1, <1>2, <1>3, <1>4, <1>6 DEF NamesStored, Typed
<1>9. TagsSettled'
  <2>1. ASSUME NEW objs \in Batches, NEW i \in DOMAIN objs, idmap[objs[i].name] # NoId
        PROVE  meta'[idmap[objs[i].name]].tag \in {objs[i].tag, NoTag}
    <3>1. objs[i] \in Objects
      BY IndexStoreAssumption
    <3>2. idmap[objs[i].name] \in Labels
      BY <2>1, <3>1 DEF Objects, Typed
    <3>3. CASE idmap[objs[i].name] = d
      BY <1>2, <1>6, <3>3 DEF WellMeant
    <3>4. CASE idmap[objs[i].name] # d
      BY <1>1, <1>3, <1>6, <2>1, <3>2, <3>4 DEF TagsSettled
    <3> QED
      BY <3>3, <3>4
  <2> QED
    BY <1>2, <1>4, <1>6, <2>1 DEF TagsSettled
<1>10. BitsExact'
  BY <1>1, <1>2, <1>3, <1>4, <1>5, <1>6 DEF BitsExact
<1> QED
  BY <1>7, <1>8, <1>9, <1>10 DEF Stored

\* It enters the bitmap of the new tag, and the request ends.
LEMMA TagKeepsStored ==
  ASSUME WellMeant, Typed, PlainInv, RetagAdds
  PROVE  Stored'
<1>1. LiveOwned /\ FreeMarked /\ NamesStored /\ TagsSettled /\ BitsExact
  BY DEF PlainInv
<1> DEFINE d == Deleted
<1>2. /\ op.kind = "retag" /\ op.stage = "tag" /\ op' = NoOp
      /\ UNCHANGED <<idmap, deletedIds, meta, mem, disk, loaded>> /\ d \in OwnedLabels
      /\ filt' = [t \in Tags |-> IF t = op.tag THEN filt[t] \cup {d} ELSE filt[t]]
  BY RetagIsOwned DEF RetagAdds, Answer, ids, graphs, At
<1>3. /\ ~Adding /\ ~Unnamed /\ ~At("delete", "mark") /\ At("retag", "tag") /\ ~At("retag", "meta")
      /\ ~At("add", "filters") /\ Retagged = {d}
  BY <1>2 DEF Adding, WithIds, At, Unnamed, Retagged
<1>4. /\ ~Adding' /\ ~Unnamed' /\ ~At("delete", "mark")' /\ ~At("retag", "tag")'
      /\ ~At("retag", "meta")' /\ ~At("add", "filters")' /\ Retagged' = {}
      /\ OwnedLabels' = OwnedLabels /\ Image' = Image /\ op'.kind = "none"
  BY <1>2 DEF NoOp, Adding, WithIds, At, Unnamed, Retagged, OwnedLabels, Image
<1>5. meta[d].tag = op.tag /\ \A t \in Tags : d \notin filt[t]
  BY <1>1, <1>3 DEF BitsExact, TagsSettled
<1> HIDE DEF d
<1>6. LiveOwned' /\ FreeMarked' /\ NamesStored' /\ TagsSettled'
  BY <1>1, <1>2, <1>3, <1>4 DEF LiveOwned, FreeMarked, NamesStored, TagsSettled
<1>7. BitsExact'
  <2>1. ASSUME NEW t \in Tags, NEW l \in Labels
        PROVE  l \in filt'[t] <=> l \in OwnedLabels /\ meta[l].tag = t
    <3>1. l \in filt'[t] <=> l \in filt[t] \/ (t = op.tag /\ l = d)
      BY <1>2
    <3>2. CASE l = d
      BY <1>2, <1>5, <3>1, <3>2
    <3>3. CASE l # d
      BY <1>1, <1>3, <3>1, <3>3 DEF BitsExact
    <3> QED
      BY <3>2, <3>3
  <2> QED
    BY <1>2, <1>4, <2>1 DEF BitsExact
<1> QED
  BY <1>6, <1>7 DEF Stored

\* The stores agree after every step.
LEMMA StepKeepsStored ==
  ASSUME WellMeant, IndexInv, IndexInv', PlainInv, [Next]_vars
  PROVE  Stored'
<1>1. Typed /\ Typed'
  BY InvTyped, PTL
<1>2. CASE UNCHANGED vars
  <2>1. UNCHANGED <<idmap, deletedIds, meta, filt, mem, disk, loaded, op>>
    BY <1>2 DEF vars, ids, stores, graphs
  <2>2. /\ UNCHANGED <<Image, OwnedLabels, Adding, Unnamed, Retagged, Deleted>>
        /\ \A k, s : At(k, s)' <=> At(k, s)
    BY <2>1 DEF Image, OwnedLabels, Adding, Unnamed, Retagged, Deleted, At, BatchLabels
  <2>3. LiveOwned /\ FreeMarked /\ NamesStored /\ TagsSettled /\ BitsExact
    BY DEF PlainInv
  <2>4. LiveOwned' /\ FreeMarked' /\ NamesStored'
    BY <2>1, <2>2, <2>3 DEF LiveOwned, FreeMarked, NamesStored
  <2>5. TagsSettled' /\ BitsExact'
    BY <2>1, <2>2, <2>3 DEF TagsSettled, BitsExact
  <2> QED
    BY <2>4, <2>5 DEF Stored
<1>3. CASE \/ AddWritesMappings \/ AddStoresVectors \/ AddLogsOps \/ AddStoresMeta
           \/ AddStoresFilters \/ AddToGraph
  BY <1>1, <1>3, MappingsKeepStored, QuietKeepsStored, MetaKeepsStored, FiltersKeepStored,
     GraphKeepsStored
<1>4. CASE DeleteUnmaps \/ DeleteMarks \/ RetagRemoves \/ RetagStoresMeta \/ RetagAdds
  BY <1>1, <1>4, UnmapKeepsStored, MarkKeepsStored, UntagKeepsStored, RetagKeepsStored,
     TagKeepsStored
<1>5. CASE \/ AddFindsBadVector \/ AddFindsOwnTransaction \/ DeleteFindsNoMeta
           \/ RecoverEntry \/ RecoverEnds \/ Crash
  BY <1>1, <1>5, NothingFails
<1>6. CASE \/ \E t \in Threads, objs \in Batches : BeginAdd(t, objs)
           \/ AddTakesDeleted \/ AddTakesFresh \/ AddLogsIds
           \/ \E n \in Names : DeleteByName(n)
           \/ \E t \in Tags : DeleteByFilter(t)
           \/ DeleteLogs
           \/ \E n \in Names, t \in UpdateTags : BeginRetag(n, t)
           \/ BeginSave \/ SaveWhenLong \/ AnswerWhenShort \/ SaveImage \/ SaveClearsWal
           \/ SaveCounts \/ Evict \/ Load
  BY <1>1, <1>6, CalmSteps
<1> QED
  BY <1>2, <1>3, <1>4, <1>5, <1>6 DEF Next, Step

-------------------------------------------------------------------------------
(* The operation in progress, the counts, what is saved and promised.      *)

\* Requests are what was asked, at the stages they have, and none fails.
LEMMA StepKeepsOpMeant ==
  ASSUME WellMeant, Typed, PlainInv, [Next]_vars
  PROVE  OpMeant'
<1>1. OpMeant
  BY DEF PlainInv
<1> USE DEF rest
<1>2. CASE UNCHANGED vars
  BY <1>1, <1>2 DEF vars, ids, OpMeant, Deleted, OwnedLabels
<1>3. ASSUME NEW t \in Threads, NEW objs \in Batches, BeginAdd(t, objs) PROVE OpMeant'
  <2>1. /\ op' = [NoOp EXCEPT !.kind = "add", !.stage = "ids", !.thread = t, !.objs = objs,
                              !.names = {objs[i].name : i \in DOMAIN objs}]
        /\ UNCHANGED <<vecWriter, crashes>>
    BY <1>3 DEF BeginAdd, Begin
  <2>2. /\ op'.kind = "add" /\ op'.stage = "ids" /\ op'.thread = t /\ op'.objs = objs
        /\ op'.names = {objs[i].name : i \in DOMAIN objs}
    BY <2>1 DEF NoOp
  <2> QED
    BY <1>1, <2>1, <2>2 DEF OpMeant, StagesOf
<1>4. CASE AddTakesDeleted
  BY <1>1, <1>4 DEF AddTakesDeleted, OpMeant, At
<1>5. CASE \/ AddTakesFresh \/ AddLogsIds \/ AddStoresVectors \/ AddStoresMeta
           \/ AddStoresFilters \/ AddLogsOps \/ AddToGraph
  <2>1. /\ op.kind = "add" /\ UNCHANGED <<vecWriter, crashes>>
        /\ \E s \in {"logIds", "map", "saveCheck"} \cup WithIds : Moved(s)
    BY <1>5, GoToMoves DEF AddTakesFresh, AddLogsIds, AddStoresVectors, AddStoresMeta,
       AddStoresFilters, AddLogsOps, AddToGraph, At, WithIds
  <2> QED
    BY <1>1, <2>1 DEF Moved, OpMeant, StagesOf, Saving
<1>6. CASE AddWritesMappings
  <2>1. /\ op'.kind = "add" /\ op'.stage = "vectors" /\ op'.thread = op.thread
        /\ op'.names = op.names /\ op'.objs = op.objs /\ op.kind = "add"
        /\ UNCHANGED <<vecWriter, crashes>>
    BY <1>6 DEF AddWritesMappings, At, Typed, Ops
  <2> QED
    BY <1>1, <2>1 DEF OpMeant, StagesOf, WithIds
<1>7. CASE (\E n \in Names : DeleteByName(n)) \/ (\E t \in Tags : DeleteByFilter(t))
  <2>1. /\ op'.kind = "delete" /\ op'.stage = "unmap" /\ UNCHANGED <<vecWriter, crashes>>
    BY <1>7 DEF DeleteByName, DeleteByFilter, BeginDelete, Begin, NoOp
  <2> QED
    BY <1>1, <2>1 DEF OpMeant, StagesOf
<1>8. CASE DeleteUnmaps
  <2>1. Moved("mark") /\ op.kind = "delete" /\ UNCHANGED <<vecWriter, crashes>>
    BY <1>8, UnmapsDeleted
  <2> QED
    BY <1>1, <2>1 DEF Moved, OpMeant, StagesOf
<1>9. CASE DeleteMarks
  <2>1. op'.kind = "delete" /\ op'.stage = "unmap" /\ UNCHANGED <<vecWriter, crashes>>
    BY <1>9, MarksDeleted
  <2> QED
    BY <1>1, <2>1 DEF OpMeant, StagesOf
<1>10. CASE DeleteLogs
  <2>1. Moved("saveCheck") /\ op.kind = "delete" /\ UNCHANGED <<vecWriter, crashes>>
    BY <1>10, GoToMoves DEF DeleteLogs, At
  <2> QED
    BY <1>1, <2>1 DEF Moved, OpMeant, StagesOf, Saving
<1>11. ASSUME NEW n \in Names, NEW t \in UpdateTags, BeginRetag(n, t) PROVE OpMeant'
  <2>1. /\ op' = [NoOp EXCEPT !.kind = "retag", !.stage = "untag", !.ids = <<idmap[n]>>, !.tag = t]
        /\ UNCHANGED <<vecWriter, crashes, idmap>> /\ idmap[n] # NoId
    BY <1>11 DEF BeginRetag, Begin, ids
  <2>2. /\ op'.kind = "retag" /\ op'.stage = "untag" /\ op'.ids = <<idmap[n]>> /\ op'.pos = 1
        /\ op'.tag = t
    BY <2>1 DEF NoOp
  <2>3. Deleted' = idmap[n] /\ OwnedLabels' = OwnedLabels
    BY <2>1, <2>2 DEF Deleted, OwnedLabels
  <2> QED
    BY <1>1, <2>1, <2>2, <2>3 DEF OpMeant, StagesOf, OwnedLabels
<1>12. CASE RetagRemoves \/ RetagStoresMeta
  <2>1. /\ op.kind = "retag" /\ UNCHANGED <<vecWriter, crashes, idmap>>
        /\ Moved("meta") \/ Moved("tag")
    BY <1>12, GoToMoves DEF RetagRemoves, RetagStoresMeta, ids, At
  <2>2. op'.tag = op.tag /\ Deleted' = Deleted /\ OwnedLabels' = OwnedLabels
    BY <2>1 DEF Moved, Deleted, OwnedLabels
  <2> QED
    BY <1>1, <2>1, <2>2 DEF Moved, OpMeant, StagesOf
<1>13. CASE RetagAdds \/ AnswerWhenShort \/ SaveCounts
  <2>1. op' = NoOp /\ UNCHANGED <<vecWriter, crashes>>
    BY <1>13 DEF RetagAdds, AnswerWhenShort, SaveCounts, Answer
  <2> QED
    BY <1>1, <2>1 DEF NoOp, OpMeant, StagesOf
<1>14. CASE SaveWhenLong \/ SaveImage \/ SaveClearsWal
  <2>1. /\ op.stage \in Saving /\ UNCHANGED <<vecWriter, crashes>>
        /\ \E s \in Saving : Moved(s)
    BY <1>14, GoToMoves DEF SaveWhenLong, SaveImage, SaveClearsWal, Saving
  <2>2. op.kind \in {"add", "delete", "save"}
    BY <1>1, <2>1 DEF OpMeant, StagesOf, Saving, Typed, Ops, Kinds
  <2> QED
    BY <1>1, <2>1, <2>2 DEF Moved, OpMeant, StagesOf
<1>15. CASE BeginSave
  <2>1. op'.kind = "save" /\ op'.stage = "image" /\ UNCHANGED <<vecWriter, crashes>>
    BY <1>15 DEF BeginSave, NoOp
  <2> QED
    BY <1>1, <2>1 DEF OpMeant, StagesOf, Saving
<1>16. CASE Evict
  <2>1. op' = op /\ op.kind = "none" /\ UNCHANGED <<vecWriter, crashes>>
    BY <1>16 DEF Evict, Idle
  <2> QED
    BY <1>1, <2>1 DEF OpMeant
<1>17. CASE Load
  <2>1. op.kind = "none" /\ ~updated
    BY <1>17 DEF Load, Typed, OpShape, PlainInv, SavedUnlessUpdated
  <2>2. op' = op /\ UNCHANGED <<vecWriter, crashes>>
    BY <1>17, <2>1 DEF Load, PlainInv, SavedUnlessUpdated
  <2> QED
    BY <1>1, <2>1, <2>2 DEF OpMeant
<1>18. CASE \/ AddFindsBadVector \/ AddFindsOwnTransaction \/ DeleteFindsNoMeta
            \/ RecoverEntry \/ RecoverEnds \/ Crash
  BY <1>18, NothingFails
<1> QED
  BY <1>2, <1>3, <1>4, <1>5, <1>6, <1>7, <1>8, <1>9, <1>10, <1>11, <1>12, <1>13, <1>14, <1>15,
     <1>16, <1>17, <1>18 DEF Next, Step

\* The steps after which no insert has its mappings.
LEMMA BesideInserts ==
  ASSUME WellMeant, Typed, Typed', PlainInv,
         \/ \E t \in Threads, objs \in Batches : BeginAdd(t, objs)
         \/ AddTakesDeleted \/ AddTakesFresh \/ AddLogsIds
         \/ \E n \in Names : DeleteByName(n)
         \/ \E t \in Tags : DeleteByFilter(t)
         \/ DeleteUnmaps \/ DeleteMarks \/ DeleteLogs
         \/ \E n \in Names, t \in UpdateTags : BeginRetag(n, t)
         \/ RetagRemoves \/ RetagStoresMeta \/ RetagAdds
         \/ BeginSave \/ AnswerWhenShort \/ SaveCounts \/ Evict \/ Load
  PROVE  op'.kind # "add" \/ op'.stage \notin WithIds \cup Saving
<1>1. CASE AddTakesDeleted
  BY <1>1 DEF AddTakesDeleted, At, WithIds, Saving
<1>2. CASE AddTakesFresh \/ AddLogsIds
  <2>1. Moved("logIds") \/ Moved("map")
    BY <1>2, GoToMoves DEF AddTakesFresh, AddLogsIds
  <2> QED
    BY <2>1 DEF Moved, WithIds, Saving
<1>3. CASE \E t \in Threads, objs \in Batches : BeginAdd(t, objs)
  BY <1>3 DEF BeginAdd, Begin, NoOp, WithIds, Saving
<1>4. CASE \/ \E n \in Names : DeleteByName(n)
           \/ \E t \in Tags : DeleteByFilter(t)
           \/ \E n \in Names, t \in UpdateTags : BeginRetag(n, t)
           \/ BeginSave
  <2>1. op'.kind \in {"delete", "retag", "save"}
    <3>1. CASE \E n \in Names : DeleteByName(n)
      BY <3>1 DEF DeleteByName, BeginDelete, Begin, NoOp
    <3>2. CASE \E t \in Tags : DeleteByFilter(t)
      BY <3>2 DEF DeleteByFilter, BeginDelete, Begin, NoOp
    <3>3. CASE \E n \in Names, t \in UpdateTags : BeginRetag(n, t)
      BY <3>3 DEF BeginRetag, Begin, NoOp
    <3>4. CASE BeginSave
      BY <3>4 DEF BeginSave, NoOp
    <3> QED
      BY <1>4, <3>1, <3>2, <3>3, <3>4
  <2> QED
    BY <2>1
<1>5. CASE DeleteUnmaps \/ DeleteMarks \/ DeleteLogs \/ RetagRemoves \/ RetagStoresMeta
  <2>1. op.kind \in {"delete", "retag"} /\ op'.kind = op.kind
    BY <1>5, UnmapsDeleted, MarksDeleted, GoToMoves DEF DeleteLogs, RetagRemoves,
       RetagStoresMeta, At, Moved
  <2> QED
    BY <2>1
<1>6. CASE RetagAdds \/ AnswerWhenShort \/ SaveCounts
  <2>1. op' = NoOp
    BY <1>6 DEF RetagAdds, AnswerWhenShort, SaveCounts, Answer
  <2> QED
    BY <2>1 DEF NoOp
<1>7. CASE Evict \/ Load
  <2>1. op'.kind \in {"none", "load"}
    BY <1>7 DEF Evict, Load, Idle, NoOp, Typed, OpShape
  <2> QED
    BY <2>1
<1> QED
  BY <1>1, <1>2, <1>3, <1>4, <1>5, <1>6, <1>7

\* The ids of an insert stay those of its names.
LEMMA StepKeepsAddMapped ==
  ASSUME WellMeant, IndexInv, Typed, Typed', PlainInv, [Next]_vars
  PROVE  AddMapped'
<1>1. AddMapped /\ OpMeant
  BY DEF PlainInv
<1>2. CASE UNCHANGED vars
  BY <1>1, <1>2 DEF vars, ids, AddMapped
<1>3. CASE AddWritesMappings
  BY <1>3, MappingsKeepStored
<1>4. CASE op'.kind # "add" \/ op'.stage \notin WithIds \cup Saving
  BY <1>4 DEF AddMapped
<1>5. CASE /\ op.kind = "add" /\ op.stage \in WithIds \cup Saving
           /\ UNCHANGED idmap /\ \E s : Moved(s)
  BY <1>1, <1>5 DEF AddMapped, Moved
<1>6. CASE \/ AddStoresVectors \/ AddStoresMeta \/ AddStoresFilters \/ AddLogsOps \/ AddToGraph
  <2>1. op.kind = "add" /\ op.stage \in WithIds /\ UNCHANGED idmap /\ \E s : Moved(s)
    BY <1>6, GoToMoves DEF AddStoresVectors, AddStoresMeta, AddStoresFilters, AddLogsOps,
       AddToGraph, ids, At, WithIds
  <2> QED
    BY <1>5, <2>1
<1>7. CASE SaveWhenLong \/ SaveImage \/ SaveClearsWal
  <2>1. op.stage \in Saving /\ UNCHANGED idmap /\ \E s : Moved(s)
    BY <1>7, GoToMoves DEF SaveWhenLong, SaveImage, SaveClearsWal, ids, Saving
  <2>2. op'.kind = op.kind
    BY <2>1 DEF Moved
  <2> QED
    BY <1>4, <1>5, <2>1, <2>2
<1>8. CASE \/ \E t \in Threads, objs \in Batches : BeginAdd(t, objs)
           \/ AddTakesDeleted \/ AddTakesFresh \/ AddLogsIds
           \/ \E n \in Names : DeleteByName(n)
           \/ \E t \in Tags : DeleteByFilter(t)
           \/ DeleteUnmaps \/ DeleteMarks \/ DeleteLogs
           \/ \E n \in Names, t \in UpdateTags : BeginRetag(n, t)
           \/ RetagRemoves \/ RetagStoresMeta \/ RetagAdds
           \/ BeginSave \/ AnswerWhenShort \/ SaveCounts \/ Evict \/ Load
  BY <1>4, <1>8, BesideInserts
<1>9. CASE \/ AddFindsBadVector \/ AddFindsOwnTransaction \/ DeleteFindsNoMeta
           \/ RecoverEntry \/ RecoverEnds \/ Crash
  BY <1>9, NothingFails
<1> QED
  BY <1>2, <1>3, <1>6, <1>7, <1>8, <1>9 DEF Next, Step

\* What an insert has stored under its ids stays until it ends.
LEMMA StepKeepsVecsStored ==
  ASSUME WellMeant, IndexInv, Typed, Typed', PlainInv, [Next]_vars
  PROVE  VecsStored'
<1>1. VecsStored /\ OpMeant /\ AddMapped
  BY DEF PlainInv
<1>2. CASE UNCHANGED vars
  BY <1>1, <1>2 DEF vars, stores, VecsStored
<1>3. CASE AddWritesMappings
  <2>1. op'.stage = "vectors"
    BY <1>3 DEF AddWritesMappings, Typed, Ops
  <2> QED
    BY <2>1 DEF VecsStored, WithIds, Saving
<1>4. CASE op'.kind # "add" \/ op'.stage \notin WithIds \cup Saving
  BY <1>4 DEF VecsStored
<1>5. CASE /\ op.kind = "add" /\ op.stage \in (WithIds \ {"vectors"}) \cup Saving
           /\ UNCHANGED vec /\ \E s : Moved(s)
  BY <1>1, <1>5 DEF VecsStored, Moved
<1>6. CASE AddStoresVectors \/ AddStoresMeta \/ AddStoresFilters \/ AddLogsOps \/ AddToGraph
  <2>1. CASE AddStoresVectors
    <3>1. /\ Adding /\ Moved("meta")
          /\ vec' = [l \in Labels |-> IF l \in BatchLabels THEN LastFor(l).vec ELSE vec[l]]
      BY <2>1, GoToMoves DEF AddStoresVectors, Adding, WithIds, At
    <3>2. ASSUME NEW i \in DOMAIN op.objs PROVE vec'[op.ids[i]] = op.objs[i].vec
      <4>1. i \in DOMAIN op.ids /\ op.ids[i] \in Labels /\ LastFor(op.ids[i]) = op.objs[i]
        BY <1>1, <3>1, AddIds
      <4>2. op.ids[i] \in BatchLabels
        BY <4>1 DEF BatchLabels
      <4> QED
        BY <3>1, <4>1, <4>2
    <3> QED
      BY <3>1, <3>2 DEF VecsStored, Moved
  <2>2. CASE AddStoresMeta \/ AddStoresFilters \/ AddLogsOps \/ AddToGraph
    <3>1. op.kind = "add" /\ op.stage \in WithIds \ {"vectors"} /\ UNCHANGED vec /\ \E s : Moved(s)
      BY <2>2, GoToMoves DEF AddStoresMeta, AddStoresFilters, AddLogsOps, AddToGraph, stores, At,
         WithIds
    <3> QED
      BY <1>5, <3>1
  <2> QED
    BY <1>6, <2>1, <2>2
<1>7. CASE SaveWhenLong \/ SaveImage \/ SaveClearsWal
  <2>1. op.stage \in Saving /\ UNCHANGED vec /\ \E s : Moved(s)
    BY <1>7, GoToMoves DEF SaveWhenLong, SaveImage, SaveClearsWal, stores, Saving
  <2>2. op'.kind = op.kind
    BY <2>1 DEF Moved
  <2> QED
    BY <1>4, <1>5, <2>1, <2>2
<1>8. CASE \/ \E t \in Threads, objs \in Batches : BeginAdd(t, objs)
           \/ AddTakesDeleted \/ AddTakesFresh \/ AddLogsIds
           \/ \E n \in Names : DeleteByName(n)
           \/ \E t \in Tags : DeleteByFilter(t)
           \/ DeleteUnmaps \/ DeleteMarks \/ DeleteLogs
           \/ \E n \in Names, t \in UpdateTags : BeginRetag(n, t)
           \/ RetagRemoves \/ RetagStoresMeta \/ RetagAdds
           \/ BeginSave \/ AnswerWhenShort \/ SaveCounts \/ Evict \/ Load
  BY <1>4, <1>8, BesideInserts
<1>9. CASE \/ AddFindsBadVector \/ AddFindsOwnTransaction \/ DeleteFindsNoMeta
           \/ RecoverEntry \/ RecoverEnds \/ Crash
  BY <1>9, NothingFails
<1> QED
  BY <1>2, <1>3, <1>6, <1>7, <1>8, <1>9 DEF Next, Step

\* Labels in ascending order, as many as there are, are all of them.
LEMMA AllListed ==
  ASSUME NEW S \in SUBSET Labels, NEW labels \in [1..Cardinality(S) -> S],
         \A i, j \in DOMAIN labels : i < j => labels[i] < labels[j]
  PROVE  /\ labels \in Seq(Labels)
         /\ \A i, j \in DOMAIN labels : labels[i] = labels[j] => i = j
         /\ \A l \in S : \E i \in DOMAIN labels : labels[i] = l
<1>1. IsFiniteSet(S) /\ Cardinality(S) \in Nat
  BY LabelsFinite
<1>2. \A i \in DOMAIN labels : labels[i] \in S /\ labels[i] \in Nat /\ i \in Nat
  <2>1. DOMAIN labels = 1..Cardinality(S) /\ S \subseteq Nat
    BY HnswAssumption
  <2>2. \A i \in 1..Cardinality(S) : labels[i] \in S
    OBVIOUS
  <2>3. \A i \in 1..Cardinality(S) : i \in Nat
    BY <1>1
  <2> QED
    BY <2>1, <2>2, <2>3
<1>3. \A i, j \in DOMAIN labels : labels[i] = labels[j] => i = j
  <2>1. ASSUME NEW i \in DOMAIN labels, NEW j \in DOMAIN labels, labels[i] = labels[j], i # j
        PROVE  FALSE
    <3>1. i < j \/ j < i
      BY <1>2, <2>1
    <3>2. labels[i] < labels[j] \/ labels[j] < labels[i]
      BY <3>1
    <3> QED
      BY <1>2, <2>1, <3>2
  <2> QED
    BY <2>1
<1> DEFINE T == {labels[i] : i \in 1..Cardinality(S)}
<1>4. T \in SUBSET S
  OBVIOUS
<1>5. Cardinality(T) = Cardinality(S)
  <2> DEFINE f == [i \in 1..Cardinality(S) |-> labels[i]]
  <2>1. f \in Bijection(1..Cardinality(S), T)
    BY <1>3 DEF Bijection, Injection, Surjection, IsInjective
  <2>2. IsFiniteSet(1..Cardinality(S)) /\ Cardinality(1..Cardinality(S)) = Cardinality(S)
    BY <1>1, FS_Interval
  <2> HIDE DEF f, T
  <2>3. ExistsBijection(1..Cardinality(S), T)
    BY <2>1 DEF ExistsBijection
  <2> QED
    BY <2>2, <2>3, FS_Bijection
<1>6. T = S
  BY <1>1, <1>4, <1>5, FS_Subset
<1>7. labels \in Seq(Labels)
  BY <1>1
<1> QED
  BY <1>3, <1>6, <1>7

\* A sequence of one.
LEMMA OneInSeq ==
  ASSUME NEW S, NEW x \in S
  PROVE  <<x>> \in Seq(S) /\ DOMAIN <<x>> = {1} /\ <<x>>[1] = x
<1>1. <<x>> \in Seq(S) /\ <<x>>[1] = x
  OBVIOUS
<1>2. DOMAIN <<x>> = 1..1
  OBVIOUS
<1>3. 1..1 = {1}
  OBVIOUS
<1> QED
  BY <1>1, <1>2, <1>3

\* A deletion begins with ids that its names have.
LEMMA DeleteBegins ==
  ASSUME WellMeant, Typed, PlainInv,
         \/ \E n \in Names : DeleteByName(n)
         \/ \E t \in Tags : DeleteByFilter(t)
  PROVE  DeleteDrops'
<1>1. LiveOwned /\ NamesStored /\ BitsExact
  BY DEF PlainInv
<1>2. op.kind = "none" /\ op.stage = "none" /\ UNCHANGED <<idmap, meta>>
  BY DEF DeleteByName, DeleteByFilter, BeginDelete, Begin, Idle, Typed, OpShape, ids, stores
<1>3. ~Unnamed /\ Retagged = {}
  BY <1>2 DEF Unnamed, Retagged, At
<1>4. SUFFICES ASSUME NEW labels \in Seq(Labels), NEW names,
                      op' = [NoOp EXCEPT !.kind = "delete", !.stage = "unmap", !.ids = labels,
                                         !.names = names],
                      \A i \in DOMAIN labels : labels[i] \in OwnedLabels,
                      \A i, j \in DOMAIN labels : labels[i] = labels[j] => i = j,
                      names = {meta[labels[i]].name : i \in DOMAIN labels}
               PROVE  DeleteDrops'
  <2>1. ASSUME NEW n \in Names, DeleteByName(n)
        PROVE  DeleteDrops'
    <3> DEFINE labels == <<idmap[n]>>
    <3>1. idmap[n] # NoId /\ idmap[n] \in Labels /\ meta[idmap[n]].name = n
      BY <1>1, <1>3, <2>1 DEF DeleteByName, Typed, NamesStored
    <3>2. labels \in Seq(Labels) /\ DOMAIN labels = {1} /\ labels[1] = idmap[n]
      BY <3>1, OneInSeq
    <3>3. op' = [NoOp EXCEPT !.kind = "delete", !.stage = "unmap", !.ids = labels, !.names = {n}]
      BY <2>1 DEF DeleteByName, BeginDelete, Begin
    <3> HIDE DEF labels
    <3>4. /\ \A i \in DOMAIN labels : labels[i] \in OwnedLabels
          /\ \A i, j \in DOMAIN labels : labels[i] = labels[j] => i = j
          /\ {n} = {meta[labels[i]].name : i \in DOMAIN labels}
      BY <3>1, <3>2 DEF OwnedLabels
    <3> QED
      BY <1>4, <3>2, <3>3, <3>4
  <2>2. ASSUME NEW t \in Tags, DeleteByFilter(t)
        PROVE  DeleteDrops'
    <3>1. PICK labels \in [1..Cardinality(filt[t]) -> filt[t]] :
            /\ \A i, j \in DOMAIN labels : i < j => labels[i] < labels[j]
            /\ BeginDelete(labels, {meta[l].name : l \in {k \in filt[t] : HasMeta(k)}})
      BY <2>2 DEF DeleteByFilter
    <3>2. filt[t] \in SUBSET Labels
      BY DEF Typed
    <3>3. /\ labels \in Seq(Labels)
          /\ \A i, j \in DOMAIN labels : labels[i] = labels[j] => i = j
          /\ \A l \in filt[t] : \E i \in DOMAIN labels : labels[i] = l
      BY <3>1, <3>2, AllListed
    <3>4. \A l \in filt[t] : l \in OwnedLabels
      BY <1>1, <1>3, <3>2 DEF BitsExact
    <3>5. \A l \in OwnedLabels : HasMeta(l)
      BY <1>1, <1>3 DEF OwnedLabels, NamesStored, HasMeta
    <3>6. \A i \in DOMAIN labels : labels[i] \in filt[t]
      OBVIOUS
    <3>7. {meta[l].name : l \in {k \in filt[t] : HasMeta(k)}} = {meta[labels[i]].name : i \in DOMAIN labels}
      <4>1. {k \in filt[t] : HasMeta(k)} = filt[t]
        BY <3>4, <3>5
      <4>2. ASSUME NEW l \in filt[t]
            PROVE  meta[l].name \in {meta[labels[i]].name : i \in DOMAIN labels}
        <5>1. PICK i \in DOMAIN labels : labels[i] = l
          BY <3>3
        <5> QED
          BY <5>1
      <4>3. {meta[labels[i]].name : i \in DOMAIN labels} \subseteq {meta[l].name : l \in filt[t]}
        BY <3>6
      <4> QED
        BY <4>1, <4>2, <4>3
    <3>8. op' = [NoOp EXCEPT !.kind = "delete", !.stage = "unmap", !.ids = labels,
                             !.names = {meta[l].name : l \in {k \in filt[t] : HasMeta(k)}}]
      BY <3>1 DEF BeginDelete, Begin
    <3> QED
      BY <1>4, <3>3, <3>4, <3>6, <3>7, <3>8
  <2> QED
    BY <2>1, <2>2
<1>5. /\ op'.kind = "delete" /\ op'.stage = "unmap" /\ op'.ids = labels /\ op'.names = names
      /\ op'.pos = 1
  BY <1>4 DEF NoOp
<1>6. \A i \in DOMAIN labels : ToDrop(i)'
  <2>1. \A i \in DOMAIN labels : i >= 1
    BY <1>4
  <2> QED
    BY <1>5, <2>1 DEF ToDrop
<1>7. ASSUME NEW i \in DOMAIN labels
      PROVE  /\ meta[labels[i]].name \in Names
             /\ idmap[meta[labels[i]].name] = labels[i]
  <2>1. PICK n \in Names : idmap[n] = labels[i] /\ idmap[n] # NoId
    BY <1>4 DEF OwnedLabels
  <2>2. meta[labels[i]].name = n
    BY <1>1, <1>3, <2>1 DEF NamesStored
  <2> QED
    BY <2>1, <2>2
<1>8. \A i, j \in DOMAIN labels : meta[labels[i]].name = meta[labels[j]].name => i = j
  <2>1. ASSUME NEW i \in DOMAIN labels, NEW j \in DOMAIN labels,
               meta[labels[i]].name = meta[labels[j]].name
        PROVE  i = j
    <3>1. labels[i] = labels[j]
      BY <1>7, <2>1
    <3> QED
      BY <1>4, <3>1
  <2> QED
    BY <2>1
<1> QED
  BY <1>2, <1>4, <1>5, <1>6, <1>7, <1>8 DEF DeleteDrops, HasMeta

\* Steps that are no part of an insert before its graph leave no insert there.
LEMMA OtherSteps ==
  ASSUME WellMeant, Typed, PlainInv,
         \/ AddToGraph
         \/ \E n \in Names : DeleteByName(n)
         \/ \E t \in Tags : DeleteByFilter(t)
         \/ DeleteUnmaps \/ DeleteMarks \/ DeleteLogs
         \/ \E n \in Names, t \in UpdateTags : BeginRetag(n, t)
         \/ RetagRemoves \/ RetagStoresMeta \/ RetagAdds
         \/ BeginSave \/ SaveWhenLong \/ AnswerWhenShort \/ SaveImage \/ SaveClearsWal
         \/ SaveCounts \/ Evict \/ Load
  PROVE  op'.kind # "add" \/ op'.stage \in Saving
<1>1. CASE \/ \E n \in Names : DeleteByName(n)
           \/ \E t \in Tags : DeleteByFilter(t)
  BY <1>1 DEF DeleteByName, DeleteByFilter, BeginDelete, Begin, NoOp
<1>2. CASE \E n \in Names, t \in UpdateTags : BeginRetag(n, t)
  BY <1>2 DEF BeginRetag, Begin, NoOp
<1>3. CASE DeleteUnmaps \/ DeleteMarks \/ DeleteLogs \/ RetagRemoves \/ RetagStoresMeta
  BY <1>3, UnmapsDeleted, MarksDeleted, GoToMoves DEF DeleteLogs, RetagRemoves,
     RetagStoresMeta, At, Moved
<1>4. CASE AddToGraph \/ SaveWhenLong \/ SaveImage \/ SaveClearsWal
  BY <1>4, GoToMoves DEF AddToGraph, SaveWhenLong, SaveImage, SaveClearsWal, Moved, Saving
<1>5. CASE RetagAdds \/ AnswerWhenShort \/ SaveCounts
  <2>1. op' = NoOp
    BY <1>5 DEF RetagAdds, AnswerWhenShort, SaveCounts, Answer
  <2> QED
    BY <2>1 DEF NoOp
<1>6. CASE BeginSave \/ Evict \/ Load
  BY <1>6 DEF BeginSave, Evict, Load, Idle, NoOp, Typed, OpShape
<1> QED
  BY <1>1, <1>2, <1>3, <1>4, <1>5, <1>6

\* The ids an insert reuses are those of deleted elements.
LEMMA StepKeepsTaken ==
  ASSUME WellMeant, IndexInv, IndexInv', Typed, Typed', PlainInv, [Next]_vars
  PROVE  TakenMarked'
<1>1. TakenMarked /\ FreeMarked /\ OpMeant
  BY DEF PlainInv
<1>2. CASE UNCHANGED vars
  BY <1>1, <1>2 DEF vars, ids, graphs, TakenMarked, Adding
<1>3. CASE op'.kind # "add" \/ op'.stage \in Saving
  <2>1. batch'.stage = "none" /\ ~Adding'
    BY <1>3 DEF IndexInv, BatchIsOps, Adding, Saving, WithIds
  <2>2. batch' = NoBatch
    BY <2>1 DEF IndexInv, IdInv, TakenEnough
  <2> QED
    BY <2>1, <2>2 DEF TakenMarked, NoBatch
<1>4. ASSUME NEW t \in Threads, NEW objs \in Batches, BeginAdd(t, objs) PROVE TakenMarked'
  <2>1. batch'.stage = "lookedUp" /\ batch'.alloc = <<>> /\ op'.stage = "ids"
    BY <1>4 DEF BeginAdd, LookUp, Begin, NoOp
  <2> QED
    BY <2>1 DEF TakenMarked, Adding, WithIds
<1>5. CASE AddTakesDeleted
  <2> DEFINE k == IF batch.reuse THEN Smaller(Needed, Len(deletedIds)) ELSE 0
  <2>1. /\ batch' = [batch EXCEPT !.stage = "taken", !.reused = k, !.alloc = SubSeq(deletedIds, 1, k)]
        /\ UNCHANGED <<mem, op>> /\ op.kind = "add" /\ op.stage = "ids"
        /\ deletedIds \in Seq(Nat)
    BY <1>5 DEF AddTakesDeleted, TakeDeleted, At, graphs, Typed
  <2>2. Needed \in Nat
    BY NewAtFinite DEF Needed, Typed
  <2>3. k \in 0..Len(deletedIds)
    BY <2>1, <2>2 DEF Smaller
  <2> HIDE DEF k
  <2>4. /\ SubSeq(deletedIds, 1, k) \in Seq(Nat) /\ DOMAIN SubSeq(deletedIds, 1, k) = 1..k
        /\ \A i \in 1..k : SubSeq(deletedIds, 1, k)[i] = deletedIds[i]
    BY <2>1, <2>3, SplitSeq
  <2>5. batch'.alloc = SubSeq(deletedIds, 1, k) /\ batch'.reused = k
    <3>1. batch \in [stage : BatchStages, names : Seq(Names), reuse : BOOLEAN,
                     old : Seq(Nat), alloc : Seq(Nat), reused : Nat]
      BY DEF IndexInv, IdInv, IdTypeOK
    <3> QED
      BY <2>1, <3>1
  <2>6. Len(batch'.alloc) = k
    BY <2>3, <2>4, <2>5
  <2>7. Image = mem /\ ~At("delete", "mark")
    BY <2>1, ImageIsMem DEF At
  <2>8. \A i \in 1..k : mem.mark[deletedIds[i]] = "deleted"
    BY <1>1, <2>1, <2>3, <2>7 DEF FreeMarked
  <2> QED
    BY <2>1, <2>3, <2>4, <2>5, <2>6, <2>8 DEF TakenMarked, Adding, WithIds
<1>6. CASE AddTakesFresh
  <2> DEFINE k == Needed - Len(batch.alloc)
             fresh == [j \in 1..k |-> nextId + j - 1]
  <2>1. /\ batch.stage = "taken" /\ Moved("logIds") /\ UNCHANGED mem
        /\ batch' = [batch EXCEPT !.stage = "allocated", !.alloc = @ \o fresh]
    BY <1>6, GoToMoves DEF AddTakesFresh, TakeFresh, graphs
  <2>2. batch \in [stage : BatchStages, names : Seq(Names), reuse : BOOLEAN,
                   old : Seq(Nat), alloc : Seq(Nat), reused : Nat]
    BY DEF IndexInv, IdInv, IdTypeOK
  <2>3. batch'.alloc = batch.alloc \o fresh /\ batch'.reused = batch.reused /\ batch'.stage = "allocated"
    BY <2>1, <2>2
  <2>4. k \in Nat
    <3>1. Needed \in Nat /\ Len(batch.alloc) <= Needed /\ Len(batch.alloc) \in Nat
      BY <2>1, <2>2, NewAtFinite DEF IndexInv, IdInv, TakenEnough, Needed
    <3> QED
      BY <3>1
  <2>5. fresh \in Seq(Nat)
    <3>1. nextId \in Nat
      BY DEF IndexInv, IdInv, IdTypeOK
    <3> HIDE DEF k
    <3> QED
      BY <2>4, <3>1, FreshIds
  <2> HIDE DEF fresh
  <2>6. batch.reused \in Nat /\ batch.reused <= Len(batch.alloc) /\ batch.alloc \in Seq(Nat)
    BY <1>1, <2>1, <2>2 DEF TakenMarked
  <2>7. ASSUME NEW j \in DOMAIN batch'.alloc, j <= batch.reused
        PROVE  mem.mark[batch'.alloc[j]] = "deleted"
    <3>1. j \in DOMAIN batch.alloc /\ batch'.alloc[j] = batch.alloc[j]
      BY <2>3, <2>5, <2>6, <2>7
    <3> QED
      BY <1>1, <2>7, <3>1 DEF TakenMarked
  <2> QED
    BY <2>1, <2>3, <2>7 DEF TakenMarked, Moved, Adding, WithIds
<1>7. CASE AddLogsIds
  <2>1. UNCHANGED <<batch, mem>> /\ Moved("map")
    BY <1>7, GoToMoves DEF AddLogsIds, ids, graphs
  <2> QED
    BY <1>1, <2>1 DEF TakenMarked, Moved, Adding, WithIds
<1>8. CASE AddWritesMappings
  BY <1>8, MappingsKeepStored
<1>9. CASE AddStoresVectors \/ AddStoresMeta \/ AddStoresFilters \/ AddLogsOps
  <2>1. UNCHANGED <<batch, mem>> /\ Adding /\ \E s : Moved(s)
    BY <1>9, GoToMoves DEF AddStoresVectors, AddStoresMeta, AddStoresFilters, AddLogsOps, ids,
       graphs, Adding, WithIds, At
  <2> QED
    BY <1>1, <2>1 DEF TakenMarked, Moved
<1>10. CASE \/ AddToGraph
            \/ \E n \in Names : DeleteByName(n)
            \/ \E t \in Tags : DeleteByFilter(t)
            \/ DeleteUnmaps \/ DeleteMarks \/ DeleteLogs
            \/ \E n \in Names, t \in UpdateTags : BeginRetag(n, t)
            \/ RetagRemoves \/ RetagStoresMeta \/ RetagAdds
            \/ BeginSave \/ SaveWhenLong \/ AnswerWhenShort \/ SaveImage \/ SaveClearsWal
            \/ SaveCounts \/ Evict \/ Load
  BY <1>3, <1>10, OtherSteps
<1>11. CASE \/ AddFindsBadVector \/ AddFindsOwnTransaction \/ DeleteFindsNoMeta
            \/ RecoverEntry \/ RecoverEnds \/ Crash
  BY <1>11, NothingFails
<1> QED
  BY <1>2, <1>4, <1>5, <1>6, <1>7, <1>8, <1>9, <1>10, <1>11 DEF Next, Step

\* The steps that begin no deletion and are part of none.
LEMMA NoDeletionSteps ==
  ASSUME WellMeant, Typed, PlainInv,
         \/ \E t \in Threads, objs \in Batches : BeginAdd(t, objs)
         \/ AddTakesDeleted \/ AddTakesFresh \/ AddLogsIds \/ AddWritesMappings
         \/ AddStoresVectors \/ AddStoresMeta \/ AddStoresFilters \/ AddLogsOps \/ AddToGraph
         \/ \E n \in Names, t \in UpdateTags : BeginRetag(n, t)
         \/ RetagRemoves \/ RetagStoresMeta \/ RetagAdds
         \/ BeginSave \/ AnswerWhenShort \/ SaveCounts \/ Evict \/ Load
  PROVE  op'.kind # "delete"
<1>1. CASE \E t \in Threads, objs \in Batches : BeginAdd(t, objs)
  BY <1>1 DEF BeginAdd, Begin, NoOp
<1>2. CASE AddTakesDeleted \/ AddWritesMappings
  BY <1>2 DEF AddTakesDeleted, AddWritesMappings, At, Typed, Ops
<1>3. CASE AddTakesFresh \/ AddLogsIds
  BY <1>3, GoToMoves DEF AddTakesFresh, AddLogsIds, At, Moved
<1>4. CASE AddStoresVectors \/ AddStoresMeta \/ AddStoresFilters \/ AddLogsOps \/ AddToGraph
  BY <1>4, GoToMoves DEF AddStoresVectors, AddStoresMeta, AddStoresFilters, AddLogsOps,
     AddToGraph, At, Moved
<1>5. CASE \E n \in Names, t \in UpdateTags : BeginRetag(n, t)
  BY <1>5 DEF BeginRetag, Begin, NoOp
<1>6. CASE RetagRemoves \/ RetagStoresMeta
  BY <1>6, GoToMoves DEF RetagRemoves, RetagStoresMeta, At, Moved
<1>7. CASE RetagAdds \/ AnswerWhenShort \/ SaveCounts
  <2>1. op' = NoOp
    BY <1>7 DEF RetagAdds, AnswerWhenShort, SaveCounts, Answer
  <2> QED
    BY <2>1 DEF NoOp
<1>8. CASE BeginSave \/ Evict \/ Load
  BY <1>8 DEF BeginSave, Evict, Load, Idle, NoOp, Typed, OpShape
<1> QED
  BY <1>1, <1>2, <1>3, <1>4, <1>5, <1>6, <1>7, <1>8

\* A deletion drops its names one after the other.
LEMMA StepKeepsDeleteDrops ==
  ASSUME WellMeant, Typed, PlainInv, [Next]_vars
  PROVE  DeleteDrops'
<1>1. DeleteDrops
  BY DEF PlainInv
<1>2. CASE UNCHANGED vars
  <2>1. UNCHANGED <<op, idmap, meta>>
    BY <1>2 DEF vars, ids, stores
  <2> QED
    BY <1>1, <2>1 DEF DeleteDrops, ToDrop, HasMeta
<1>3. CASE (\E n \in Names : DeleteByName(n)) \/ (\E t \in Tags : DeleteByFilter(t))
  BY <1>3, DeleteBegins
<1>4. ASSUME op.kind = "delete", UNCHANGED meta, op'.ids = op.ids, op'.names = op.names,
             \A i \in DOMAIN op.ids :
               idmap'[meta[op.ids[i]].name] = IF ToDrop(i)' THEN op.ids[i] ELSE NoId
      PROVE  DeleteDrops'
  BY <1>1, <1>4 DEF DeleteDrops, HasMeta
<1>5. CASE DeleteUnmaps
  <2> DEFINE n0 == meta[Deleted].name
  <2>1. /\ op.kind = "delete" /\ op.stage = "unmap" /\ Moved("mark") /\ UNCHANGED meta
        /\ idmap' = [idmap EXCEPT ![n0] = NoId] /\ n0 \in Names
        /\ op.ids \in Seq(Labels) /\ op.pos \in DOMAIN op.ids
    BY <1>5, UnmapsDeleted, DroppedName
  <2>2. ASSUME NEW i \in DOMAIN op.ids
        PROVE  idmap'[meta[op.ids[i]].name] = IF ToDrop(i)' THEN op.ids[i] ELSE NoId
    <3>1. op'.stage = "mark" /\ op'.pos = op.pos
      BY <2>1 DEF Moved
    <3>2. ToDrop(i)' <=> i > op.pos
      BY <3>1 DEF ToDrop
    <3>3. ToDrop(i) <=> i >= op.pos
      BY <2>1 DEF ToDrop
    <3>4. meta[op.ids[i]].name = n0 <=> i = op.pos
      BY <1>1, <2>1 DEF DeleteDrops, Deleted
    <3>5. i \in Nat /\ op.pos \in Nat
      BY <2>1
    <3>6. meta[op.ids[i]].name \in Names
          /\ idmap[meta[op.ids[i]].name] = IF ToDrop(i) THEN op.ids[i] ELSE NoId
      BY <1>1, <2>1 DEF DeleteDrops, HasMeta
    <3> HIDE DEF n0
    <3>7. CASE i = op.pos
      BY <2>1, <3>2, <3>4, <3>5, <3>7 DEF Typed
    <3>8. CASE i # op.pos
      <4>1. idmap'[meta[op.ids[i]].name] = idmap[meta[op.ids[i]].name]
        BY <2>1, <3>4, <3>6, <3>8 DEF Typed
      <4> QED
        BY <3>2, <3>3, <3>5, <3>6, <3>8, <4>1
    <3> QED
      BY <3>7, <3>8
  <2> QED
    BY <1>4, <2>1, <2>2 DEF Moved
<1>6. CASE DeleteMarks
  <2>1. /\ op.kind = "delete" /\ op.stage = "mark" /\ op'.stage = "unmap" /\ op'.pos = op.pos + 1
        /\ op'.ids = op.ids /\ op'.names = op.names /\ UNCHANGED <<idmap, meta>>
    BY <1>6, MarksDeleted DEF ids
  <2>2. op.pos \in Nat /\ op.ids \in Seq(Labels)
    BY DEF Typed, Ops
  <2>3. ASSUME NEW i \in DOMAIN op.ids PROVE ToDrop(i)' <=> ToDrop(i)
    <3>1. i \in Nat
      BY <2>2
    <3> QED
      BY <2>1, <2>2, <3>1 DEF ToDrop
  <2> QED
    BY <1>1, <1>4, <2>1, <2>3 DEF DeleteDrops
<1>7. ASSUME op.kind = "delete", UNCHANGED <<idmap, meta>>, NEW s \in Saving, Moved(s),
             \A i \in DOMAIN op.ids : ~ToDrop(i)
      PROVE  DeleteDrops'
  <2>1. \A i \in DOMAIN op.ids : ~ToDrop(i)'
    BY <1>7 DEF ToDrop, Moved, Saving
  <2> QED
    BY <1>1, <1>4, <1>7, <2>1 DEF DeleteDrops, Moved
<1>8. CASE DeleteLogs
  <2>1. /\ op.kind = "delete" /\ op.stage = "unmap" /\ ~(op.pos <= Len(op.ids))
        /\ UNCHANGED <<idmap, meta>> /\ Moved("saveCheck")
    BY <1>8, GoToMoves DEF DeleteLogs, At, MoreToDelete, ids, stores
  <2>2. op.pos \in Nat /\ op.ids \in Seq(Labels)
    BY DEF Typed, Ops
  <2>3. \A i \in DOMAIN op.ids : ~(i >= op.pos)
    BY <2>1, <2>2
  <2>4. \A i \in DOMAIN op.ids : ~ToDrop(i)
    BY <2>1, <2>3 DEF ToDrop
  <2> QED
    BY <1>7, <2>1, <2>4 DEF Saving
<1>9. CASE SaveWhenLong \/ SaveImage \/ SaveClearsWal
  <2>1. /\ op.stage \in Saving /\ UNCHANGED <<idmap, meta>> /\ \E s \in Saving : Moved(s)
    BY <1>9, GoToMoves DEF SaveWhenLong, SaveImage, SaveClearsWal, Saving, ids, stores
  <2>2. CASE op.kind # "delete"
    BY <2>1, <2>2 DEF DeleteDrops, Moved
  <2>3. CASE op.kind = "delete"
    BY <1>7, <2>1, <2>3 DEF ToDrop, Saving
  <2> QED
    BY <2>2, <2>3
<1>10. CASE \/ \E t \in Threads, objs \in Batches : BeginAdd(t, objs)
            \/ AddTakesDeleted \/ AddTakesFresh \/ AddLogsIds \/ AddWritesMappings
            \/ AddStoresVectors \/ AddStoresMeta \/ AddStoresFilters \/ AddLogsOps \/ AddToGraph
            \/ \E n \in Names, t \in UpdateTags : BeginRetag(n, t)
            \/ RetagRemoves \/ RetagStoresMeta \/ RetagAdds
            \/ BeginSave \/ AnswerWhenShort \/ SaveCounts \/ Evict \/ Load
  <2>1. op'.kind # "delete"
    BY <1>10, NoDeletionSteps
  <2> QED
    BY <2>1 DEF DeleteDrops
<1>11. CASE \/ AddFindsBadVector \/ AddFindsOwnTransaction \/ DeleteFindsNoMeta
            \/ RecoverEntry \/ RecoverEnds \/ Crash
  BY <1>11, NothingFails
<1> QED
  BY <1>2, <1>3, <1>5, <1>6, <1>8, <1>9, <1>10, <1>11 DEF Next, Step

\* Deleted elements stay counted once.
LEMMA StepKeepsDelExact ==
  ASSUME WellMeant, IndexInv, Typed, PlainInv, [Next]_vars
  PROVE  DelExact'
<1>1. CountsDeleted(mem) /\ CountsDeleted(disk)
  BY DEF PlainInv, DelExact, CountsDeleted
<1>2. SUFFICES CountsDeleted(mem') /\ CountsDeleted(disk')
  BY DEF DelExact, CountsDeleted, LabelsMarked
<1>3. CASE UNCHANGED <<mem, disk>>
  BY <1>1, <1>3
<1>4. CASE AddToGraph
  BY <1>1, <1>4, BatchLinked DEF AddToGraph
<1>5. CASE DeleteMarks
  <2>1. mem' = MarkDelete(mem, Deleted) /\ mem.mark[Deleted] = "live" /\ disk' = disk
    BY <1>5, MarksDeleted
  <2>2. Deleted \in Labels /\ mem \in Graphs
    BY <1>5, MarksDeleted, DroppedName DEF Typed
  <2> QED
    BY <1>1, <2>1, <2>2, MarkDeleteCountsExactly
<1>6. CASE SaveImage
  BY <1>1, <1>6 DEF SaveImage
<1>7. CASE Evict
  <2>1. LabelsMarked(EmptyGraph, "deleted") = {} /\ EmptyGraph.del = 0
    BY DEF LabelsMarked, EmptyGraph
  <2>2. CountsDeleted(EmptyGraph)
    BY <2>1, FS_EmptySet DEF CountsDeleted
  <2> QED
    BY <1>1, <1>7, <2>2 DEF Evict
<1>8. CASE Load
  BY <1>1, <1>8 DEF Load
<1>9. CASE \/ AddFindsBadVector \/ AddFindsOwnTransaction \/ DeleteFindsNoMeta
            \/ RecoverEntry \/ RecoverEnds \/ Crash
  BY <1>9, NothingFails
<1>10. \/ UNCHANGED <<mem, disk>> \/ AddToGraph \/ DeleteMarks \/ SaveImage \/ Evict \/ Load
       \/ AddFindsBadVector \/ AddFindsOwnTransaction \/ DeleteFindsNoMeta
       \/ RecoverEntry \/ RecoverEnds \/ Crash
  BY DEF Next, Step, vars, graphs, BeginAdd, AddTakesDeleted, AddTakesFresh, AddLogsIds,
     AddWritesMappings, AddStoresVectors, AddStoresMeta, AddStoresFilters, AddLogsOps,
     DeleteByName, DeleteByFilter, BeginDelete, DeleteUnmaps, DeleteLogs, BeginRetag,
     RetagRemoves, RetagStoresMeta, RetagAdds, BeginSave, SaveWhenLong, AnswerWhenShort,
     SaveClearsWal, SaveCounts
<1> QED
  BY <1>3, <1>4, <1>5, <1>6, <1>7, <1>8, <1>9, <1>10

\* The active elements are the live labels.
LEMMA ActiveAreLive ==
  ASSUME WellMeant, NEW g \in Graphs, CountsDeleted(g)
  PROVE  ElementsCount(g) = Cardinality(LabelsMarked(g, "live"))
<1> DEFINE P == Labels \ LabelsMarked(g, "absent")
           D == LabelsMarked(g, "deleted")
           L == LabelsMarked(g, "live")
<1>1. D \subseteq P /\ L = P \ D /\ P \subseteq Labels /\ L \subseteq Labels
  BY DEF LabelsMarked, Graphs, Marks
<1>2. g.del = Cardinality(D) /\ ElementsCount(g) = (Cardinality(P) - g.del) % SizeRange
  BY DEF CountsDeleted, ElementsCount
<1> HIDE DEF P, D, L
<1>3. IsFiniteSet(P) /\ P \cap D = D /\ Cardinality(P) \in Nat
  BY <1>1, LabelsFinite
<1>4. Cardinality(L) = Cardinality(P) - g.del
  <2>1. Cardinality(P \ D) = Cardinality(P) - Cardinality(P \cap D)
    BY <1>3, FS_Difference
  <2> QED
    BY <1>1, <1>2, <1>3, <2>1
<1>5. Cardinality(L) \in 0..MaxId
  <2>1. Labels = 1..MaxId /\ MaxId \in Nat
    BY IndexStoreAssumption, IdMapperAssumption
  <2>2. IsFiniteSet(Labels) /\ Cardinality(Labels) = MaxId
    BY <2>1, FS_Interval
  <2>3. Cardinality(L) <= Cardinality(Labels) /\ Cardinality(L) \in Nat
    BY <1>1, <2>2, LabelsFinite, FS_Subset
  <2> QED
    BY <2>1, <2>2, <2>3
<1>6. Cardinality(L) % SizeRange = Cardinality(L)
  <2>1. MaxId < SizeRange /\ SizeRange \in Nat \ {0} /\ MaxId \in Nat
    BY HnswAssumption, IdMapperAssumption DEF WellMeant
  <2>2. ASSUME NEW x \in Nat, NEW m \in Nat, x < m PROVE x % m = x
    BY <2>2
  <2>3. Cardinality(L) \in Nat /\ Cardinality(L) < SizeRange
    BY <1>5, <2>1
  <2> QED
    BY <2>1, <2>2, <2>3
<1> QED
  BY <1>2, <1>4, <1>6 DEF L

\* What is not saved stays marked.
LEMMA StepKeepsSaved ==
  ASSUME WellMeant, IndexInv, Typed, PlainInv, [Next]_vars
  PROVE  SavedUnlessUpdated'
<1> USE DEF graphs, log
<1>1. SavedUnlessUpdated /\ OpShape /\ SavedBeforeCleared /\ CountsDeleted(mem)
  BY DEF PlainInv, Typed, IndexInv, DelExact, CountsDeleted
<1>2. CASE UNCHANGED vars
  BY <1>1, <1>2 DEF vars, SavedUnlessUpdated, LabelsMarked
<1>3. CASE op'.kind # "none" /\ op'.stage \notin Saving /\ loaded'
  BY <1>3 DEF SavedUnlessUpdated, Saving
<1>4. CASE updated' /\ op'.stage # "count" /\ loaded'
  BY <1>4 DEF SavedUnlessUpdated
<1>5. CASE \/ \E t \in Threads, objs \in Batches : BeginAdd(t, objs)
           \/ \E n \in Names : DeleteByName(n)
           \/ \E t \in Tags : DeleteByFilter(t)
           \/ \E n \in Names, t \in UpdateTags : BeginRetag(n, t)
  <2>1. CASE \E t \in Threads, objs \in Batches : BeginAdd(t, objs)
    BY <1>3, <2>1 DEF BeginAdd, Begin, Idle, NoOp, Saving
  <2>2. CASE (\E n \in Names : DeleteByName(n)) \/ (\E t \in Tags : DeleteByFilter(t))
    <3>1. PICK labels, names : BeginDelete(labels, names)
      BY <2>2 DEF DeleteByName, DeleteByFilter
    <3> QED
      BY <1>3, <3>1 DEF BeginDelete, Begin, Idle, NoOp, Saving
  <2>3. CASE \E n \in Names, t \in UpdateTags : BeginRetag(n, t)
    BY <1>3, <2>3 DEF BeginRetag, Begin, Idle, NoOp, Saving
  <2> QED
    BY <1>5, <2>1, <2>2, <2>3
<1>6. CASE \/ AddTakesDeleted \/ AddTakesFresh \/ AddLogsIds \/ AddWritesMappings
           \/ AddStoresVectors \/ AddStoresMeta \/ AddStoresFilters \/ AddLogsOps
           \/ DeleteUnmaps \/ DeleteMarks \/ RetagRemoves \/ RetagStoresMeta
  <2>1. op.kind # "none" /\ op'.kind = op.kind /\ op'.stage \notin Saving
    <3>1. CASE AddTakesDeleted
      BY <3>1 DEF AddTakesDeleted, At, Saving
    <3>2. CASE AddWritesMappings
      BY <3>2 DEF AddWritesMappings, At, Typed, Ops, Saving
    <3>3. CASE AddTakesFresh \/ AddLogsIds \/ AddStoresVectors \/ AddStoresMeta
               \/ AddStoresFilters \/ AddLogsOps \/ RetagRemoves \/ RetagStoresMeta
      BY <3>3, GoToMoves DEF AddTakesFresh, AddLogsIds, AddStoresVectors, AddStoresMeta,
         AddStoresFilters, AddLogsOps, RetagRemoves, RetagStoresMeta, At, Moved, Saving
    <3>4. CASE DeleteUnmaps \/ DeleteMarks
      BY <3>4, UnmapsDeleted, MarksDeleted DEF Moved, Saving
    <3> QED
      BY <1>6, <3>1, <3>2, <3>3, <3>4
  <2>2. loaded' = loaded /\ loaded
    BY <1>6, <2>1, ImageIsMem DEF AddTakesDeleted, AddTakesFresh, AddLogsIds, AddWritesMappings,
       AddStoresVectors, AddStoresMeta, AddStoresFilters, AddLogsOps, DeleteUnmaps, DeleteMarks,
       RetagRemoves, RetagStoresMeta
  <2> QED
    BY <1>3, <2>1, <2>2
<1>7. CASE AddToGraph \/ DeleteLogs
  <2>1. op.kind # "none" /\ loaded' = loaded /\ updated' /\ op'.stage = "saveCheck"
    BY <1>7, GoToMoves DEF AddToGraph, DeleteLogs, At, Moved
  <2> QED
    BY <1>4, <2>1, ImageIsMem
<1>8. CASE RetagAdds
  <2>1. op.kind # "none" /\ loaded' = loaded /\ updated' /\ op' = NoOp
    BY <1>8 DEF RetagAdds, At, Answer
  <2> QED
    BY <1>4, <2>1, ImageIsMem DEF NoOp
<1>9. CASE SaveWhenLong \/ SaveImage
  <2>1. op.kind # "none" /\ loaded' = loaded /\ op.stage \in Saving /\ updated' = updated
        /\ op'.stage \in {"image", "clear"}
    BY <1>1, <1>9, GoToMoves DEF SaveWhenLong, SaveImage, Moved, Saving, OpShape
  <2> QED
    BY <1>1, <1>4, <2>1, ImageIsMem DEF SavedUnlessUpdated
<1>10. CASE SaveClearsWal
  <2>1. /\ op.kind # "none" /\ loaded' = loaded /\ op.stage = "clear" /\ updated' = updated
        /\ op'.stage = "count" /\ op'.kind = op.kind /\ disk' = disk /\ mem' = mem
        /\ wal' = <<>> /\ walCount' = 0
    BY <1>1, <1>10, GoToMoves DEF SaveClearsWal, Moved, OpShape
  <2>2. loaded /\ disk = mem /\ updated
    BY <1>1, <2>1, ImageIsMem DEF SavedBeforeCleared, SavedUnlessUpdated, Saving
  <2> QED
    BY <2>1, <2>2 DEF SavedUnlessUpdated
<1>11. CASE AnswerWhenShort
  <2>1. op.kind # "none" /\ loaded' = loaded /\ op.stage \in Saving /\ updated' = updated /\ op' = NoOp
    BY <1>1, <1>11 DEF AnswerWhenShort, Answer, Saving, OpShape
  <2> QED
    BY <1>1, <1>4, <2>1, ImageIsMem DEF SavedUnlessUpdated, NoOp
<1>12. CASE SaveCounts
  <2>1. /\ op.stage = "count" /\ op.kind # "none" /\ elementCount' = ElementsCount(mem)
        /\ UNCHANGED <<wal, walCount, mem, disk, loaded>> /\ op' = NoOp
    BY <1>1, <1>12 DEF SaveCounts, Answer, OpShape
  <2>2. disk = mem /\ wal = <<>> /\ walCount = 0 /\ loaded
    BY <1>1, <2>1, ImageIsMem DEF SavedUnlessUpdated
  <2>3. elementCount' = Cardinality(LabelsMarked(disk, "live"))
    BY <1>1, <2>1, <2>2, ActiveAreLive DEF Typed
  <2>4. op'.stage = "none"
    BY <2>1 DEF NoOp
  <2>5. LabelsMarked(disk, "live")' = LabelsMarked(disk, "live")
    BY <2>1 DEF LabelsMarked
  <2> QED
    BY <2>1, <2>2, <2>3, <2>4, <2>5 DEF SavedUnlessUpdated, Saving
<1>13. CASE BeginSave
  BY <1>4, <1>13 DEF BeginSave, Idle, NoOp
<1>14. CASE Evict
  <2>1. op' = op /\ op.stage = "none" /\ op.kind = "none" /\ loaded /\ ~loaded' /\ ~updated
        /\ UNCHANGED <<wal, walCount, disk, updated, elementCount>>
    BY <1>1, <1>14 DEF Evict, Idle, OpShape
  <2> QED
    BY <1>1, <2>1 DEF SavedUnlessUpdated, LabelsMarked, Saving
<1>15. CASE Load
  <2>1. op.kind = "none" /\ op.stage = "none" /\ ~updated
    BY <1>1, <1>15 DEF Load, OpShape, SavedUnlessUpdated
  <2>2. op' = op /\ mem' = disk /\ loaded' /\ UNCHANGED <<wal, walCount, disk, updated, elementCount>>
    BY <1>1, <1>15, <2>1 DEF Load, SavedUnlessUpdated
  <2> QED
    BY <1>1, <2>1, <2>2 DEF SavedUnlessUpdated, LabelsMarked, Saving
<1>16. CASE \/ AddFindsBadVector \/ AddFindsOwnTransaction \/ DeleteFindsNoMeta
            \/ RecoverEntry \/ RecoverEnds \/ Crash
  BY <1>16, NothingFails
<1> QED
  BY <1>2, <1>5, <1>6, <1>7, <1>8, <1>9, <1>10, <1>11, <1>12, <1>13, <1>14, <1>15, <1>16
     DEF Next, Step

\* What a request is answered with is so.
LEMMA OutcomesHold ==
  ASSUME WellMeant, Typed, PlainInv, op.stage \in Saving, NEW n \in op.names
  PROVE  /\ Outcome = "present" => idmap[n] # NoId
         /\ Outcome = "absent" => idmap[n] = NoId
<1>1. OpMeant /\ AddMapped /\ DeleteDrops
  BY DEF PlainInv
<1>2. ASSUME op.kind = "add" PROVE idmap[n] # NoId
  <2>1. PICK i \in DOMAIN op.objs : n = op.objs[i].name
    BY <1>1, <1>2 DEF OpMeant
  <2> QED
    BY <1>1, <1>2, <2>1 DEF AddMapped
<1>3. ASSUME op.kind = "delete" PROVE idmap[n] = NoId
  <2>1. PICK i \in DOMAIN op.ids : n = meta[op.ids[i]].name
    BY <1>1, <1>3 DEF DeleteDrops
  <2>2. ~ToDrop(i)
    BY DEF ToDrop, Saving
  <2> QED
    BY <1>1, <1>3, <2>1, <2>2 DEF DeleteDrops
<1> QED
  BY <1>2, <1>3 DEF Outcome

\* Answers stay true until a request is about their names.
LEMMA StepKeepsPromises ==
  ASSUME WellMeant, IndexInv, Typed, PlainInv, [Next]_vars
  PROVE  PromisesHeld'
<1> USE DEF ids
<1>1. PromisesHeld /\ promise \in [Names -> {"unknown", "present", "absent"}]
  BY DEF PlainInv, Typed
<1>2. CASE UNCHANGED <<idmap, promise>> /\ op'.names \subseteq op.names
  BY <1>1, <1>2 DEF PromisesHeld
<1>3. ASSUME NEW newOp, Begin(newOp), UNCHANGED idmap
      PROVE  PromisesHeld'
  BY <1>1, <1>3 DEF Begin, PromisesHeld
<1>4. CASE UNCHANGED vars
  BY <1>2, <1>4 DEF vars
<1>5. CASE \/ \E t \in Threads, objs \in Batches : BeginAdd(t, objs)
           \/ \E n \in Names : DeleteByName(n)
           \/ \E t \in Tags : DeleteByFilter(t)
           \/ \E n \in Names, t \in UpdateTags : BeginRetag(n, t)
  <2>1. UNCHANGED idmap
    BY <1>5 DEF BeginAdd, LookUp, DeleteByName, DeleteByFilter, BeginDelete, BeginRetag
  <2>2. PICK newOp : Begin(newOp)
    BY <1>5 DEF BeginAdd, DeleteByName, DeleteByFilter, BeginDelete, BeginRetag
  <2> QED
    BY <1>3, <2>1, <2>2
<1>6. CASE \/ AddTakesDeleted \/ AddTakesFresh \/ AddLogsIds
           \/ AddStoresVectors \/ AddStoresMeta \/ AddStoresFilters \/ AddLogsOps \/ AddToGraph
           \/ DeleteMarks \/ DeleteLogs \/ RetagRemoves \/ RetagStoresMeta
           \/ SaveWhenLong \/ SaveImage \/ SaveClearsWal
  <2>1. CASE AddTakesDeleted
    BY <1>2, <2>1 DEF AddTakesDeleted, TakeDeleted
  <2>2. CASE DeleteMarks
    BY <1>2, <2>2, MarksDeleted
  <2>3. CASE \/ AddTakesFresh \/ AddLogsIds
             \/ AddStoresVectors \/ AddStoresMeta \/ AddStoresFilters \/ AddLogsOps \/ AddToGraph
             \/ DeleteLogs \/ RetagRemoves \/ RetagStoresMeta
             \/ SaveWhenLong \/ SaveImage \/ SaveClearsWal
    <3>1. UNCHANGED idmap
      BY <2>3 DEF AddTakesFresh, TakeFresh, AddLogsIds, AddStoresVectors, AddStoresMeta,
         AddStoresFilters, AddLogsOps, AddToGraph, DeleteLogs, RetagRemoves, RetagStoresMeta,
         SaveWhenLong, SaveImage, SaveClearsWal
    <3>2. PICK s : GoTo(s)
      BY <2>3 DEF AddTakesFresh, AddLogsIds, AddStoresVectors, AddStoresMeta,
         AddStoresFilters, AddLogsOps, AddToGraph, DeleteLogs, RetagRemoves, RetagStoresMeta,
         SaveWhenLong, SaveImage, SaveClearsWal
    <3> QED
      BY <1>2, <3>1, <3>2, GoToMoves DEF Moved
  <2> QED
    BY <1>6, <2>1, <2>2, <2>3
<1>7. CASE AddWritesMappings
  <2>1. op'.names = op.names /\ promise' = promise
    BY <1>7 DEF AddWritesMappings, Typed, Ops
  <2>2. \A n \in Names : idmap[n] # NoId \/ n \notin op.names => idmap'[n] = idmap[n]
    BY <1>7, MappingsWritten
  <2> QED
    BY <1>1, <2>1, <2>2 DEF PromisesHeld
<1>8. CASE DeleteUnmaps
  <2>1. op'.names = op.names /\ promise' = promise /\ meta[Deleted].name \in op.names
        /\ idmap' = [idmap EXCEPT ![meta[Deleted].name] = NoId]
    BY <1>8, UnmapsDeleted, DroppedName DEF Moved
  <2>2. \A n \in Names : n \notin op.names => idmap'[n] = idmap[n]
    BY <2>1 DEF Typed
  <2> QED
    BY <1>1, <2>1, <2>2 DEF PromisesHeld
<1>9. ASSUME NEW outcome, Answer(outcome), UNCHANGED idmap,
             \A n \in op.names : /\ outcome = "present" => idmap[n] # NoId
                                 /\ outcome = "absent" => idmap[n] = NoId
      PROVE  PromisesHeld'
  <2>1. op'.names = {}
    BY <1>9 DEF Answer, NoOp
  <2>2. \A n \in Names : promise'[n] = IF n \in op.names THEN outcome ELSE promise[n]
    BY <1>9 DEF Answer
  <2> QED
    BY <1>1, <1>9, <2>1, <2>2 DEF PromisesHeld
<1>10. CASE RetagAdds
  BY <1>9, <1>10 DEF RetagAdds
<1>11. CASE AnswerWhenShort \/ SaveCounts
  <2>1. op.stage \in Saving /\ Answer(Outcome) /\ UNCHANGED idmap
    BY <1>11 DEF AnswerWhenShort, SaveCounts, Saving
  <2> QED
    BY <1>9, <2>1, OutcomesHold
<1>12. CASE BeginSave \/ Load
  <2>1. UNCHANGED <<idmap, promise>> /\ (op'.names = {} \/ op' = op)
    BY <1>12 DEF BeginSave, Load, NoOp
  <2> QED
    BY <1>2, <2>1
<1>13. CASE Evict
  BY <1>2, <1>13 DEF Evict
<1>14. CASE \/ AddFindsBadVector \/ AddFindsOwnTransaction \/ DeleteFindsNoMeta
            \/ RecoverEntry \/ RecoverEnds \/ Crash
  BY <1>14, NothingFails
<1> QED
  BY <1>4, <1>5, <1>6, <1>7, <1>8, <1>10, <1>11, <1>12, <1>13, <1>14 DEF Next, Step

-------------------------------------------------------------------------------
(* The log covers what is not saved.                                       *)

\* A sequence without positions is empty.
LEMMA NothingIn ==
  ASSUME NEW S, NEW s \in Seq(S), DOMAIN s = {}
  PROVE  s = <<>>
<1>1. DOMAIN s = 1..Len(s) /\ Len(s) \in Nat
  OBVIOUS
<1>2. ~(Len(s) > 0)
  <2>1. Len(s) > 0 => 1 \in 1..Len(s)
    BY <1>1
  <2> QED
    BY <1>1, <2>1
<1>3. Len(s) = 0
  BY <1>1, <1>2
<1> QED
  BY <1>3

\* The records of a log after records were appended.
LEMMA JoinedAt ==
  ASSUME NEW old \in Seq(WalRecords), NEW more \in Seq(WalRecords), NEW joined, joined = old \o more
  PROVE  /\ \A i \in DOMAIN joined :
              \/ i \in DOMAIN old /\ joined[i] = old[i]
              \/ \E j \in DOMAIN more : i = Len(old) + j /\ joined[i] = more[j]
         /\ \A i \in DOMAIN old : i \in DOMAIN joined /\ joined[i] = old[i]
         /\ \A j \in DOMAIN more : Len(old) + j \in DOMAIN joined /\ joined[Len(old) + j] = more[j]
<1>1. joined \in Seq(WalRecords) /\ Len(joined) = Len(old) + Len(more)
  OBVIOUS
<1>2. \A i \in 1..Len(old) : joined[i] = old[i]
  OBVIOUS
<1>3. \A j \in 1..Len(more) : joined[Len(old) + j] = more[j]
  OBVIOUS
<1>4. ASSUME NEW i \in DOMAIN joined
      PROVE  \/ i \in DOMAIN old /\ joined[i] = old[i]
             \/ \E j \in DOMAIN more : i = Len(old) + j /\ joined[i] = more[j]
  <2>1. i \in 1..(Len(old) + Len(more)) /\ Len(old) \in Nat /\ Len(more) \in Nat
    BY <1>1
  <2>2. CASE i <= Len(old)
    BY <1>2, <2>1, <2>2
  <2>3. CASE i > Len(old)
    <3>1. i - Len(old) \in 1..Len(more) /\ i = Len(old) + (i - Len(old))
      BY <2>1, <2>3
    <3> QED
      BY <1>3, <3>1
  <2> QED
    BY <2>1, <2>2, <2>3
<1>5. \A i \in DOMAIN old : i \in DOMAIN joined /\ joined[i] = old[i]
  BY <1>1, <1>2
<1>6. ASSUME NEW j \in DOMAIN more
      PROVE  Len(old) + j \in DOMAIN joined /\ joined[Len(old) + j] = more[j]
  <2>1. j \in 1..Len(more) /\ Len(old) \in Nat /\ Len(more) \in Nat
    OBVIOUS
  <2>2. Len(old) + j \in 1..Len(joined)
    BY <1>1, <2>1
  <2> QED
    BY <1>1, <1>3, <2>1, <2>2
<1> QED
  BY <1>4, <1>5, <1>6

\* What a log says after records were appended.
LEMMA JoinedLog ==
  ASSUME NEW old \in Seq(WalRecords), NEW more \in Seq(WalRecords), NEW joined, joined = old \o more
  PROVE  /\ AddsIn(joined) = {} => AddsIn(old) = {} /\ AddsIn(more) = {}
         /\ \A l \in Labels, o \in WalOps :
              Logged(joined, l, o) <=> Logged(old, l, o) \/ Logged(more, l, o)
<1>1. \A i \in DOMAIN joined :
        \/ i \in DOMAIN old /\ joined[i] = old[i]
        \/ \E j \in DOMAIN more : i = Len(old) + j /\ joined[i] = more[j]
  BY JoinedAt
<1>2. \A i \in DOMAIN old : i \in DOMAIN joined /\ joined[i] = old[i]
  BY JoinedAt
<1>3. \A j \in DOMAIN more : Len(old) + j \in DOMAIN joined /\ joined[Len(old) + j] = more[j]
  BY JoinedAt
<1>4. AddsIn(joined) = {} => AddsIn(old) = {} /\ AddsIn(more) = {}
  BY <1>2, <1>3 DEF AddsIn
<1>5. ASSUME NEW l \in Labels, NEW o \in WalOps
      PROVE  Logged(joined, l, o) <=> Logged(old, l, o) \/ Logged(more, l, o)
  <2> DEFINE r == [op |-> o, id |-> l]
  <2> HIDE DEF r
  <2>1. (\E i \in DOMAIN joined : joined[i] = r)
          <=> (\E i \in DOMAIN old : old[i] = r) \/ (\E i \in DOMAIN more : more[i] = r)
    <3>1. ASSUME NEW i \in DOMAIN joined, joined[i] = r
          PROVE  (\E k \in DOMAIN old : old[k] = r) \/ (\E k \in DOMAIN more : more[k] = r)
      BY <1>1, <3>1
    <3>2. ASSUME NEW i \in DOMAIN old, old[i] = r PROVE \E k \in DOMAIN joined : joined[k] = r
      BY <1>2, <3>2
    <3>3. ASSUME NEW i \in DOMAIN more, more[i] = r PROVE \E k \in DOMAIN joined : joined[k] = r
      BY <1>3, <3>3
    <3> QED
      BY <3>1, <3>2, <3>3
  <2> QED
    BY <2>1 DEF Logged, r
<1> QED
  BY <1>4, <1>5

\* The last record of a label is one of its records.
LEMMA LastRecord ==
  ASSUME NEW records \in Seq(WalRecords), NEW l, NEW i \in DOMAIN records, records[i].id = l
  PROVE  /\ LastOf(RecordsOf(records, l)) \in DOMAIN records
         /\ records[LastOf(RecordsOf(records, l))].id = l
         /\ i <= LastOf(RecordsOf(records, l))
         /\ RecordsOf(records, l) # {}
<1>1. RecordsOf(records, l) \subseteq 1..Len(records) /\ Len(records) \in Nat
      /\ i \in RecordsOf(records, l)
  BY DEF RecordsOf
<1>2. LastOf(RecordsOf(records, l)) \in RecordsOf(records, l) /\ i <= LastOf(RecordsOf(records, l))
  BY <1>1, LastOfIsLast
<1> QED
  BY <1>1, <1>2 DEF RecordsOf

\* The last record of a label after records were appended.
LEMMA JoinedLast ==
  ASSUME NEW old \in Seq(WalRecords), NEW more \in Seq(WalRecords), NEW joined, joined = old \o more,
         NEW l \in Labels, NEW some
  PROVE  /\ (\A i \in DOMAIN more : more[i].id # l) /\ LastIs(old, l, some) => LastIs(joined, l, some)
         /\ (\E i \in DOMAIN more : more[i].id = l)
              /\ (\A i \in DOMAIN more : more[i].id = l => more[i].op \in some)
            => LastIs(joined, l, some)
<1>1. joined \in Seq(WalRecords)
  OBVIOUS
<1>2. /\ \A i \in DOMAIN joined :
           \/ i \in DOMAIN old /\ joined[i] = old[i]
           \/ \E j \in DOMAIN more : i = Len(old) + j /\ joined[i] = more[j]
      /\ \A i \in DOMAIN old : i \in DOMAIN joined /\ joined[i] = old[i]
      /\ \A j \in DOMAIN more : Len(old) + j \in DOMAIN joined /\ joined[Len(old) + j] = more[j]
  BY JoinedAt
<1>3. ASSUME \A i \in DOMAIN more : more[i].id # l, LastIs(old, l, some)
      PROVE  LastIs(joined, l, some)
  <2>1. RecordsOf(joined, l) = RecordsOf(old, l)
    BY <1>2, <1>3 DEF RecordsOf
  <2>2. PICK i \in DOMAIN old : old[i].id = l
    BY <1>3 DEF LastIs, RecordsOf
  <2>3. LastOf(RecordsOf(old, l)) \in DOMAIN old
    BY <2>2, LastRecord
  <2> QED
    BY <1>2, <1>3, <2>1, <2>3 DEF LastIs
<1>4. ASSUME NEW k \in DOMAIN more, more[k].id = l,
             \A i \in DOMAIN more : more[i].id = l => more[i].op \in some
      PROVE  LastIs(joined, l, some)
  <2> DEFINE last == LastOf(RecordsOf(joined, l))
  <2>1. last \in DOMAIN joined /\ joined[last].id = l /\ Len(old) + k <= last
        /\ RecordsOf(joined, l) # {}
    BY <1>1, <1>2, <1>4, LastRecord
  <2>2. last \notin DOMAIN old
    <3>1. Len(old) \in Nat /\ k \in Nat /\ k > 0 /\ DOMAIN old = 1..Len(old)
      OBVIOUS
    <3>2. last \in Nat
      BY <1>1, <2>1
    <3> HIDE DEF last
    <3> QED
      BY <2>1, <3>1, <3>2
  <2>3. PICK j \in DOMAIN more : joined[last] = more[j]
    BY <1>2, <2>1, <2>2
  <2> QED
    BY <1>4, <2>1, <2>3 DEF LastIs
<1> QED
  BY <1>3, <1>4

\* No request is changing elements or what the log says of them.
Settled == ~Adding /\ ~At("add", "map") /\ ~At("delete", "unmap") /\ ~At("delete", "mark")

LEMMA SettledMeans ==
  ASSUME Settled
  PROVE  Pending = {} /\ Dropping = {} /\ ~Ahead /\ ~At("add", "graph")
  BY DEF Settled, Pending, Dropping, Ahead, Adding, At, WithIds

\* Steps that change neither graphs nor log nor vectors.
LEMMA BesideLog ==
  ASSUME LogCovers, Replays, UNCHANGED <<Image, disk, wal, vec>>,
         Pending \subseteq Pending', Dropping' = Dropping, op.stage # "clear",
         ~At("add", "graph")', ~At("add", "map")',
         Adding' => Adding /\ BatchLabels' = BatchLabels /\ mem' = mem,
         Ahead => Ahead' /\ BatchLabels' = BatchLabels
  PROVE  LogCovers' /\ Replays'
<1>1. LogCovers'
  BY DEF LogCovers
<1>2. ASSUME AddsIn(wal) = {}
      PROVE  Replays'
  <2>1. RecordsReplay /\ MarksReplay /\ VectorsReplay /\ NothingNew
    BY <1>2 DEF Replays
  <2>2. \A l, o : Logged(wal, l, o)' <=> Logged(wal, l, o)
    BY DEF Logged
  <2>3. RecordsReplay'
    BY <2>1 DEF RecordsReplay
  <2>4. MarksReplay'
    BY <2>1, <2>2 DEF MarksReplay
  <2>5. VectorsReplay'
    BY <2>1, <2>2 DEF VectorsReplay
  <2>6. NothingNew'
    BY <2>1 DEF NothingNew
  <2> QED
    BY <2>3, <2>4, <2>5, <2>6 DEF Replays
<1>3. AddsIn(wal) # {} => Replays'
  BY DEF Replays
<1> QED
  BY <1>1, <1>2, <1>3

LEMMA BesideSteps ==
  ASSUME WellMeant, Typed, Typed', PlainInv,
         \/ \E t \in Threads, objs \in Batches : BeginAdd(t, objs)
         \/ AddTakesDeleted \/ AddTakesFresh \/ AddStoresMeta \/ AddStoresFilters
         \/ \E n \in Names : DeleteByName(n)
         \/ \E t \in Tags : DeleteByFilter(t)
         \/ DeleteUnmaps
         \/ \E n \in Names, t \in UpdateTags : BeginRetag(n, t)
         \/ RetagRemoves \/ RetagStoresMeta \/ RetagAdds
         \/ BeginSave \/ SaveWhenLong \/ AnswerWhenShort \/ SaveCounts \/ Evict \/ Load
  PROVE  LogCovers' /\ Replays'
<1> USE DEF stores, log, graphs, ids, rest
<1>1. LogCovers /\ Replays /\ SavedUnlessUpdated /\ OpShape
  BY DEF PlainInv, Typed
<1>2. UNCHANGED <<disk, wal, vec>> /\ (Evict \/ Load \/ SaveImage \/ UNCHANGED <<mem, disk, loaded>>)
  <2>1. CASE DeleteUnmaps
    BY <2>1 DEF DeleteUnmaps
  <2>2. CASE (\E n \in Names : DeleteByName(n)) \/ (\E t \in Tags : DeleteByFilter(t))
    <3>1. PICK labels, names : BeginDelete(labels, names)
      BY <2>2 DEF DeleteByName, DeleteByFilter
    <3> QED
      BY <3>1 DEF BeginDelete
  <2> QED
    BY <2>1, <2>2 DEF BeginAdd, AddTakesDeleted, AddTakesFresh, AddStoresMeta, AddStoresFilters,
       BeginRetag, RetagRemoves, RetagStoresMeta, RetagAdds, BeginSave, SaveWhenLong,
       AnswerWhenShort, SaveCounts, Evict, Load
<1>3. Image' = Image
  BY <1>2, ImageStays
<1>4. CASE op.stage # "clear" /\ Settled /\ Settled'
  <2>1. Pending = {} /\ Dropping = {} /\ ~Ahead /\ ~Adding
    BY <1>4, SettledMeans DEF Settled
  <2>2. /\ Pending' = {} /\ Dropping' = {} /\ ~At("add", "graph")' /\ ~At("add", "map")'
        /\ ~Adding'
    BY <1>4 DEF Settled, Pending, Dropping, Ahead, Adding, At, WithIds
  <2> QED
    BY <1>1, <1>2, <1>3, <1>4, <2>1, <2>2, BesideLog
<1>5. CASE \/ \E t \in Threads, objs \in Batches : BeginAdd(t, objs)
           \/ \E n \in Names, t \in UpdateTags : BeginRetag(n, t)
           \/ BeginSave \/ Evict \/ Load
  <2>1. op.kind = "none" /\ op.stage = "none"
    BY <1>1, <1>5 DEF BeginAdd, BeginRetag, Begin, BeginSave, Evict, Load, Idle, OpShape
  <2>2. \/ op'.kind \in {"retag", "save"}
        \/ op'.kind = "add" /\ op'.stage = "ids"
        \/ op' = op
    <3>1. CASE Load
      BY <1>1, <3>1 DEF Load, SavedUnlessUpdated, OpShape
    <3>2. CASE \E t \in Threads, objs \in Batches : BeginAdd(t, objs)
      BY <3>2 DEF BeginAdd, Begin, NoOp
    <3>3. ASSUME NEW n \in Names, NEW t \in UpdateTags, BeginRetag(n, t) PROVE op'.kind = "retag"
      BY <3>3 DEF BeginRetag, Begin, NoOp
    <3>4. CASE BeginSave
      <4>1. op'.kind = "save"
        BY <3>4 DEF BeginSave, NoOp
      <4> QED
        BY <4>1
    <3>5. CASE Evict
      BY <3>5 DEF Evict
    <3> QED
      BY <1>5, <3>1, <3>2, <3>3, <3>4, <3>5
  <2> QED
    BY <1>4, <2>1, <2>2 DEF Settled, Adding, WithIds, At
<1>6. CASE AddTakesDeleted \/ AddTakesFresh
  <2>1. op.kind = "add" /\ op.stage = "ids" /\ (op' = op \/ Moved("logIds"))
    BY <1>6, GoToMoves DEF AddTakesDeleted, AddTakesFresh, At
  <2> QED
    BY <1>4, <2>1 DEF Settled, Adding, WithIds, At, Moved
<1>7. CASE RetagRemoves \/ RetagStoresMeta
  <2>1. op.kind = "retag" /\ op.stage # "clear" /\ op'.kind = "retag"
    BY <1>7, GoToMoves DEF RetagRemoves, RetagStoresMeta, At, Moved
  <2> QED
    BY <1>4, <2>1 DEF Settled, Adding, At
<1>8. CASE RetagAdds \/ AnswerWhenShort \/ SaveCounts
  <2>1. op' = NoOp /\ ((op.kind = "retag" /\ op.stage = "tag") \/ op.stage \in {"saveCheck", "count"})
    BY <1>8 DEF RetagAdds, AnswerWhenShort, SaveCounts, Answer, At
  <2> QED
    BY <1>4, <2>1 DEF Settled, Adding, WithIds, At, NoOp
<1>9. CASE SaveWhenLong
  <2>1. op.stage = "saveCheck" /\ op'.stage = "image"
    BY <1>9, GoToMoves DEF SaveWhenLong, Moved
  <2> QED
    BY <1>4, <2>1 DEF Settled, Adding, WithIds, At
<1>10. CASE AddStoresMeta \/ AddStoresFilters
  <2>1. /\ op.kind = "add" /\ op.stage \in {"meta", "filters"}
        /\ op'.kind = "add" /\ op'.stage \in {"filters", "logOps"} /\ op'.ids = op.ids
        /\ UNCHANGED mem
    BY <1>10, GoToMoves DEF AddStoresMeta, AddStoresFilters, At, Moved
  <2>2. Adding /\ Ahead /\ Ahead' /\ BatchLabels' = BatchLabels
    BY <2>1 DEF Adding, Ahead, WithIds, BatchLabels
  <2>3. Pending' = Pending /\ Dropping' = Dropping
    BY <2>1, <2>2 DEF Pending, Dropping, Adding, WithIds, At
  <2> QED
    BY <1>1, <1>2, <1>3, <2>1, <2>2, <2>3, BesideLog DEF At
<1>11. CASE (\E n \in Names : DeleteByName(n)) \/ (\E t \in Tags : DeleteByFilter(t))
  <2>1. PICK labels, names : BeginDelete(labels, names)
    BY <1>11 DEF DeleteByName, DeleteByFilter
  <2>2. op.kind = "none" /\ op.stage = "none" /\ op'.kind = "delete" /\ op'.stage = "unmap" /\ op'.pos = 1
    BY <1>1, <2>1 DEF BeginDelete, Begin, Idle, OpShape, NoOp
  <2>3. Pending = {} /\ Dropping = {} /\ ~Ahead /\ ~Adding' /\ ~At("add", "graph")' /\ ~At("add", "map")'
    BY <2>2 DEF Pending, Dropping, Ahead, Adding, At
  <2>4. Dropping' = {}
    <3>1. \A j \in DOMAIN op'.ids : ~(j < 1)
      BY DEF Typed, Ops
    <3> QED
      BY <2>2, <3>1 DEF Dropping
  <2> QED
    BY <1>1, <1>2, <1>3, <2>2, <2>3, <2>4, BesideLog
<1>12. CASE DeleteUnmaps
  <2>1. /\ op.kind = "delete" /\ op.stage = "unmap" /\ op'.kind = "delete" /\ op'.stage = "mark"
        /\ op'.ids = op.ids /\ op'.pos = op.pos
    BY <1>12, UnmapsDeleted DEF Moved
  <2>2. BatchLabels' = BatchLabels
    BY <2>1 DEF BatchLabels
  <2>3. Pending' = Pending /\ Dropping' = Dropping /\ ~Ahead /\ ~Adding' /\ ~At("add", "graph")'
        /\ ~At("add", "map")'
    BY <2>1, <2>2 DEF Pending, Dropping, Ahead, Adding, At
  <2> QED
    BY <1>1, <1>2, <1>3, <2>1, <2>3, BesideLog
<1> QED
  BY <1>5, <1>6, <1>7, <1>8, <1>9, <1>10, <1>11, <1>12

\* A save writes the graph, and then clears the log.
LEMMA SavesKeepLog ==
  ASSUME WellMeant, IndexInv, Typed, PlainInv, SaveImage \/ SaveClearsWal
  PROVE  LogCovers' /\ Replays'
<1>1. SavedBeforeCleared /\ OpShape /\ loaded \in BOOLEAN
  BY DEF IndexInv, Typed
<1>2. op.stage \in {"image", "clear"} /\ op.kind # "none"
  BY <1>1 DEF SaveImage, SaveClearsWal, OpShape
<1>3. loaded /\ Image = mem
  BY <1>2, ImageIsMem
<1>4. op'.stage \in {"clear", "count"}
  BY GoToMoves DEF SaveImage, SaveClearsWal, Moved
<1>5. /\ Pending' = {} /\ Dropping' = {} /\ ~Ahead' /\ ~At("add", "graph")' /\ ~At("add", "map")'
      /\ ~Adding'
  BY <1>4 DEF Pending, Dropping, Ahead, Adding, WithIds, At
<1>6. Image' = disk'
  <2>1. mem' = mem /\ loaded' = loaded /\ disk' = mem
    BY <1>1 DEF SaveImage, SaveClearsWal, graphs, SavedBeforeCleared
  <2> QED
    BY <1>3, <2>1 DEF Image
<1>7. LogCovers'
  BY <1>5, <1>6 DEF LogCovers
<1>8. CASE SaveImage
  <2>1. op'.stage = "clear"
    BY <1>8, GoToMoves DEF SaveImage, Moved
  <2> QED
    BY <1>7, <2>1 DEF Replays
<1>9. CASE SaveClearsWal
  <2>1. wal' = <<>>
    BY <1>9 DEF SaveClearsWal
  <2>2. \A l, o : ~Logged(wal, l, o)'
    BY <2>1 DEF Logged
  <2>3. RecordsReplay' /\ NothingNew'
    BY <1>5, <2>1 DEF RecordsReplay, NothingNew
  <2>4. MarksReplay' /\ VectorsReplay'
    BY <1>5, <1>6, <2>2 DEF MarksReplay, VectorsReplay
  <2> QED
    BY <1>7, <2>3, <2>4 DEF Replays
<1> QED
  BY <1>8, <1>9

\* An element is marked: its deletion is still to be logged.
LEMMA MarkKeepsLog ==
  ASSUME WellMeant, Typed, PlainInv, DeleteMarks
  PROVE  LogCovers' /\ Replays'
<1>1. LogCovers /\ Replays
  BY DEF PlainInv
<1>2. /\ op.kind = "delete" /\ op.stage = "mark" /\ MoreToDelete
      /\ mem' = MarkDelete(mem, Deleted) /\ mem.mark[Deleted] = "live"
      /\ op'.kind = "delete" /\ op'.stage = "unmap" /\ op'.pos = op.pos + 1
      /\ op'.ids = op.ids
      /\ UNCHANGED <<vec, disk, loaded, wal>>
  BY MarksDeleted DEF log
<1>3. op.ids \in Seq(Labels) /\ op.pos \in DOMAIN op.ids /\ op.pos \in Nat /\ Deleted \in Labels
  BY <1>2, DroppedName DEF Deleted
<1>4. loaded /\ Image = mem /\ Image' = mem'
  BY <1>2, ImageIsMem DEF Image
<1>5. /\ \A l \in Labels : mem'.mark[l] = IF l = Deleted THEN "deleted" ELSE mem.mark[l]
      /\ mem'.at = mem.at
  BY <1>2 DEF MarkDelete, Typed, Graphs
<1>6. /\ Pending = BatchLabels /\ Pending' = BatchLabels /\ Deleted \in BatchLabels
      /\ ~Adding /\ ~Adding' /\ ~Ahead /\ ~Ahead' /\ ~At("add", "graph")' /\ ~At("add", "map")'
  BY <1>2, <1>3 DEF Pending, BatchLabels, Deleted, Adding, Ahead, At
<1>7. Dropping' = Dropping \cup {Deleted} /\ Dropping \subseteq Labels
  <2>1. \A j \in DOMAIN op.ids : j < op.pos + 1 <=> j < op.pos \/ j = op.pos
    BY <1>3
  <2>2. Dropping = {op.ids[i] : i \in {j \in DOMAIN op.ids : j < op.pos}}
    BY <1>2 DEF Dropping, At
  <2>3. Dropping' = {op.ids[i] : i \in {j \in DOMAIN op.ids : j < op.pos + 1}}
    BY <1>2 DEF Dropping, At
  <2> QED
    BY <1>3, <2>1, <2>2, <2>3 DEF Deleted
<1>8. Deleted \notin Dropping
  BY <1>1, <1>2, <1>4 DEF LogCovers
<1>9. LogCovers'
  <2>1. \A l \in Labels \ Pending' : Image'.mark[l] = Image.mark[l] /\ Image'.at[l] = Image.at[l]
    BY <1>4, <1>5, <1>6
  <2>2. \A l \in Dropping' : Image'.mark[l] = "deleted"
    BY <1>1, <1>3, <1>4, <1>5, <1>7 DEF LogCovers
  <2> QED
    BY <1>1, <1>2, <1>6, <2>1, <2>2 DEF LogCovers
<1>10. ASSUME AddsIn(wal) = {}
       PROVE  Replays'
  <2>1. RecordsReplay /\ MarksReplay /\ VectorsReplay
    BY <1>1, <1>2, <1>10 DEF Replays
  <2>2. \A l, o : Logged(wal, l, o)' <=> Logged(wal, l, o)
    BY <1>2 DEF Logged
  <2>3. RecordsReplay' /\ NothingNew'
    BY <1>2, <1>6, <2>1 DEF RecordsReplay, NothingNew
  <2>4. ~Logged(wal, Deleted, "DELETE") /\ disk.mark[Deleted] = "live"
    BY <1>2, <1>3, <1>4, <1>8, <2>1 DEF MarksReplay
  <2>5. MarksReplay'
    <3>1. \A l \in Labels \ Dropping' :
            Image'.mark[l] = IF Logged(wal, l, "DELETE")' THEN "deleted" ELSE disk'.mark[l]
      BY <1>2, <1>4, <1>5, <1>7, <2>1, <2>2 DEF MarksReplay
    <3>2. \A l \in Dropping' : ~Logged(wal, l, "DELETE")' /\ disk'.mark[l] = "live"
      BY <1>2, <1>7, <2>1, <2>2, <2>4 DEF MarksReplay
    <3> QED
      BY <3>1, <3>2 DEF MarksReplay
  <2>6. VectorsReplay'
    BY <1>2, <1>4, <1>5, <1>6, <2>1, <2>2 DEF VectorsReplay
  <2> QED
    BY <2>3, <2>5, <2>6 DEF Replays
<1>11. AddsIn(wal) # {} => Replays'
  BY <1>2 DEF Replays
<1> QED
  BY <1>9, <1>10, <1>11

\* The ids a batch has taken are labels.
LEMMA TakenAreLabels ==
  ASSUME IndexInv
  PROVE  batch.alloc \in Seq(Labels)
<1>1. batch.alloc \in Seq(Nat) /\ IdsBelowNext /\ nextId <= MaxId + 1 /\ nextId \in Nat /\ MaxId \in Nat
  BY IdMapperAssumption DEF IndexInv, IdInv, IdTypeOK, IdsFit
<1>2. ASSUME NEW i \in DOMAIN batch.alloc PROVE batch.alloc[i] \in Labels
  <2>1. batch.alloc[i] \in 1..(nextId - 1)
    BY <1>1 DEF IdsBelowNext
  <2> QED
    BY <1>1, <2>1, IndexStoreAssumption
<1>3. batch.alloc = [i \in 1..Len(batch.alloc) |-> batch.alloc[i]] /\ Len(batch.alloc) \in Nat
      /\ DOMAIN batch.alloc = 1..Len(batch.alloc)
  BY <1>1
<1> QED
  BY <1>2, <1>3

\* The records of labels, one for each.
LEMMA RecordsOfLabels ==
  ASSUME NEW o \in WalOps, NEW labels \in Seq(Labels)
  PROVE  /\ Records(o, labels) \in Seq(WalRecords)
         /\ DOMAIN Records(o, labels) = DOMAIN labels
         /\ \A i \in DOMAIN labels : Records(o, labels)[i].op = o /\ Records(o, labels)[i].id = labels[i]
         /\ \A l \in Labels, p \in WalOps :
              Logged(Records(o, labels), l, p) <=> p = o /\ \E i \in DOMAIN labels : labels[i] = l
<1>1. Records(o, labels) \in Seq(WalRecords)
  BY RecordsAreRecords
<1>2. DOMAIN Records(o, labels) = DOMAIN labels
      /\ \A i \in DOMAIN labels : Records(o, labels)[i] = [op |-> o, id |-> labels[i]]
  BY DEF Records
<1>3. ASSUME NEW l \in Labels, NEW p \in WalOps
      PROVE  Logged(Records(o, labels), l, p) <=> p = o /\ \E i \in DOMAIN labels : labels[i] = l
  BY <1>2 DEF Logged
<1> QED
  BY <1>1, <1>2, <1>3

\* The new ids are logged: their elements are still to come.
LEMMA LogsIdsKeepsLog ==
  ASSUME WellMeant, IndexInv, Typed, PlainInv, AddLogsIds
  PROVE  LogCovers' /\ Replays'
<1>1. LogCovers /\ Replays
  BY DEF PlainInv
<1>2. /\ op.kind = "add" /\ op.stage = "logIds" /\ op'.kind = "add" /\ op'.stage = "map"
      /\ wal' = wal \o Records("ADD", batch.alloc)
      /\ UNCHANGED <<vec, mem, disk, loaded, batch>>
  BY GoToMoves DEF AddLogsIds, LogRecords, At, Moved, stores, graphs, ids
<1> DEFINE more == Records("ADD", batch.alloc)
<1>3. /\ batch.alloc \in Seq(Labels) /\ wal \in Seq(WalRecords) /\ more \in Seq(WalRecords)
      /\ DOMAIN more = DOMAIN batch.alloc
      /\ \A i \in DOMAIN batch.alloc : more[i].op = "ADD" /\ more[i].id = batch.alloc[i]
  BY TakenAreLabels, RecordsOfLabels DEF Typed, WalOps
<1>4. /\ Pending = {} /\ Dropping = {} /\ Dropping' = {} /\ ~Ahead /\ ~Ahead' /\ ~Adding'
      /\ ~At("add", "graph")' /\ Image' = Image
      /\ Pending' = {batch.alloc[i] : i \in DOMAIN batch.alloc}
  BY <1>2 DEF Pending, Dropping, Ahead, Adding, WithIds, At, Image
<1> HIDE DEF more
<1>5. wal' = wal \o more
  BY <1>2 DEF more
<1>6. LogCovers'
  <2>1. ASSUME NEW l \in Labels \ Pending', NEW some, LastIs(wal, l, some)
        PROVE  LastIs(wal', l, some)
    <3>1. \A i \in DOMAIN more : more[i].id # l
      BY <1>3, <1>4, <2>1
    <3> QED
      BY <1>3, <1>5, <2>1, <3>1, JoinedLast
  <2> QED
    BY <1>1, <1>2, <1>4, <2>1 DEF LogCovers
<1>7. ASSUME AddsIn(wal') = {}
      PROVE  Replays'
  <2>1. AddsIn(wal) = {} /\ AddsIn(more) = {}
    BY <1>3, <1>5, <1>7, JoinedLog
  <2>2. DOMAIN batch.alloc = {}
    BY <1>3, <2>1 DEF AddsIn
  <2>3. batch.alloc = <<>> /\ more = <<>>
    BY <1>3, <2>2, NothingIn
  <2>4. wal' = wal
    BY <1>3, <1>5, <2>3
  <2>5. RecordsReplay /\ MarksReplay /\ VectorsReplay
    BY <1>1, <1>2, <2>1 DEF Replays
  <2>6. \A l, o : Logged(wal, l, o)' <=> Logged(wal, l, o)
    BY <2>4 DEF Logged
  <2>7. RecordsReplay' /\ NothingNew'
    BY <1>2, <1>4, <2>3, <2>4, <2>5 DEF RecordsReplay, NothingNew
  <2>8. MarksReplay' /\ VectorsReplay'
    BY <1>2, <1>4, <2>5, <2>6 DEF MarksReplay, VectorsReplay
  <2> QED
    BY <2>7, <2>8 DEF Replays
<1>8. AddsIn(wal') # {} => Replays'
  BY DEF Replays
<1> QED
  BY <1>6, <1>7, <1>8

\* A deletion logs what it marked.
LEMMA DeleteLogsKeepsLog ==
  ASSUME WellMeant, Typed, PlainInv, DeleteLogs
  PROVE  LogCovers' /\ Replays'
<1>1. LogCovers /\ Replays /\ DeleteDrops
  BY DEF PlainInv
<1>2. /\ op.kind = "delete" /\ op.stage = "unmap" /\ ~MoreToDelete
      /\ op'.kind = "delete" /\ op'.stage = "saveCheck"
      /\ wal' = wal \o Records("DELETE", op.ids)
      /\ UNCHANGED <<vec, mem, disk, loaded>>
  BY GoToMoves DEF DeleteLogs, LogRecords, At, Moved, stores
<1> DEFINE more == Records("DELETE", op.ids)
<1>3. /\ op.ids \in Seq(Labels) /\ wal \in Seq(WalRecords) /\ more \in Seq(WalRecords)
      /\ DOMAIN more = DOMAIN op.ids
      /\ \A i \in DOMAIN op.ids : more[i].op = "DELETE" /\ more[i].id = op.ids[i]
      /\ \A l \in Labels, p \in WalOps :
           Logged(more, l, p) <=> p = "DELETE" /\ \E i \in DOMAIN op.ids : op.ids[i] = l
  BY RecordsOfLabels DEF Typed, WalOps, Ops
<1>4. Dropping = BatchLabels /\ Pending = BatchLabels
  <2>1. \A j \in DOMAIN op.ids : j < op.pos
    <3>1. op.pos \in Nat /\ op.pos > Len(op.ids)
      BY <1>2 DEF MoreToDelete, Typed, Ops
    <3> QED
      BY <1>3, <3>1
  <2> QED
    BY <1>2, <2>1 DEF Dropping, Pending, BatchLabels, At, Adding
<1>5. /\ Pending' = {} /\ Dropping' = {} /\ ~Ahead /\ ~Ahead' /\ ~Adding' /\ Image' = Image
      /\ ~At("add", "graph")' /\ ~At("add", "map")'
  BY <1>2 DEF Pending, Dropping, Ahead, Adding, WithIds, At, Image
<1> HIDE DEF more
<1>6. wal' = wal \o more
  BY <1>2 DEF more
<1>7. LogCovers'
  <2>1. ASSUME NEW l \in Labels \ BatchLabels, NEW some, LastIs(wal, l, some)
        PROVE  LastIs(wal', l, some)
    <3>1. \A i \in DOMAIN more : more[i].id # l
      BY <1>3, <2>1 DEF BatchLabels
    <3> QED
      BY <1>3, <1>6, <2>1, <3>1, JoinedLast
  <2>2. ASSUME NEW l \in BatchLabels
        PROVE  LastIs(wal', l, {"DELETE"}) /\ Image.mark[l] = "deleted"
    <3>1. l \in Labels /\ \E i \in DOMAIN more : more[i].id = l
      BY <1>3, <2>2 DEF BatchLabels
    <3>2. \A i \in DOMAIN more : more[i].id = l => more[i].op \in {"DELETE"}
      BY <1>3
    <3> QED
      BY <1>1, <1>3, <1>4, <1>6, <2>2, <3>1, <3>2, JoinedLast DEF LogCovers
  <2> QED
    BY <1>1, <1>2, <1>4, <1>5, <2>1, <2>2 DEF LogCovers
<1>8. ASSUME AddsIn(wal') = {}
      PROVE  Replays'
  <2>1. AddsIn(wal) = {}
    BY <1>3, <1>6, <1>8, JoinedLog
  <2>2. RecordsReplay /\ MarksReplay /\ VectorsReplay
    BY <1>1, <1>2, <2>1 DEF Replays
  <2>3. \A l \in Labels, o \in WalOps : Logged(wal', l, o) <=> Logged(wal, l, o) \/ Logged(more, l, o)
    BY <1>3, <1>6, JoinedLog
  <2>4. \A l \in Labels : /\ Logged(wal', l, "DELETE") <=> Logged(wal, l, "DELETE") \/ l \in BatchLabels
                          /\ Logged(wal', l, "UPDATE") <=> Logged(wal, l, "UPDATE")
    <3>1. "UPDATE" \in WalOps /\ "DELETE" \in WalOps
      BY DEF WalOps
    <3> QED
      BY <1>3, <2>3, <3>1 DEF BatchLabels
  <2>5. \A i \in DOMAIN wal' :
          \/ i \in DOMAIN wal /\ wal'[i] = wal[i]
          \/ \E j \in DOMAIN more : i = Len(wal) + j /\ wal'[i] = more[j]
    <3>1. wal \in Seq(WalRecords) /\ more \in Seq(WalRecords)
      BY <1>3
    <3> QED
      BY <1>6, <3>1, JoinedAt
  <2>10. /\ \A i \in DOMAIN wal : disk.mark[wal[i].id] = "live"
         /\ \A i \in DOMAIN wal : wal[i].op = "UPDATE" => vec[wal[i].id] # NoVec
         /\ \A i, j \in DOMAIN wal : i < j /\ wal[i].id = wal[j].id => wal[i].op = "UPDATE"
    BY <2>2 DEF RecordsReplay
  <2>6. RecordsReplay'
    <3>1. ASSUME NEW i \in DOMAIN wal'
          PROVE  /\ disk'.mark[wal'[i].id] = "live"
                 /\ wal'[i].op = "UPDATE" => vec'[wal'[i].id] # NoVec
      <4>1. CASE i \in DOMAIN wal /\ wal'[i] = wal[i]
        <5>1. disk.mark[wal[i].id] = "live" /\ (wal[i].op = "UPDATE" => vec[wal[i].id] # NoVec)
          BY <2>10, <4>1
        <5> QED
          BY <1>2, <4>1, <5>1
      <4>2. ASSUME NEW j \in DOMAIN more, wal'[i] = more[j]
            PROVE  disk'.mark[wal'[i].id] = "live" /\ wal'[i].op # "UPDATE"
        <5>1. wal'[i].id \in BatchLabels /\ wal'[i].op = "DELETE"
          BY <1>3, <4>2 DEF BatchLabels
        <5> QED
          BY <1>2, <1>4, <2>2, <5>1 DEF MarksReplay
      <4> QED
        BY <2>5, <4>1, <4>2
    <3>2. ASSUME NEW i \in DOMAIN wal', NEW j \in DOMAIN wal', i < j, wal'[i].id = wal'[j].id
          PROVE  wal'[i].op = "UPDATE"
      <4>1. CASE i \in DOMAIN wal /\ wal'[i] = wal[i] /\ j \in DOMAIN wal /\ wal'[j] = wal[j]
        BY <2>2, <3>2, <4>1 DEF RecordsReplay
      <4>2. ASSUME i \in DOMAIN wal, wal'[i] = wal[i], NEW m \in DOMAIN more, wal'[j] = more[m]
            PROVE  wal'[i].op = "UPDATE"
        <5>1. wal[i].id \in BatchLabels
          BY <1>3, <3>2, <4>2 DEF BatchLabels
        <5>2. ~Logged(wal, wal[i].id, "DELETE")
          BY <1>4, <2>2, <5>1 DEF MarksReplay
        <5>3. wal[i] \in WalRecords
          BY <1>3, <4>2
        <5>4. wal[i].op \in WalOps /\ wal[i] = [op |-> wal[i].op, id |-> wal[i].id]
          BY <5>3 DEF WalRecords
        <5>5. wal[i].op # "DELETE"
          BY <4>2, <5>2, <5>4 DEF Logged
        <5>6. wal[i].op # "ADD"
          BY <2>1, <4>2 DEF AddsIn
        <5> QED
          BY <4>2, <5>4, <5>5, <5>6 DEF WalOps
      <4>3. ASSUME NEW k \in DOMAIN more, i = Len(wal) + k, wal'[i] = more[k]
            PROVE  FALSE
        <5>1. i > Len(wal) /\ j > Len(wal)
          <6>1. Len(wal) \in Nat /\ k \in Nat /\ k > 0
            BY <1>3
          <6>2. i \in Nat /\ j \in Nat
            BY <1>3, <1>6
          <6> QED
            BY <3>2, <4>3, <6>1, <6>2
        <5>2. j \notin DOMAIN wal
          BY <1>3, <5>1
        <5>3. PICK m \in DOMAIN more : j = Len(wal) + m /\ wal'[j] = more[m]
          BY <2>5, <5>2
        <5>4. op.ids[k] = op.ids[m] /\ k \in DOMAIN op.ids /\ m \in DOMAIN op.ids
          BY <1>3, <3>2, <4>3, <5>3
        <5>5. k = m
          BY <1>1, <1>2, <5>4 DEF DeleteDrops
        <5>6. i = j
          BY <4>3, <5>3, <5>5
        <5>7. i \in Nat /\ j \in Nat
          BY <1>3, <1>6
        <5> QED
          BY <3>2, <5>6, <5>7
      <4> QED
        BY <2>5, <4>1, <4>2, <4>3
    <3> QED
      BY <3>1, <3>2 DEF RecordsReplay
  <2>7. MarksReplay'
    <3>1. ASSUME NEW l \in Labels
          PROVE  Image'.mark[l] = IF Logged(wal', l, "DELETE") THEN "deleted" ELSE disk'.mark[l]
      <4>1. CASE l \in BatchLabels
        BY <1>1, <1>4, <1>5, <2>4, <3>1, <4>1 DEF LogCovers
      <4>2. CASE l \notin BatchLabels
        BY <1>2, <1>4, <1>5, <2>2, <2>4, <3>1, <4>2 DEF MarksReplay
      <4> QED
        BY <4>1, <4>2
    <3> QED
      BY <1>5, <3>1 DEF MarksReplay
  <2>8. VectorsReplay'
    BY <1>2, <1>5, <2>2, <2>4 DEF VectorsReplay
  <2>9. NothingNew'
    BY <1>5 DEF NothingNew
  <2> QED
    BY <2>6, <2>7, <2>8, <2>9 DEF Replays
<1>9. AddsIn(wal') # {} => Replays'
  BY DEF Replays
<1> QED
  BY <1>7, <1>8, <1>9

\* An insert that stores its vectors is ahead of the graph.
LEMMA VectorsKeepLog ==
  ASSUME WellMeant, Typed, PlainInv, AddStoresVectors
  PROVE  LogCovers' /\ Replays'
<1>1. LogCovers /\ Replays /\ OpMeant /\ AddMapped
  BY DEF PlainInv
<1>2. /\ op.kind = "add" /\ op.stage = "vectors" /\ op'.kind = "add" /\ op'.stage = "meta"
      /\ op'.ids = op.ids /\ UNCHANGED <<wal, mem, disk, loaded>>
      /\ vec' = [l \in Labels |-> IF l \in BatchLabels THEN LastFor(l).vec ELSE vec[l]]
  BY GoToMoves DEF AddStoresVectors, At, Moved, log, graphs
<1>3. /\ Adding /\ ~Ahead /\ Ahead' /\ Adding' /\ Pending = BatchLabels /\ BatchLabels' = BatchLabels
      /\ Dropping = {} /\ Dropping' = {} /\ ~At("add", "graph")' /\ ~At("add", "map")'
      /\ Image' = Image
  BY <1>2 DEF Adding, Ahead, WithIds, Pending, BatchLabels, Dropping, At, Image
<1>4. Pending' = BatchLabels
  BY <1>2, <1>3 DEF Pending, At
<1>5. LogCovers'
  BY <1>1, <1>2, <1>3, <1>4 DEF LogCovers
<1>6. ASSUME NEW l \in BatchLabels
      PROVE  vec'[l] # NoVec
  <2>1. PICK i \in DOMAIN op.ids : l = op.ids[i]
    BY DEF BatchLabels
  <2>2. l \in Labels /\ LastFor(l) = op.objs[i] /\ i \in DOMAIN op.objs /\ op.objs \in Seq(Objects)
    BY <1>1, <1>3, <2>1, AddIds
  <2>3. op.objs[i] \in Objects
    BY <2>2
  <2>4. op.objs[i].vec \in Vecs
    BY <2>3 DEF Objects
  <2> QED
    BY <1>2, <2>2, <2>4, HnswAssumption
<1>7. ASSUME AddsIn(wal) = {}
      PROVE  Replays'
  <2>1. RecordsReplay /\ MarksReplay /\ VectorsReplay /\ NothingNew
    BY <1>1, <1>2, <1>7 DEF Replays
  <2>2. \A l, o : Logged(wal, l, o)' <=> Logged(wal, l, o)
    BY <1>2 DEF Logged
  <2>3. RecordsReplay'
    <3>1. ASSUME NEW i \in DOMAIN wal, wal[i].op = "UPDATE" PROVE vec'[wal[i].id] # NoVec
      <4>1. wal[i] \in WalRecords
        BY DEF Typed
      <4>2. wal[i].id \in Labels /\ vec[wal[i].id] # NoVec
        BY <2>1, <3>1, <4>1 DEF RecordsReplay, WalRecords
      <4> QED
        BY <1>2, <1>6, <4>2
    <3>2. /\ \A i \in DOMAIN wal : disk.mark[wal[i].id] = "live"
          /\ \A i, j \in DOMAIN wal : i < j /\ wal[i].id = wal[j].id => wal[i].op = "UPDATE"
      BY <2>1 DEF RecordsReplay
    <3> QED
      BY <1>2, <3>1, <3>2 DEF RecordsReplay
  <2>4. MarksReplay'
    BY <1>2, <1>3, <2>1, <2>2 DEF MarksReplay
  <2>5. VectorsReplay'
    BY <1>2, <1>3, <2>1, <2>2 DEF VectorsReplay
  <2>6. NothingNew'
    BY <1>2, <1>3, <2>1 DEF NothingNew
  <2> QED
    BY <2>3, <2>4, <2>5, <2>6 DEF Replays
<1>8. AddsIn(wal) # {} => Replays'
  BY <1>2 DEF Replays
<1> QED
  BY <1>5, <1>7, <1>8

\* Each of the ids taken goes to some position of the batch.
LEMMA RanksAll ==
  ASSUME NEW old \in Seq(Nat), NEW k \in 1..Cardinality(NewAt(old))
  PROVE  \E i \in NewAt(old) : Rank(old, i) = k
<1> DEFINE S == NewAt(old)
           n == Cardinality(S)
           T == {Rank(old, i) : i \in S}
           f == [i \in S |-> Rank(old, i)]
<1>1. IsFiniteSet(S) /\ n \in Nat /\ S \subseteq Nat
  BY NewAtFinite
<1>2. T \subseteq 1..n
  BY RankInRange
<1>3. \A i, j \in S : Rank(old, i) = Rank(old, j) => i = j
  <2>1. ASSUME NEW i \in S, NEW j \in S, Rank(old, i) = Rank(old, j), i # j PROVE FALSE
    <3>1. i < j \/ j < i
      BY <1>1, <2>1
    <3> QED
      BY <2>1, <3>1, RankInjective
  <2> QED
    BY <2>1
<1>4. f \in Bijection(S, T)
  BY <1>3 DEF Bijection, Injection, Surjection, IsInjective
<1> HIDE DEF S, T, f
<1>5. ExistsBijection(S, T)
  BY <1>4 DEF ExistsBijection
<1>6. Cardinality(T) = Cardinality(S)
  BY <1>1, <1>5, FS_Bijection
<1>7. IsFiniteSet(1..n) /\ Cardinality(1..n) = n
  BY <1>1, FS_Interval
<1>8. T = 1..n
  BY <1>2, <1>6, <1>7, FS_Subset
<1> QED
  BY <1>8 DEF T, S

\* The mappings are written: what was taken belongs to the batch.
LEMMA MappingsKeepLog ==
  ASSUME WellMeant, IndexInv, Typed, PlainInv, AddWritesMappings
  PROVE  LogCovers' /\ Replays'
<1>1. /\ LogCovers /\ Replays /\ OpMeant /\ LiveOwned /\ LookedUpHolds /\ BatchIsOps /\ TakenEnough
      /\ batch.reused \in Nat
  BY DEF PlainInv, IndexInv, IdInv, IdTypeOK
<1>2. /\ op.kind = "add" /\ op.stage = "map" /\ batch.stage = "allocated"
      /\ op'.kind = "add" /\ op'.stage = "vectors" /\ op'.ids = BatchIds
      /\ UNCHANGED <<wal, vec, mem, disk, loaded>>
  BY DEF AddWritesMappings, WriteMappings, At, Typed, Ops, stores, log, graphs
<1>3. /\ batch.names = NamesIn(op.objs) /\ op.objs \in Seq(Objects)
      /\ batch.old \in Seq(Nat) /\ batch.alloc \in Seq(Nat) /\ Len(batch.alloc) = Needed
  BY <1>1, <1>2 DEF BatchIsOps, OpMeant, Typed, Ops, TakenEnough
<1>4. /\ DOMAIN batch.old = DOMAIN batch.names /\ DOMAIN batch.names = DOMAIN op.objs
      /\ \A i \in DOMAIN batch.old : batch.old[i] = idmap[batch.names[i]] /\ batch.names[i] \in Names
  <2>1. DOMAIN batch.names = DOMAIN op.objs
    BY <1>3 DEF NamesIn
  <2>2. \A i \in DOMAIN batch.names : batch.names[i] \in Names
    BY DEF Typed
  <2> QED
    BY <1>1, <1>2, <2>1, <2>2 DEF LookedUpHolds
<1>5. /\ Adding' /\ ~Ahead' /\ ~Ahead /\ ~Adding /\ ~At("add", "graph")' /\ ~At("add", "map")'
      /\ At("add", "map") /\ Dropping = {} /\ Dropping' = {} /\ Image' = Image
      /\ Pending = {batch.alloc[i] : i \in DOMAIN batch.alloc}
  BY <1>2 DEF Adding, Ahead, WithIds, At, Dropping, Image, Pending
<1>6. BatchLabels' = {BatchIds[i] : i \in DOMAIN op.objs} /\ Pending' = BatchLabels'
  <2>1. DOMAIN BatchIds = DOMAIN op.objs
    BY <1>4 DEF BatchIds
  <2> QED
    BY <1>2, <1>5, <2>1 DEF BatchLabels, Pending, At
<1>7. Pending \subseteq Pending'
  <2>1. ASSUME NEW k \in DOMAIN batch.alloc
        PROVE  \E i \in DOMAIN op.objs : batch.alloc[k] = BatchIds[i]
    <3>1. k \in 1..Cardinality(NewAt(batch.old))
      BY <1>3 DEF Needed
    <3>2. PICK i \in NewAt(batch.old) : Rank(batch.old, i) = k
      BY <1>3, <3>1, RanksAll
    <3>3. i \in DOMAIN op.objs /\ batch.old[i] = NoId
      BY <1>4 DEF NewAt
    <3> QED
      BY <1>4, <3>2, <3>3 DEF BatchIds, IdAt
  <2> QED
    BY <1>5, <1>6, <2>1
<1>8. LogCovers'
  BY <1>1, <1>2, <1>5, <1>7 DEF LogCovers
<1>9. ASSUME AddsIn(wal) = {}
      PROVE  Replays'
  <2>1. RecordsReplay /\ MarksReplay /\ VectorsReplay /\ NothingNew
    BY <1>1, <1>2, <1>9 DEF Replays
  <2>2. \A l, o : Logged(wal, l, o)' <=> Logged(wal, l, o)
    BY <1>2 DEF Logged
  <2>3. RecordsReplay' /\ MarksReplay'
    BY <1>2, <1>5, <2>1, <2>2 DEF RecordsReplay, MarksReplay
  <2>4. VectorsReplay'
    BY <1>2, <1>5, <2>1, <2>2 DEF VectorsReplay
  <2>5. NewAt(batch.old) = {}
    <3>1. batch.alloc = <<>>
      BY <1>5, <2>1 DEF NothingNew
    <3>2. Cardinality(NewAt(batch.old)) = 0
      BY <1>3, <3>1 DEF Needed
    <3> QED
      BY <1>3, <3>2, NewAtFinite, FS_EmptySet
  <2>6. ASSUME NEW i \in DOMAIN op.objs PROVE mem.mark[BatchIds[i]] = "live"
    <3>1. BatchIds[i] = idmap[batch.names[i]] /\ idmap[batch.names[i]] # NoId /\ batch.names[i] \in Names
      BY <1>4, <2>5 DEF NewAt, BatchIds, IdAt
    <3>2. Image = mem
      BY <1>2, ImageIsMem
    <3> QED
      BY <1>1, <1>5, <3>1, <3>2 DEF LiveOwned
  <2>7. NothingNew'
    BY <1>2, <1>5, <1>6, <2>6 DEF NothingNew
  <2> QED
    BY <2>3, <2>4, <2>7 DEF Replays
<1>10. AddsIn(wal) # {} => Replays'
  BY <1>2 DEF Replays
<1> QED
  BY <1>8, <1>9, <1>10

\* An insert has logged what it brings to the graph.
LEMMA LogsOpsKeepsLog ==
  ASSUME WellMeant, IndexInv, Typed, PlainInv, AddLogsOps
  PROVE  LogCovers' /\ Replays'
<1>1. LogCovers /\ Replays /\ OpMeant /\ AddMapped /\ VecsStored
  BY DEF PlainInv
<1> DEFINE more == [i \in DOMAIN op.ids |->
                      [op |-> IF op.isNew[i] THEN "ADD" ELSE "UPDATE", id |-> op.ids[i]]]
<1>2. /\ op.kind = "add" /\ op.stage = "logOps" /\ op'.kind = "add" /\ op'.stage = "graph"
      /\ op'.ids = op.ids /\ UNCHANGED <<vec, mem, disk, loaded>>
      /\ wal' = wal \o more
  BY GoToMoves DEF AddLogsOps, At, Moved, stores, graphs
<1>3. /\ Adding /\ Ahead /\ Ahead' /\ Adding' /\ Pending = BatchLabels /\ BatchLabels' = BatchLabels
      /\ Dropping = {} /\ Dropping' = {} /\ At("add", "graph")' /\ ~At("add", "map")'
      /\ Image' = Image /\ Image = mem
  BY <1>2, ImageIsMem DEF Adding, Ahead, WithIds, Pending, BatchLabels, Dropping, At, Image
<1>4. Pending' = BatchLabels
  BY <1>2, <1>3 DEF Pending, At
<1>5. /\ wal \in Seq(WalRecords) /\ op.ids \in Seq(Labels) /\ DOMAIN more = DOMAIN op.ids
      /\ \A i \in DOMAIN op.ids : more[i].id = op.ids[i] /\ more[i].op \in {"ADD", "UPDATE"}
  BY DEF Typed, Ops
<1>6. more \in Seq(WalRecords)
  <2>1. \A i \in DOMAIN op.ids : op.ids[i] \in Labels
    BY <1>5
  <2>2. \A i \in DOMAIN op.ids :
          [op |-> IF op.isNew[i] THEN "ADD" ELSE "UPDATE", id |-> op.ids[i]] \in WalRecords
    BY <2>1 DEF WalRecords, WalOps
  <2>3. DOMAIN op.ids = 1..Len(op.ids) /\ Len(op.ids) \in Nat
    BY <1>5
  <2> QED
    BY <2>2, <2>3
<1> HIDE DEF more
<1>7. LogCovers'
  <2>1. ASSUME NEW l \in Labels \ BatchLabels, NEW some, LastIs(wal, l, some)
        PROVE  LastIs(wal', l, some)
    <3>1. \A i \in DOMAIN more : more[i].id # l
      BY <1>5, <2>1 DEF BatchLabels
    <3> QED
      BY <1>2, <1>5, <1>6, <2>1, <3>1, JoinedLast
  <2>2. ASSUME NEW l \in BatchLabels
        PROVE  LastIs(wal', l, {"ADD", "UPDATE"})
    <3>1. l \in Labels /\ \E i \in DOMAIN more : more[i].id = l
      BY <1>5, <2>2 DEF BatchLabels
    <3>2. \A i \in DOMAIN more : more[i].id = l => more[i].op \in {"ADD", "UPDATE"}
      BY <1>5
    <3> QED
      BY <1>2, <1>5, <1>6, <3>1, <3>2, JoinedLast
  <2>3. \A l \in Labels \ Pending' :
          <<Image'.mark[l], Image'.at[l]>> # <<disk'.mark[l], disk'.at[l]>> =>
            LastIs(wal', l, IF Image'.mark[l] = "deleted" THEN {"DELETE"} ELSE {"ADD", "UPDATE"})
    BY <1>1, <1>2, <1>3, <1>4, <2>1 DEF LogCovers
  <2> QED
    BY <1>3, <2>2, <2>3 DEF LogCovers
<1>8. ASSUME AddsIn(wal') = {}
      PROVE  Replays'
  <2>1. AddsIn(wal) = {} /\ AddsIn(more) = {}
    BY <1>2, <1>5, <1>6, <1>8, JoinedLog
  <2>2. RecordsReplay /\ MarksReplay /\ VectorsReplay /\ NothingNew
    BY <1>1, <1>2, <2>1 DEF Replays
  <2>3. \A i \in DOMAIN op.ids : more[i].op = "UPDATE"
    BY <1>5, <2>1 DEF AddsIn
  <2>4. \A l \in Labels, o \in WalOps : Logged(wal', l, o) <=> Logged(wal, l, o) \/ Logged(more, l, o)
    BY <1>2, <1>5, <1>6, JoinedLog
  <2>5. ASSUME NEW l \in Labels
        PROVE  /\ Logged(wal', l, "DELETE") <=> Logged(wal, l, "DELETE")
               /\ l \notin BatchLabels => (Logged(wal', l, "UPDATE") <=> Logged(wal, l, "UPDATE"))
    <3>1. "UPDATE" \in WalOps /\ "DELETE" \in WalOps
      BY DEF WalOps
    <3>2. ~Logged(more, l, "DELETE")
      BY <1>5, <2>3 DEF Logged
    <3>3. Logged(more, l, "UPDATE") => l \in BatchLabels
      <4>1. ASSUME NEW i \in DOMAIN more, more[i] = [op |-> "UPDATE", id |-> l]
            PROVE  l \in BatchLabels
        <5>1. more[i].id = l
          BY <4>1
        <5> QED
          BY <1>5, <4>1, <5>1 DEF BatchLabels
      <4> QED
        BY <4>1 DEF Logged
    <3> QED
      BY <2>4, <3>1, <3>2, <3>3
  <2>6. \A i \in DOMAIN wal' :
          \/ i \in DOMAIN wal /\ wal'[i] = wal[i]
          \/ \E j \in DOMAIN more : i = Len(wal) + j /\ wal'[i] = more[j]
    <3>1. wal' = wal \o more /\ wal \in Seq(WalRecords)
      BY <1>2, <1>5
    <3> QED
      BY <1>6, <3>1, JoinedAt
  <2>7. ASSUME NEW l \in BatchLabels
        PROVE  l \in Labels /\ disk.mark[l] = "live" /\ ~Logged(wal, l, "DELETE") /\ vec[l] # NoVec
    <3>1. PICK i \in DOMAIN op.ids : l = op.ids[i]
      BY <2>7 DEF BatchLabels
    <3>2. l \in Labels /\ i \in DOMAIN op.objs /\ op.objs \in Seq(Objects)
      BY <1>1, <1>3, <3>1, AddIds
    <3>3. op.objs[i] \in Objects
      BY <3>2
    <3>4. op.objs[i].vec \in Vecs
      BY <3>3 DEF Objects
    <3>5. vec[l] = op.objs[i].vec
      BY <1>1, <1>2, <3>1, <3>2 DEF VecsStored, WithIds
    <3>6. mem.mark[l] = "live"
      BY <1>3, <2>2, <2>7 DEF NothingNew
    <3>7. mem.mark[l] = IF Logged(wal, l, "DELETE") THEN "deleted" ELSE disk.mark[l]
      BY <1>3, <2>2, <3>2 DEF MarksReplay
    <3> QED
      BY <3>2, <3>4, <3>5, <3>6, <3>7, HnswAssumption
  <2>8. /\ \A i \in DOMAIN wal : disk.mark[wal[i].id] = "live"
        /\ \A i \in DOMAIN wal : wal[i].op = "UPDATE" => vec[wal[i].id] # NoVec
        /\ \A i, j \in DOMAIN wal : i < j /\ wal[i].id = wal[j].id => wal[i].op = "UPDATE"
    BY <2>2 DEF RecordsReplay
  <2>9. RecordsReplay'
    <3>1. ASSUME NEW i \in DOMAIN wal'
          PROVE  /\ disk'.mark[wal'[i].id] = "live"
                 /\ wal'[i].op = "UPDATE" => vec'[wal'[i].id] # NoVec
      <4>1. CASE i \in DOMAIN wal /\ wal'[i] = wal[i]
        BY <1>2, <2>8, <4>1
      <4>2. ASSUME NEW j \in DOMAIN more, wal'[i] = more[j]
            PROVE  disk'.mark[wal'[i].id] = "live" /\ vec'[wal'[i].id] # NoVec
        <5>1. wal'[i].id \in BatchLabels
          BY <1>5, <4>2 DEF BatchLabels
        <5> QED
          BY <1>2, <2>7, <5>1
      <4> QED
        BY <2>6, <4>1, <4>2
    <3>2. ASSUME NEW i \in DOMAIN wal', NEW j \in DOMAIN wal', i < j, wal'[i].id = wal'[j].id
          PROVE  wal'[i].op = "UPDATE"
      <4>1. CASE i \in DOMAIN wal /\ wal'[i] = wal[i] /\ j \in DOMAIN wal /\ wal'[j] = wal[j]
        BY <2>8, <3>2, <4>1
      <4>2. ASSUME i \in DOMAIN wal, wal'[i] = wal[i], NEW m \in DOMAIN more, wal'[j] = more[m]
            PROVE  wal'[i].op = "UPDATE"
        <5>1. wal[i].id \in BatchLabels
          BY <1>5, <3>2, <4>2 DEF BatchLabels
        <5>2. ~Logged(wal, wal[i].id, "DELETE")
          BY <2>7, <5>1
        <5>3. wal[i] \in WalRecords
          BY <1>5, <4>2
        <5>4. wal[i].op \in WalOps /\ wal[i] = [op |-> wal[i].op, id |-> wal[i].id]
          BY <5>3 DEF WalRecords
        <5>5. wal[i].op # "DELETE"
          BY <4>2, <5>2, <5>4 DEF Logged
        <5>6. wal[i].op # "ADD"
          BY <2>1, <4>2 DEF AddsIn
        <5> QED
          BY <4>2, <5>4, <5>5, <5>6 DEF WalOps
      <4>3. ASSUME NEW k \in DOMAIN more, wal'[i] = more[k]
            PROVE  wal'[i].op = "UPDATE"
        BY <1>5, <2>3, <4>3
      <4> QED
        BY <2>6, <4>1, <4>2, <4>3
    <3> QED
      BY <3>1, <3>2 DEF RecordsReplay
  <2>10. MarksReplay'
    BY <1>2, <1>3, <2>2, <2>5 DEF MarksReplay
  <2>11. VectorsReplay'
    BY <1>2, <1>3, <2>2, <2>5 DEF VectorsReplay
  <2>12. NothingNew'
    BY <1>2, <1>3, <2>2 DEF NothingNew
  <2> QED
    BY <2>9, <2>10, <2>11, <2>12 DEF Replays
<1>9. AddsIn(wal') # {} => Replays'
  BY DEF Replays
<1> QED
  BY <1>7, <1>8, <1>9

\* The graph gets the vectors that are stored.
LEMMA VectorsLinked ==
  ASSUME WellMeant, IndexInv, Typed, PlainInv, AddToGraph
  PROVE  \A l \in Labels : mem'.at[l] = IF l \in BatchLabels THEN vec[l] ELSE mem.at[l]
<1>1. /\ OpMeant /\ TakenMarked /\ AddMapped /\ VecsStored
  BY DEF PlainInv
<1> DEFINE new == {op.ids[i] : i \in {j \in DOMAIN op.ids : op.isNew[j]}}
<1>2. PICK last \in [BatchLabels -> DOMAIN op.ids] :
         /\ \A l \in BatchLabels : op.ids[last[l]] = l
         /\ mem' = AddPoints(mem, new, BatchLabels \ new, [l \in BatchLabels |-> op.objs[last[l]].vec])
  BY DEF AddToGraph
<1>3. Adding /\ op.kind = "add" /\ op.stage = "graph" /\ op.stage \in WithIds
  BY DEF AddToGraph, Adding, WithIds, At
<1>4. new \subseteq BatchLabels
  BY DEF BatchLabels
<1>5. \A l \in BatchLabels \ new : mem.mark[l] # "absent"
  BY <1>1, <1>3 DEF TakenMarked, BatchLabels
<1>6. ASSUME NEW l \in BatchLabels
      PROVE  op.objs[last[l]].vec = vec[l]
  <2>1. last[l] \in DOMAIN op.objs /\ op.ids[last[l]] = l
    BY <1>1, <1>2, <1>3, AddIds
  <2>2. vec[op.ids[last[l]]] = op.objs[last[l]].vec
    BY <1>1, <1>3, <2>1 DEF VecsStored, WithIds
  <2> QED
    BY <2>1, <2>2
<1> DEFINE v == [l \in BatchLabels |-> op.objs[last[l]].vec]
<1>7. \A l \in BatchLabels : v[l] = vec[l]
  BY <1>6
<1> HIDE DEF new, v
<1>8. mem' = AddPoints(mem, new, BatchLabels \ new, v)
  BY <1>2 DEF v
<1>9. ASSUME NEW l \in Labels
      PROVE  mem'.at[l] = IF l \in BatchLabels THEN v[l] ELSE mem.at[l]
  BY <1>4, <1>5, <1>8 DEF AddPoints
<1> QED
  BY <1>7, <1>9

\* The batch is in the graph, and what it changed is in the log.
LEMMA GraphKeepsLog ==
  ASSUME WellMeant, IndexInv, Typed, PlainInv, AddToGraph
  PROVE  LogCovers' /\ Replays'
<1>1. LogCovers /\ Replays /\ OpMeant /\ AddMapped
  BY DEF PlainInv
<1>2. /\ op.kind = "add" /\ op.stage = "graph" /\ op'.kind = "add" /\ op'.stage = "saveCheck"
      /\ op'.ids = op.ids /\ UNCHANGED <<wal, vec, disk, loaded>>
  BY GoToMoves DEF AddToGraph, At, Moved, log, stores
<1>3. /\ Adding /\ Ahead /\ ~Ahead' /\ ~Adding' /\ Pending = BatchLabels /\ Pending' = {}
      /\ Dropping = {} /\ Dropping' = {} /\ ~At("add", "graph")' /\ ~At("add", "map")'
      /\ Image' = mem' /\ Image = mem /\ At("add", "graph")
  BY <1>2, ImageIsMem DEF Adding, Ahead, WithIds, Pending, BatchLabels, Dropping, At, Image
<1>4. BatchLabels \subseteq Labels
  BY <1>1, <1>3, AddIds DEF BatchLabels
<1>5. \A l \in Labels : mem'.mark[l] = IF l \in BatchLabels THEN "live" ELSE mem.mark[l]
  BY BatchLinked
<1>6. \A l \in Labels : mem'.at[l] = IF l \in BatchLabels THEN vec[l] ELSE mem.at[l]
  BY VectorsLinked
<1>7. LogCovers'
  <2>1. \A l \in BatchLabels : LastIs(wal, l, {"ADD", "UPDATE"}) /\ mem'.mark[l] # "deleted"
    BY <1>1, <1>3, <1>4, <1>5 DEF LogCovers
  <2>2. \A l \in Labels \ BatchLabels : mem'.mark[l] = mem.mark[l] /\ mem'.at[l] = mem.at[l]
    BY <1>5, <1>6
  <2> QED
    BY <1>1, <1>2, <1>3, <2>1, <2>2 DEF LogCovers
<1>8. ASSUME AddsIn(wal) = {}
      PROVE  Replays'
  <2>1. RecordsReplay /\ MarksReplay /\ VectorsReplay /\ NothingNew
    BY <1>1, <1>2, <1>8 DEF Replays
  <2>2. \A l, o : Logged(wal, l, o)' <=> Logged(wal, l, o)
    BY <1>2 DEF Logged
  <2>3. RecordsReplay' /\ NothingNew'
    BY <1>2, <1>3, <2>1 DEF RecordsReplay, NothingNew
  <2>4. \A l \in BatchLabels : mem.mark[l] = "live"
    BY <1>3, <2>1 DEF NothingNew
  <2>5. \A l \in Labels : mem'.mark[l] = mem.mark[l]
    BY <1>5, <2>4
  <2>6. MarksReplay'
    BY <1>2, <1>3, <2>1, <2>2, <2>5 DEF MarksReplay
  <2>7. ASSUME NEW l \in BatchLabels PROVE Logged(wal, l, "UPDATE")
    <3>1. LastIs(wal, l, {"ADD", "UPDATE"}) /\ wal \in Seq(WalRecords)
      BY <1>1, <1>3 DEF LogCovers, Typed
    <3> DEFINE k == LastOf(RecordsOf(wal, l))
    <3>2. PICK i \in DOMAIN wal : wal[i].id = l
      BY <3>1 DEF LastIs, RecordsOf
    <3>3. k \in DOMAIN wal /\ wal[k].id = l
      BY <3>1, <3>2, LastRecord
    <3>4. wal[k].op \in {"ADD", "UPDATE"}
      BY <3>1 DEF LastIs
    <3> HIDE DEF k
    <3>5. wal[k] \in WalRecords /\ wal[k].op # "ADD"
      BY <1>8, <3>1, <3>3 DEF AddsIn
    <3>6. wal[k] = [op |-> wal[k].op, id |-> wal[k].id]
      BY <3>5 DEF WalRecords
    <3> QED
      BY <3>3, <3>4, <3>5, <3>6 DEF Logged
  <2>8. ASSUME NEW l \in Labels
        PROVE  mem'.at[l] = IF Logged(wal, l, "UPDATE") THEN vec[l] ELSE disk.at[l]
    <3>1. CASE l \in BatchLabels
      BY <1>6, <2>7, <3>1
    <3>2. CASE l \notin BatchLabels
      BY <1>3, <1>6, <2>1, <3>2 DEF VectorsReplay
    <3> QED
      BY <3>1, <3>2
  <2>9. VectorsReplay'
    BY <1>2, <1>3, <2>2, <2>8 DEF VectorsReplay
  <2> QED
    BY <2>3, <2>6, <2>9 DEF Replays
<1>9. AddsIn(wal) # {} => Replays'
  BY <1>2 DEF Replays
<1> QED
  BY <1>7, <1>8, <1>9

\* What is not saved stays in the log.
LEMMA StepKeepsLog ==
  ASSUME WellMeant, IndexInv, Typed, Typed', PlainInv, [Next]_vars
  PROVE  LogCovers' /\ Replays'
<1>1. CASE UNCHANGED vars
  <2>1. UNCHANGED <<op, batch, wal, vec, mem, disk, loaded>>
    BY <1>1 DEF vars, ids, stores, log, graphs
  <2>2. LogCovers /\ Replays
    BY DEF PlainInv
  <2>3. /\ Image' = Image /\ Pending' = Pending /\ Dropping' = Dropping
        /\ BatchLabels' = BatchLabels /\ Adding' = Adding /\ Ahead' = Ahead
        /\ \A k, s : At(k, s)' <=> At(k, s)
    BY <2>1 DEF Image, Pending, Dropping, BatchLabels, Adding, Ahead, At
  <2>4. LogCovers'
    BY <2>1, <2>2, <2>3 DEF LogCovers
  <2>5. Replays'
    BY <2>1, <2>2, <2>3 DEF Replays, RecordsReplay, MarksReplay, VectorsReplay, NothingNew, Logged
  <2> QED
    BY <2>4, <2>5
<1>2. CASE \/ AddLogsIds \/ AddWritesMappings \/ AddStoresVectors \/ AddLogsOps \/ AddToGraph
  BY <1>2, LogsIdsKeepsLog, MappingsKeepLog, VectorsKeepLog, LogsOpsKeepsLog, GraphKeepsLog
<1>3. CASE DeleteMarks \/ DeleteLogs \/ SaveImage \/ SaveClearsWal
  BY <1>3, MarkKeepsLog, DeleteLogsKeepsLog, SavesKeepLog
<1>4. CASE \/ \E t \in Threads, objs \in Batches : BeginAdd(t, objs)
           \/ AddTakesDeleted \/ AddTakesFresh \/ AddStoresMeta \/ AddStoresFilters
           \/ \E n \in Names : DeleteByName(n)
           \/ \E t \in Tags : DeleteByFilter(t)
           \/ DeleteUnmaps
           \/ \E n \in Names, t \in UpdateTags : BeginRetag(n, t)
           \/ RetagRemoves \/ RetagStoresMeta \/ RetagAdds
           \/ BeginSave \/ SaveWhenLong \/ AnswerWhenShort \/ SaveCounts \/ Evict \/ Load
  BY <1>4, BesideSteps
<1>5. CASE \/ AddFindsBadVector \/ AddFindsOwnTransaction \/ DeleteFindsNoMeta
           \/ RecoverEntry \/ RecoverEnds \/ Crash
  BY <1>5, NothingFails
<1> QED
  BY <1>1, <1>2, <1>3, <1>4, <1>5 DEF Next, Step

-------------------------------------------------------------------------------
(* The invariant, and what it says between requests.                       *)

LEMMA InitPlainInv == WellMeant /\ Init => PlainInv
<1> SUFFICES ASSUME WellMeant, Init PROVE PlainInv
  OBVIOUS
<1>1. /\ op = NoOp /\ vecWriter = NoThread /\ crashes = 0 /\ mem = EmptyGraph /\ disk = EmptyGraph
      /\ wal = <<>> /\ walCount = 0 /\ updated = FALSE /\ loaded = TRUE /\ elementCount = 0
      /\ promise = [n \in Names |-> "unknown"] /\ filt = [t \in Tags |-> {}]
      /\ idmap = [n \in Names |-> NoId] /\ deletedIds = <<>> /\ batch = NoBatch
  BY DEF Init, IdInit
<1>2. op.kind = "none" /\ op.stage = "none" /\ op.names = {}
  BY <1>1 DEF NoOp
<1>3. /\ ~Adding /\ ~Unnamed /\ Retagged = {} /\ OwnedLabels = {} /\ Image = EmptyGraph
      /\ \A k, s : k # "none" => ~At(k, s)
  BY <1>1, <1>2 DEF Adding, Unnamed, Retagged, At, OwnedLabels, Image
<1>4. OpMeant /\ AddMapped /\ VecsStored /\ DeleteDrops
  BY <1>1, <1>2 DEF OpMeant, StagesOf, AddMapped, VecsStored, DeleteDrops
<1>5. LiveOwned /\ FreeMarked /\ NamesStored
  BY <1>1, <1>3 DEF LiveOwned, FreeMarked, NamesStored, EmptyGraph
<1>6. TagsSettled
  <2>1. \A objs \in Batches : \A i \in DOMAIN objs : objs[i].name \in Names
    <3>1. ASSUME NEW objs \in Batches, NEW i \in DOMAIN objs PROVE objs[i] \in Objects
      BY IndexStoreAssumption
    <3> QED
      BY <3>1 DEF Objects
  <2> QED
    BY <1>1, <1>3, <2>1 DEF TagsSettled
<1>7. BitsExact
  BY <1>1, <1>2, <1>3 DEF BitsExact
<1>8. TakenMarked
  BY <1>1, <1>3 DEF TakenMarked, NoBatch
<1>9. LabelsMarked(EmptyGraph, "deleted") = {} /\ LabelsMarked(EmptyGraph, "live") = {}
  BY DEF LabelsMarked, EmptyGraph
<1>10. DelExact
  BY <1>1, <1>9, FS_EmptySet DEF DelExact, EmptyGraph
<1>11. SavedUnlessUpdated
  BY <1>1, <1>2, <1>9, FS_EmptySet DEF SavedUnlessUpdated, Saving
<1>12. PromisesHeld
  BY <1>1, <1>2 DEF PromisesHeld
<1>13. LogCovers /\ Replays
  <2>1. Image = disk /\ Pending = {} /\ Dropping = {} /\ ~Ahead /\ \A l, o : ~Logged(wal, l, o)
    BY <1>1, <1>2, <1>3 DEF Pending, Dropping, Ahead, Logged
  <2>2. LogCovers
    BY <1>3, <2>1 DEF LogCovers
  <2>3. RecordsReplay /\ MarksReplay /\ VectorsReplay /\ NothingNew
    BY <1>1, <1>3, <2>1 DEF RecordsReplay, MarksReplay, VectorsReplay, NothingNew
  <2> QED
    BY <2>2, <2>3 DEF Replays
<1> QED
  BY <1>4, <1>5, <1>6, <1>7, <1>8, <1>10, <1>11, <1>12, <1>13 DEF PlainInv

LEMMA StepKeepsPlainInv ==
  WellMeant /\ IndexInv /\ IndexInv' /\ PlainInv /\ [Next]_vars => PlainInv'
<1> SUFFICES ASSUME WellMeant, IndexInv, IndexInv', PlainInv, [Next]_vars PROVE PlainInv'
  OBVIOUS
<1>1. Typed /\ Typed'
  BY InvTyped, PTL
<1>2. OpMeant' /\ DeleteDrops' /\ DelExact' /\ SavedUnlessUpdated' /\ PromisesHeld'
  BY <1>1, StepKeepsOpMeant, StepKeepsDeleteDrops, StepKeepsDelExact, StepKeepsSaved,
     StepKeepsPromises
<1>3. AddMapped' /\ VecsStored' /\ TakenMarked'
  BY <1>1, StepKeepsAddMapped, StepKeepsVecsStored, StepKeepsTaken
<1>4. LiveOwned' /\ FreeMarked' /\ NamesStored' /\ TagsSettled' /\ BitsExact'
  BY StepKeepsStored DEF Stored
<1>5. LogCovers' /\ Replays'
  BY <1>1, StepKeepsLog
<1> QED
  BY <1>2, <1>3, <1>4, <1>5 DEF PlainInv

\* Under well-meant requests PlainInv holds in every reachable state.
THEOREM PlainInvariant ==
  ASSUME WellMeant
  PROVE  Spec => []PlainInv
<1>1. Init => PlainInv
  BY InitPlainInv
<1>2. IndexInv /\ IndexInv' /\ PlainInv /\ [Next]_vars => PlainInv'
  BY StepKeepsPlainInv
<1> QED
  BY <1>1, <1>2, IndexInvariant, PTL DEF Spec

\* Under well-meant requests an object whose insert was acknowledged is found by id and by search,
\* and one whose deletion was is not, until a request is about it: through every save, eviction
\* and load, and whatever is done to other objects.
THEOREM PromisesAlwaysKept ==
  ASSUME WellMeant
  PROVE  Spec => []PromisesKept
<1>1. IndexInv /\ PlainInv => PromisesKept
  <2> SUFFICES ASSUME IndexInv, PlainInv, Idle PROVE InsertsSurvive /\ DeletesSurvive
    BY DEF PromisesKept, InsertsSurvive, DeletesSurvive
  <2>1. LiveOwned /\ NamesStored /\ PromisesHeld /\ Typed
    BY InvTyped DEF PlainInv
  <2>2. ~Adding /\ ~Unnamed /\ ~At("delete", "mark")
    BY DEF Idle, Adding, Unnamed, At
  <2>3. InsertsSurvive
    BY <2>1, <2>2 DEF InsertsSurvive, Findable, PromisesHeld, LiveOwned, NamesStored
  <2>4. ASSUME NEW n \in Names, promise[n] = "absent"
        PROVE  idmap[n] = NoId /\ ~Searchable(n)
    <3>1. idmap[n] = NoId
      BY <2>1, <2>4 DEF PromisesHeld
    <3>2. ASSUME NEW l \in Labels, Image.mark[l] = "live", meta[l].name = n PROVE FALSE
      <4>1. l \in OwnedLabels
        BY <2>1, <2>2, <3>2 DEF LiveOwned
      <4>2. PICK m \in Names : l = idmap[m] /\ idmap[m] # NoId
        BY <4>1 DEF OwnedLabels
      <4>3. m = n
        BY <2>1, <2>2, <3>2, <4>2 DEF NamesStored
      <4> QED
        BY <3>1, <4>2, <4>3
    <3> QED
      BY <3>1, <3>2 DEF Searchable, LabelsMarked
  <2> QED
    BY <2>3, <2>4 DEF DeletesSurvive
<1> QED
  BY <1>1, IndexInvariant, PlainInvariant, PTL

\* Under well-meant requests the id mapper, the graph, the metadata, the filters' bitmaps and the
\* counts describe one set of objects between any two requests.
THEOREM StoresAlwaysAgree ==
  ASSUME WellMeant
  PROVE  Spec => []Agreement
<1>1. IndexInv /\ PlainInv => Agreement
  <2> SUFFICES ASSUME IndexInv, PlainInv, Idle PROVE Agreement
    BY DEF Agreement, ViewsAgree, FilterExact, CountMatches, ActiveCount
  <2>1. /\ LiveOwned /\ NamesStored /\ BitsExact /\ SavedUnlessUpdated /\ Typed
        /\ CountsDeleted(mem) /\ mem \in Graphs
    BY InvTyped DEF PlainInv, DelExact, CountsDeleted, Typed
  <2>2. ~Adding /\ ~Unnamed /\ ~At("delete", "mark") /\ Retagged = {} /\ Image = mem
        /\ loaded /\ op.kind = "none"
    BY DEF Idle, Adding, Unnamed, At, Retagged, Image
  <2>3. OwnedLabels \subseteq Labels
    BY <2>1 DEF OwnedLabels, Typed
  <2>4. LabelsMarked(mem, "live") = OwnedLabels
    <3>1. \A l \in OwnedLabels : mem.mark[l] = "live"
      BY <2>1, <2>2 DEF LiveOwned, OwnedLabels
    <3>2. \A l \in Labels : mem.mark[l] = "live" => l \in OwnedLabels
      BY <2>1, <2>2 DEF LiveOwned
    <3> QED
      BY <2>3, <3>1, <3>2 DEF LabelsMarked
  <2>5. ViewsAgree
    BY <2>1, <2>2, <2>4 DEF ViewsAgree, NamesStored
  <2>6. FilterExact
    <3>1. ASSUME NEW t \in Tags PROVE filt[t] = {l \in OwnedLabels : meta[l].tag = t}
      <4>1. filt[t] \subseteq Labels
        BY <2>1 DEF Typed
      <4>2. \A l \in Labels : l \in filt[t] <=> l \in OwnedLabels /\ meta[l].tag = t
        BY <2>1, <2>2 DEF BitsExact
      <4> QED
        BY <2>3, <4>1, <4>2
    <3> QED
      BY <3>1 DEF FilterExact
  <2>7. CountMatches
    BY <2>1, <2>2, <2>4 DEF CountMatches, SavedUnlessUpdated
  <2>8. ActiveCount
    BY <2>1, ActiveAreLive DEF ActiveCount
  <2> QED
    BY <2>5, <2>6, <2>7, <2>8 DEF Agreement
<1> QED
  BY <1>1, IndexInvariant, PlainInvariant, PTL

-------------------------------------------------------------------------------
(* The index implements the map of VectorMap.                              *)

\* The four things a step may be for the map.
LEMMA MapStands ==
  ASSUME \A n \in Names : StoredVec(n)' = StoredVec(n), Requested' = Requested
  PROVE  UNCHANGED Map!mapVars
<1>1. [n \in Names |-> StoredVec(n)]' = [n \in Names |-> StoredVec(n)]
  OBVIOUS
<1> QED
  BY <1>1 DEF Map!mapVars

LEMMA MapRequest ==
  ASSUME \A n \in Names : StoredVec(n)' = StoredVec(n),
         Requested = [n \in {} |-> NoVec],
         NEW K \in SUBSET Names, Requested' \in [K -> Vecs \cup {NoVec}]
  PROVE  Map!MapNext
<1>1. [n \in Names |-> StoredVec(n)]' = [n \in Names |-> StoredVec(n)]
  OBVIOUS
<1>2. Requested' \in Map!Writes
  BY DEF Map!Writes
<1>3. Requested = Map!NoRequest
  BY DEF Map!NoRequest
<1>4. Map!Request(Requested')
  BY <1>1, <1>3 DEF Map!Request
<1> QED
  BY <1>2, <1>4 DEF Map!MapNext

LEMMA MapEffect ==
  ASSUME NEW K \in SUBSET (DOMAIN Requested), Requested' = Requested,
         \A n \in Names : StoredVec(n)' = IF n \in K THEN Requested[n] ELSE StoredVec(n)
  PROVE  Map!MapNext
<1>1. [n \in Names |-> StoredVec(n)]'
        = [n \in Names |-> IF n \in K THEN Requested[n] ELSE [m \in Names |-> StoredVec(m)][n]]
  OBVIOUS
<1>2. Map!TakeEffect(K)
  BY <1>1 DEF Map!TakeEffect
<1> QED
  BY <1>2 DEF Map!MapNext

LEMMA MapResponds ==
  ASSUME \A n \in Names : StoredVec(n)' = StoredVec(n),
         DOMAIN Requested \subseteq Names,
         \A n \in DOMAIN Requested : StoredVec(n) = Requested[n],
         Requested' = [n \in {} |-> NoVec]
  PROVE  Map!MapNext
<1>1. [n \in Names |-> StoredVec(n)]' = [n \in Names |-> StoredVec(n)]
  OBVIOUS
<1>2. \A k \in DOMAIN Requested : [n \in Names |-> StoredVec(n)][k] = Requested[k]
  OBVIOUS
<1>3. Map!Respond
  BY <1>1, <1>2 DEF Map!Respond, Map!NoRequest
<1> QED
  BY <1>3 DEF Map!MapNext

\* What an insert asks of the map.
LEMMA InsertRequested ==
  ASSUME WellMeant, NEW objs \in Batches
  PROVE  LET names == {objs[i].name : i \in DOMAIN objs}
             asked == [n \in names |-> objs[LastOf({i \in DOMAIN objs : objs[i].name = n})].vec]
         IN  /\ names \in SUBSET Names
             /\ asked \in [names -> Vecs \cup {NoVec}]
             /\ \A i \in DOMAIN objs : asked[objs[i].name] = objs[i].vec
<1> DEFINE names == {objs[i].name : i \in DOMAIN objs}
           asked == [n \in names |-> objs[LastOf({i \in DOMAIN objs : objs[i].name = n})].vec]
<1>1. objs \in Seq(Objects)
  BY IndexStoreAssumption
<1>2. \A i \in DOMAIN objs : objs[i].name \in Names /\ objs[i].vec \in Vecs
  <2>1. ASSUME NEW i \in DOMAIN objs PROVE objs[i] \in Objects
    BY <1>1
  <2> QED
    BY <2>1 DEF Objects
<1>3. ASSUME NEW i \in DOMAIN objs
      PROVE  LastOf({j \in DOMAIN objs : objs[j].name = objs[i].name}) = i
  <2>1. {j \in DOMAIN objs : objs[j].name = objs[i].name} = {i}
    BY DEF WellMeant
  <2>2. {i} \subseteq 1..Len(objs) /\ Len(objs) \in Nat /\ {i} # {}
    BY <1>1
  <2>3. LastOf({i}) \in {i}
    BY <2>2, LastOfIsLast
  <2> QED
    BY <2>1, <2>3
<1>4. \A i \in DOMAIN objs : asked[objs[i].name] = objs[i].vec
  BY <1>3
<1>5. asked \in [names -> Vecs \cup {NoVec}]
  <2>1. ASSUME NEW n \in names
        PROVE  objs[LastOf({i \in DOMAIN objs : objs[i].name = n})].vec \in Vecs
    <3>1. PICK i \in DOMAIN objs : n = objs[i].name
      OBVIOUS
    <3> QED
      BY <1>2, <1>3, <3>1
  <2> HIDE DEF names
  <2> QED
    BY <2>1
<1> QED
  BY <1>2, <1>4, <1>5

\* The objects of a request are what the map is asked for while it lasts.
LEMMA SameRequest ==
  ASSUME op'.kind = op.kind, op'.names = op.names, op'.objs = op.objs
  PROVE  Requested' = Requested
  BY DEF Requested

LEMMA NoRequestLeft ==
  ASSUME op.kind \notin {"add", "delete"}
  PROVE  Requested = [n \in {} |-> NoVec]
  BY DEF Requested

\* What the request in progress asks of the map.
LEMMA RequestHolds ==
  ASSUME WellMeant, Typed, PlainInv
  PROVE  /\ op.kind = "add" =>
              /\ DOMAIN Requested = op.names /\ op.names \subseteq Names
              /\ \A i \in DOMAIN op.objs : Requested[op.objs[i].name] = op.objs[i].vec
              /\ \A n \in op.names : \E i \in DOMAIN op.objs : n = op.objs[i].name
         /\ op.kind = "delete" =>
              /\ DOMAIN Requested = op.names /\ op.names \subseteq Names
              /\ \A n \in op.names : Requested[n] = NoVec
<1>1. OpMeant /\ op.names \subseteq Names
  BY DEF PlainInv, Typed, Ops
<1>2. ASSUME op.kind = "add"
      PROVE  /\ DOMAIN Requested = op.names
             /\ \A i \in DOMAIN op.objs : Requested[op.objs[i].name] = op.objs[i].vec
             /\ \A n \in op.names : \E i \in DOMAIN op.objs : n = op.objs[i].name
  <2>1. op.objs \in Batches /\ op.names = {op.objs[i].name : i \in DOMAIN op.objs}
    BY <1>1, <1>2 DEF OpMeant
  <2>2. Requested = [n \in op.names |->
                       op.objs[LastOf({i \in DOMAIN op.objs : op.objs[i].name = n})].vec]
    BY <1>2 DEF Requested
  <2> QED
    BY <2>1, <2>2, InsertRequested
<1>3. ASSUME op.kind = "delete"
      PROVE  DOMAIN Requested = op.names /\ \A n \in op.names : Requested[n] = NoVec
  <2>1. Requested = [n \in op.names |-> NoVec]
    BY <1>3 DEF Requested
  <2> QED
    BY <2>1
<1> QED
  BY <1>1, <1>2, <1>3

\* The steps the map does not see.
LEMMA StandingSteps ==
  ASSUME WellMeant, Typed, PlainInv,
         \/ UNCHANGED vars
         \/ AddTakesDeleted \/ AddTakesFresh \/ AddLogsIds
         \/ AddStoresMeta \/ AddStoresFilters \/ AddLogsOps
         \/ DeleteLogs
         \/ \E n \in Names, t \in UpdateTags : BeginRetag(n, t)
         \/ RetagRemoves \/ RetagStoresMeta \/ RetagAdds
         \/ BeginSave \/ SaveWhenLong \/ SaveImage \/ SaveClearsWal \/ Evict \/ Load
  PROVE  UNCHANGED Map!mapVars
<1> USE DEF ids, stores, graphs
<1>1. UNCHANGED <<idmap, vec>>
  BY DEF vars, AddTakesDeleted, TakeDeleted, AddTakesFresh, TakeFresh, AddLogsIds,
     AddStoresMeta, AddStoresFilters, AddLogsOps, DeleteLogs, BeginRetag, RetagRemoves,
     RetagStoresMeta, RetagAdds, BeginSave, SaveWhenLong, SaveImage, SaveClearsWal, Evict, Load
<1>2. Image' = Image
  <2>1. Evict \/ Load \/ SaveImage \/ UNCHANGED <<mem, disk, loaded>>
    BY DEF vars, AddTakesDeleted, AddTakesFresh, AddLogsIds,
       AddStoresMeta, AddStoresFilters, AddLogsOps, DeleteLogs, BeginRetag, RetagRemoves,
       RetagStoresMeta, RetagAdds, BeginSave, SaveWhenLong, SaveClearsWal
  <2> QED
    BY <2>1, ImageStays
<1>3. \A n \in Names : StoredVec(n)' = StoredVec(n)
  BY <1>1, <1>2 DEF StoredVec
<1>4. Requested' = Requested
  <2>1. CASE UNCHANGED vars \/ AddTakesDeleted \/ Evict
    BY <2>1, SameRequest DEF vars, AddTakesDeleted, Evict
  <2>2. CASE \/ AddTakesFresh \/ AddLogsIds \/ AddStoresMeta \/ AddStoresFilters \/ AddLogsOps
             \/ DeleteLogs \/ RetagRemoves \/ RetagStoresMeta
             \/ SaveWhenLong \/ SaveImage \/ SaveClearsWal
    <3>1. PICK s : GoTo(s)
      BY <2>2 DEF AddTakesFresh, AddLogsIds, AddStoresMeta, AddStoresFilters, AddLogsOps,
         DeleteLogs, RetagRemoves, RetagStoresMeta, SaveWhenLong, SaveImage, SaveClearsWal
    <3> QED
      BY <3>1, GoToMoves, SameRequest DEF Moved
  <2>3. CASE op.kind \notin {"add", "delete"} /\ op'.kind \notin {"add", "delete"}
    <3>1. Requested = [n \in {} |-> NoVec]
      BY <2>3, NoRequestLeft
    <3>2. Requested' = [n \in {} |-> NoVec]
      BY <2>3 DEF Requested
    <3> QED
      BY <3>1, <3>2
  <2>4. CASE \E n \in Names, t \in UpdateTags : BeginRetag(n, t)
    BY <2>3, <2>4 DEF BeginRetag, Begin, Idle, NoOp
  <2>5. CASE RetagAdds
    <3>1. op.kind = "retag" /\ op' = NoOp
      BY <2>5 DEF RetagAdds, At, Answer
    <3> QED
      BY <2>3, <3>1 DEF NoOp
  <2>6. CASE BeginSave \/ Load
    <3>1. op.kind = "none" /\ op'.kind \in {"none", "save", "load"}
      BY <2>6 DEF BeginSave, Load, Idle, NoOp, Typed, OpShape
    <3> QED
      BY <2>3, <3>1
  <2> QED
    BY <2>1, <2>2, <2>4, <2>5, <2>6
<1> QED
  BY <1>3, <1>4, MapStands

\* A request begins.
LEMMA RequestSteps ==
  ASSUME WellMeant, Typed, PlainInv, Typed',
         \/ \E t \in Threads, objs \in Batches : BeginAdd(t, objs)
         \/ \E n \in Names : DeleteByName(n)
         \/ \E t \in Tags : DeleteByFilter(t)
  PROVE  Map!MapNext
<1>1. op.kind = "none" /\ UNCHANGED <<idmap, vec, mem, disk, loaded>>
  BY DEF BeginAdd, LookUp, DeleteByName, DeleteByFilter, BeginDelete, Begin, Idle, ids, stores,
     graphs
<1>2. \A n \in Names : StoredVec(n)' = StoredVec(n)
  BY <1>1 DEF StoredVec, Image
<1>3. Requested = [n \in {} |-> NoVec]
  BY <1>1, NoRequestLeft
<1>4. \E K \in SUBSET Names : Requested' \in [K -> Vecs \cup {NoVec}]
  <2>1. ASSUME NEW t \in Threads, NEW objs \in Batches, BeginAdd(t, objs)
        PROVE  \E K \in SUBSET Names : Requested' \in [K -> Vecs \cup {NoVec}]
    <3> DEFINE names == {objs[i].name : i \in DOMAIN objs}
               asked == [n \in names |-> objs[LastOf({i \in DOMAIN objs : objs[i].name = n})].vec]
    <3>1. op'.kind = "add" /\ op'.objs = objs /\ op'.names = names
      BY <2>1 DEF BeginAdd, Begin, NoOp
    <3>2. Requested' = asked
      BY <3>1 DEF Requested
    <3>3. names \in SUBSET Names /\ asked \in [names -> Vecs \cup {NoVec}]
      BY InsertRequested
    <3> QED
      BY <3>2, <3>3
  <2>2. CASE (\E n \in Names : DeleteByName(n)) \/ (\E t \in Tags : DeleteByFilter(t))
    <3>1. op'.kind = "delete" /\ op'.names \subseteq Names
      <4>1. PICK labels, names : BeginDelete(labels, names)
        BY <2>2 DEF DeleteByName, DeleteByFilter
      <4> QED
        BY <4>1 DEF BeginDelete, Begin, NoOp, Typed, Ops
    <3>2. Requested' = [n \in op'.names |-> NoVec]
      BY <3>1 DEF Requested
    <3> QED
      BY <3>1, <3>2
  <2> QED
    BY <2>1, <2>2
<1> QED
  BY <1>2, <1>3, <1>4, MapRequest

\* Writing the mappings, and the deletion mark, change no object: a new name has an id that is
\* not live yet, a dropped id no name.
LEMMA HiddenSteps ==
  ASSUME WellMeant, IndexInv, Typed, PlainInv, AddWritesMappings \/ DeleteMarks
  PROVE  UNCHANGED Map!mapVars
<1>1. CASE AddWritesMappings
  <2>1. /\ op.kind = "add" /\ UNCHANGED <<vec, mem, disk, loaded>>
        /\ op'.kind = op.kind /\ op'.names = op.names /\ op'.objs = op.objs
    BY <1>1 DEF AddWritesMappings, At, Typed, Ops, stores, graphs
  <2>2. Image = mem /\ Image' = Image
    BY <2>1, ImageIsMem DEF Image
  <2>3. ASSUME NEW n \in Names PROVE StoredVec(n)' = StoredVec(n)
    <3>1. CASE idmap[n] # NoId \/ n \notin op.names
      <4>1. idmap'[n] = idmap[n]
        BY <1>1, <3>1, MappingsWritten
      <4> QED
        BY <2>1, <2>2, <4>1 DEF StoredVec
    <3>2. CASE idmap[n] = NoId /\ n \in op.names
      <4>1. mem.mark[idmap'[n]] # "live"
        BY <1>1, <3>2, MappingsWritten
      <4> QED
        BY <2>2, <3>2, <4>1 DEF StoredVec
    <3> QED
      BY <3>1, <3>2
  <2> QED
    BY <2>1, <2>3, SameRequest, MapStands
<1>2. CASE DeleteMarks
  <2>1. /\ op.kind = "delete" /\ mem' = MarkDelete(mem, Deleted) /\ UNCHANGED <<idmap, vec, loaded>>
        /\ op'.kind = op.kind /\ op'.names = op.names /\ op' = [op EXCEPT !.stage = "unmap", !.pos = @ + 1]
        /\ Deleted \notin OwnedLabels
    BY <1>2, MarksDeleted DEF ids, PlainInv, LiveOwned, At
  <2>2. op'.objs = op.objs
    BY <2>1 DEF Typed, Ops
  <2>3. Image = mem /\ Image' = mem'
    BY <2>1, ImageIsMem DEF Image
  <2>4. ASSUME NEW n \in Names PROVE StoredVec(n)' = StoredVec(n)
    <3>1. CASE idmap[n] = NoId
      BY <2>1, <3>1 DEF StoredVec
    <3>2. CASE idmap[n] # NoId
      <4>1. idmap[n] # Deleted /\ idmap[n] \in Labels
        BY <2>1, <3>2 DEF OwnedLabels, Typed
      <4>2. mem'.mark[idmap[n]] = mem.mark[idmap[n]]
        BY <2>1, <4>1 DEF MarkDelete, Typed, Graphs
      <4> QED
        BY <2>1, <2>3, <4>2 DEF StoredVec
    <3> QED
      BY <3>1, <3>2
  <2> QED
    BY <2>1, <2>2, <2>4, SameRequest, MapStands
<1> QED
  BY <1>1, <1>2

\* The steps by which a request takes effect: the vectors of the names that are live already, the
\* graph for the others, and the mapping of a name that is deleted.
LEMMA EffectSteps ==
  ASSUME WellMeant, IndexInv, Typed, PlainInv, AddStoresVectors \/ AddToGraph \/ DeleteUnmaps
  PROVE  Map!MapNext
<1>1. /\ OpMeant /\ AddMapped /\ VecsStored
  BY DEF PlainInv
<1>2. CASE AddStoresVectors
  <2>1. /\ op.kind = "add" /\ Adding /\ Moved("meta") /\ UNCHANGED <<idmap, mem, disk, loaded>>
        /\ vec' = [l \in Labels |-> IF l \in BatchLabels THEN LastFor(l).vec ELSE vec[l]]
    BY <1>2, GoToMoves DEF AddStoresVectors, Adding, WithIds, At, ids, graphs
  <2>2. Requested' = Requested
    BY <2>1, SameRequest DEF Moved
  <2>3. Image' = Image
    BY <2>1 DEF Image
  <2> DEFINE K == {n \in op.names : Image.mark[idmap[n]] = "live"}
  <2>4. K \in SUBSET (DOMAIN Requested)
    BY <2>1, RequestHolds
  <2>5. ASSUME NEW n \in Names
        PROVE  StoredVec(n)' = IF n \in K THEN Requested[n] ELSE StoredVec(n)
    <3>1. CASE n \in op.names
      <4>1. PICK i \in DOMAIN op.ids : n = op.objs[i].name
        BY <1>1, <2>1, <3>1, AddIds
      <4>2. /\ idmap[n] = op.ids[i] /\ op.ids[i] # NoId /\ op.ids[i] \in Labels
            /\ LastFor(op.ids[i]) = op.objs[i] /\ i \in DOMAIN op.objs
        BY <1>1, <2>1, <4>1, AddIds
      <4>3. op.ids[i] \in BatchLabels
        BY DEF BatchLabels
      <4>4. vec'[idmap[n]] = op.objs[i].vec /\ Requested[n] = op.objs[i].vec
        BY <2>1, <4>1, <4>2, <4>3, RequestHolds
      <4> QED
        BY <2>1, <2>3, <3>1, <4>2, <4>4 DEF StoredVec
    <3>2. CASE n \notin op.names
      <4>1. CASE idmap[n] = NoId
        BY <2>1, <3>2, <4>1 DEF StoredVec
      <4>2. CASE idmap[n] # NoId
        <5>1. idmap[n] \in Labels /\ idmap[n] \notin BatchLabels
          BY <1>1, <2>1, <3>2, <4>2, AddIds DEF Typed
        <5>2. vec'[idmap[n]] = vec[idmap[n]]
          BY <2>1, <5>1
        <5> QED
          BY <2>1, <2>3, <3>2, <5>2 DEF StoredVec
      <4> QED
        BY <4>1, <4>2
    <3> QED
      BY <3>1, <3>2
  <2> HIDE DEF K
  <2> QED
    BY <2>2, <2>4, <2>5, MapEffect
<1>3. CASE AddToGraph
  <2>1. /\ op.kind = "add" /\ op.stage = "graph" /\ Adding /\ Moved("saveCheck")
        /\ UNCHANGED <<idmap, vec, loaded>>
    BY <1>3, GoToMoves DEF AddToGraph, Adding, WithIds, At, ids, stores
  <2>2. Requested' = Requested
    BY <2>1, SameRequest DEF Moved
  <2>3. Image = mem /\ Image' = mem'
    BY <2>1, ImageIsMem DEF Image
  <2>4. \A l \in Labels : mem'.mark[l] = IF l \in BatchLabels THEN "live" ELSE mem.mark[l]
    BY <1>3, BatchLinked
  <2>5. op.names \in SUBSET (DOMAIN Requested)
    BY <2>1, RequestHolds
  <2>6. ASSUME NEW n \in Names
        PROVE  StoredVec(n)' = IF n \in op.names THEN Requested[n] ELSE StoredVec(n)
    <3>1. CASE n \in op.names
      <4>1. PICK i \in DOMAIN op.ids : n = op.objs[i].name
        BY <1>1, <2>1, <3>1, AddIds
      <4>2. idmap[n] = op.ids[i] /\ op.ids[i] # NoId /\ op.ids[i] \in Labels /\ i \in DOMAIN op.objs
        BY <1>1, <2>1, <4>1, AddIds
      <4>3. mem'.mark[idmap[n]] = "live"
        BY <2>4, <4>2 DEF BatchLabels
      <4>4. vec[op.ids[i]] = op.objs[i].vec /\ Requested[n] = op.objs[i].vec
        BY <1>1, <2>1, <4>1, <4>2, RequestHolds DEF VecsStored, WithIds
      <4> QED
        BY <2>1, <2>3, <3>1, <4>2, <4>3, <4>4 DEF StoredVec
    <3>2. CASE n \notin op.names
      <4>1. CASE idmap[n] = NoId
        BY <2>1, <3>2, <4>1 DEF StoredVec
      <4>2. CASE idmap[n] # NoId
        <5>1. idmap[n] \in Labels /\ idmap[n] \notin BatchLabels
          BY <1>1, <2>1, <3>2, <4>2, AddIds DEF Typed
        <5> QED
          BY <2>1, <2>3, <2>4, <3>2, <5>1 DEF StoredVec
      <4> QED
        BY <4>1, <4>2
    <3> QED
      BY <3>1, <3>2
  <2> QED
    BY <2>2, <2>5, <2>6, MapEffect
<1>4. CASE DeleteUnmaps
  <2> DEFINE n0 == meta[Deleted].name
  <2>1. /\ op.kind = "delete" /\ Moved("mark") /\ UNCHANGED <<vec, mem, disk, loaded>>
        /\ idmap' = [idmap EXCEPT ![n0] = NoId] /\ n0 \in op.names
    BY <1>4, UnmapsDeleted, DroppedName DEF DeleteUnmaps, stores
  <2> HIDE DEF n0
  <2>2. Requested' = Requested
    BY <2>1, SameRequest DEF Moved
  <2>3. Image' = Image
    BY <2>1 DEF Image
  <2>4. {n0} \in SUBSET (DOMAIN Requested) /\ Requested[n0] = NoVec
    BY <2>1, RequestHolds
  <2>5. ASSUME NEW n \in Names
        PROVE  StoredVec(n)' = IF n \in {n0} THEN Requested[n] ELSE StoredVec(n)
    <3>1. idmap'[n] = IF n = n0 THEN NoId ELSE idmap[n]
      BY <2>1 DEF Typed
    <3> QED
      BY <2>1, <2>3, <2>4, <3>1 DEF StoredVec
  <2> QED
    BY <2>2, <2>4, <2>5, MapEffect
<1> QED
  BY <1>2, <1>3, <1>4

\* The answer, when the request has had its effect.
LEMMA AnswerSteps ==
  ASSUME WellMeant, Typed, PlainInv, AnswerWhenShort \/ SaveCounts
  PROVE  Map!MapNext
<1>1. /\ OpMeant /\ AddMapped /\ VecsStored /\ LiveOwned /\ DeleteDrops
  BY DEF PlainInv
<1>2. /\ op.stage \in Saving /\ op' = NoOp /\ UNCHANGED <<idmap, vec, mem, disk, loaded>>
  BY DEF AnswerWhenShort, SaveCounts, Answer, Saving, ids, stores, graphs
<1>3. \A n \in Names : StoredVec(n)' = StoredVec(n)
  BY <1>2 DEF StoredVec, Image
<1>4. op'.kind = "none"
  BY <1>2 DEF NoOp
<1>5. Requested' = [n \in {} |-> NoVec]
  BY <1>4 DEF Requested
<1>6. CASE op.kind = "add"
  <2>1. ASSUME NEW n \in op.names PROVE StoredVec(n) = Requested[n]
    <3>1. PICK i \in DOMAIN op.objs : n = op.objs[i].name
      BY <1>6, RequestHolds
    <3>2. n \in Names /\ idmap[n] = op.ids[i] /\ op.ids[i] # NoId /\ vec[op.ids[i]] = op.objs[i].vec
      BY <1>1, <1>2, <1>6, <3>1, RequestHolds DEF AddMapped, VecsStored
    <3>3. Image.mark[idmap[n]] = "live"
      BY <1>1, <1>2, <3>2 DEF LiveOwned, Adding, WithIds, Saving
    <3> QED
      BY <1>6, <3>1, <3>2, <3>3, RequestHolds DEF StoredVec
  <2> QED
    BY <1>3, <1>5, <1>6, <2>1, RequestHolds, MapResponds
<1>7. CASE op.kind = "delete"
  <2>1. ASSUME NEW n \in op.names PROVE StoredVec(n) = Requested[n]
    <3>1. PICK i \in DOMAIN op.ids : n = meta[op.ids[i]].name
      BY <1>1, <1>7 DEF DeleteDrops
    <3>2. ~ToDrop(i)
      BY <1>2 DEF ToDrop, Saving
    <3>3. idmap[n] = NoId
      BY <1>1, <1>7, <3>1, <3>2 DEF DeleteDrops
    <3> QED
      BY <1>7, <3>3, RequestHolds DEF StoredVec
  <2> QED
    BY <1>3, <1>5, <1>7, <2>1, RequestHolds, MapResponds
<1>8. CASE op.kind \notin {"add", "delete"}
  <2>1. Requested = [n \in {} |-> NoVec]
    BY <1>8, NoRequestLeft
  <2> QED
    BY <1>3, <1>5, <2>1, MapResponds
<1> QED
  BY <1>6, <1>7, <1>8

LEMMA StepIsMapStep ==
  WellMeant /\ IndexInv /\ IndexInv' /\ PlainInv /\ [Next]_vars => [Map!MapNext]_(Map!mapVars)
<1> SUFFICES ASSUME WellMeant, IndexInv, IndexInv', PlainInv, [Next]_vars
             PROVE  [Map!MapNext]_(Map!mapVars)
  OBVIOUS
<1>1. Typed /\ Typed'
  BY InvTyped, PTL
<1>2. CASE \/ UNCHANGED vars
           \/ AddTakesDeleted \/ AddTakesFresh \/ AddLogsIds
           \/ AddStoresMeta \/ AddStoresFilters \/ AddLogsOps
           \/ DeleteLogs
           \/ \E n \in Names, t \in UpdateTags : BeginRetag(n, t)
           \/ RetagRemoves \/ RetagStoresMeta \/ RetagAdds
           \/ BeginSave \/ SaveWhenLong \/ SaveImage \/ SaveClearsWal \/ Evict \/ Load
  BY <1>1, <1>2, StandingSteps
<1>3. CASE \/ \E t \in Threads, objs \in Batches : BeginAdd(t, objs)
           \/ \E n \in Names : DeleteByName(n)
           \/ \E t \in Tags : DeleteByFilter(t)
  BY <1>1, <1>3, RequestSteps
<1>4. CASE AddWritesMappings \/ DeleteMarks
  BY <1>1, <1>4, HiddenSteps
<1>5. CASE AddStoresVectors \/ AddToGraph \/ DeleteUnmaps
  BY <1>1, <1>5, EffectSteps
<1>6. CASE AnswerWhenShort \/ SaveCounts
  BY <1>1, <1>6, AnswerSteps
<1>7. CASE \/ AddFindsBadVector \/ AddFindsOwnTransaction \/ DeleteFindsNoMeta
           \/ RecoverEntry \/ RecoverEnds \/ Crash
  BY <1>1, <1>7, NothingFails
<1> QED
  BY <1>2, <1>3, <1>4, <1>5, <1>6, <1>7 DEF Next, Step

LEMMA InitIsMapInit == Init => Map!MapInit
<1> SUFFICES ASSUME Init PROVE Map!MapInit
  OBVIOUS
<1>1. op.kind = "none" /\ idmap = [n \in Names |-> NoId]
  BY DEF Init, IdInit, NoOp
<1>2. Requested = Map!NoRequest
  BY <1>1, NoRequestLeft DEF Map!NoRequest
<1>3. [n \in Names |-> StoredVec(n)] = [n \in Names |-> NoVec]
  BY <1>1 DEF StoredVec
<1> QED
  BY <1>2, <1>3 DEF Map!MapInit

\* Under well-meant requests an index is a map from string ids to vectors: every write of an
\* insert or deletion takes effect once, between the request and its answer, and nothing else
\* that is done to an index or happens inside it changes an object.
THEOREM IndexImplementsMap ==
  ASSUME WellMeant
  PROVE  Spec => ImplementsMap
<1>1. Init => Map!MapInit
  BY InitIsMapInit
<1>2. IndexInv /\ IndexInv' /\ PlainInv /\ [Next]_vars => [Map!MapNext]_(Map!mapVars)
  BY StepIsMapStep
<1> QED
  BY <1>1, <1>2, IndexInvariant, PlainInvariant, PTL DEF Spec, ImplementsMap, Map!MapSpec
-------------------------------------------------------------------------------
(* Recovery rebuilds the graph.                                            *)

\* The graphs of a recovery, one for each number of entries.
IsRecovery(after, g, entries, n) ==
  after = [i \in 0..n |-> IF i = 0 THEN g ELSE Recover(after[i - 1], entries[i])]

LEMMA RecoveryGoesOn ==
  ASSUME NEW g, NEW entries, NEW n \in Nat
  PROVE  \E after : IsRecovery(after, g, entries, n)
<1> DEFINE T == {m \in Nat : ~\E after : IsRecovery(after, g, entries, m)}
<1>1. SUFFICES ASSUME T # {} PROVE FALSE
  OBVIOUS
<1>2. PICK m \in T : \A k \in T : m <= k
  <2>1. T \subseteq Nat
    OBVIOUS
  <2> QED
    BY <1>1, <2>1, LeastExists
<1>3. m \in Nat /\ ~\E after : IsRecovery(after, g, entries, m)
  BY <1>2
<1>4. CASE m = 0
  <2> DEFINE f == [i \in 0..0 |-> g]
  <2>1. f = [i \in 0..0 |-> IF i = 0 THEN g ELSE Recover(f[i - 1], entries[i])]
    OBVIOUS
  <2> HIDE DEF f
  <2>2. IsRecovery(f, g, entries, 0)
    BY <2>1 DEF IsRecovery
  <2> QED
    BY <1>3, <1>4, <2>2
<1>5. CASE m # 0
  <2>1. m - 1 \in Nat /\ m - 1 \notin T
    <3>1. m - 1 \in Nat /\ ~(m <= m - 1)
      BY <1>3, <1>5
    <3> QED
      BY <1>2, <3>1
  <2>2. PICK f : IsRecovery(f, g, entries, m - 1)
    BY <2>1
  <2> HIDE DEF T
  <2> DEFINE h == [i \in 0..m |-> IF i = m THEN Recover(f[m - 1], entries[m]) ELSE f[i]]
  <2>3. ASSUME NEW i \in 0..m
        PROVE  h[i] = IF i = 0 THEN g ELSE Recover(h[i - 1], entries[i])
    <3>1. CASE i = m
      <4>1. m - 1 \in 0..m /\ m - 1 # m /\ i # 0
        BY <1>3, <1>5, <3>1
      <4>2. h[i] = Recover(f[m - 1], entries[m]) /\ h[m - 1] = f[m - 1]
        BY <3>1, <4>1
      <4> HIDE DEF h
      <4> QED
        BY <3>1, <4>1, <4>2
    <3>2. CASE i # m /\ i = 0
      <4>1. 0 \in 0..(m - 1)
        BY <2>1
      <4>2. f[0] = g
        BY <2>2, <4>1 DEF IsRecovery
      <4> QED
        BY <3>2, <4>2
    <3>3. CASE i # m /\ i # 0
      <4>1. i \in 0..(m - 1) /\ i - 1 \in 0..m /\ i - 1 # m
        BY <1>3, <2>3, <3>3
      <4>2. f[i] = Recover(f[i - 1], entries[i])
        BY <2>2, <3>3, <4>1 DEF IsRecovery
      <4>3. h[i] = f[i] /\ h[i - 1] = f[i - 1]
        BY <3>3, <4>1
      <4> HIDE DEF h
      <4> QED
        BY <3>3, <4>2, <4>3
    <3> QED
      BY <3>1, <3>2, <3>3
  <2>4. h = [i \in 0..m |-> h[i]]
    OBVIOUS
  <2> HIDE DEF h
  <2>5. IsRecovery(h, g, entries, m)
    BY <2>3, <2>4 DEF IsRecovery
  <2> QED
    BY <1>3, <2>5
<1> QED
  BY <1>4, <1>5

LEMMA RecoveryDefined ==
  ASSUME NEW g, NEW entries \in Seq(WalRecords)
  PROVE  \E after : IsRecovery(after, g, entries, Len(entries)) /\ Recovered(g, entries) = after[Len(entries)]
<1> DEFINE f == CHOOSE after : IsRecovery(after, g, entries, Len(entries))
<1>1. Len(entries) \in Nat
  OBVIOUS
<1>2. IsRecovery(f, g, entries, Len(entries))
  BY <1>1, RecoveryGoesOn
<1>3. Recovered(g, entries) = f[Len(entries)]
  BY DEF Recovered, IsRecovery
<1> QED
  BY <1>2, <1>3

LoggedTo(n, l, o) == \E k \in 1..n : wal[k] = [op |-> o, id |-> l]

\* The image with the first n records of the log applied.
FollowsLog(g, n) ==
  /\ g \in Graphs /\ CountsDeleted(g)
  /\ \A l \in Labels : g.mark[l] = IF LoggedTo(n, l, "DELETE") THEN "deleted" ELSE disk.mark[l]
  /\ \A l \in Labels : g.at[l] = IF LoggedTo(n, l, "UPDATE") THEN vec[l] ELSE disk.at[l]

\* The log one record further.
LEMMA LoggedNext ==
  ASSUME wal \in Seq(WalRecords), NEW n \in Nat, n + 1 \in DOMAIN wal,
         NEW l, NEW o
  PROVE  LoggedTo(n + 1, l, o) <=> LoggedTo(n, l, o) \/ wal[n + 1] = [op |-> o, id |-> l]
<1>1. 1..(n + 1) = 1..n \cup {n + 1}
  OBVIOUS
<1> QED
  BY <1>1 DEF LoggedTo

\* One iteration of the recovery's loop goes one record further.
LEMMA RecoveryFollows ==
  ASSUME wal \in Seq(WalRecords), disk \in Graphs, vec \in [Labels -> Vecs \cup {NoVec}],
         AddsIn(wal) = {}, RecordsReplay,
         NEW n \in Nat, n + 1 \in DOMAIN wal, NEW g, FollowsLog(g, n)
  PROVE  FollowsLog(Recover(g, wal[n + 1]), n + 1)
<1> DEFINE entry == wal[n + 1]
           id == entry.id
           h == Recover(g, entry)
<1>1. /\ entry \in WalRecords /\ id \in Labels /\ entry.op \in {"UPDATE", "DELETE"}
      /\ entry = [op |-> entry.op, id |-> id]
  <2>1. entry \in WalRecords
    OBVIOUS
  <2>2. entry.op # "ADD"
    BY DEF AddsIn
  <2> HIDE DEF entry
  <2> QED
    BY <2>1, <2>2 DEF WalRecords, WalOps
<1>2. g \in Graphs /\ CountsDeleted(g)
  BY DEF FollowsLog
<1>3. ~LoggedTo(n, id, "DELETE")
  <2>1. ASSUME NEW k \in 1..n, wal[k] = [op |-> "DELETE", id |-> id] PROVE FALSE
    <3>1. k \in DOMAIN wal /\ k < n + 1
      OBVIOUS
    <3>2. wal[k].id = id /\ wal[k].op = "DELETE"
      BY <2>1
    <3> HIDE DEF id
    <3>3. wal[k].op = "UPDATE"
      BY <3>1, <3>2 DEF RecordsReplay, id
    <3> QED
      BY <3>2, <3>3
  <2> QED
    BY <2>1 DEF LoggedTo
<1>4. g.mark[id] = "live"
  <2>1. disk.mark[id] = "live"
    BY DEF RecordsReplay
  <2> HIDE DEF id
  <2> QED
    BY <1>1, <1>3, <2>1 DEF FollowsLog
<1>5. entry.op = "UPDATE" => vec[id] # NoVec
  BY DEF RecordsReplay
<1>6. \A l \in Labels, o \in WalOps : LoggedTo(n + 1, l, o) <=> LoggedTo(n, l, o) \/ entry = [op |-> o, id |-> l]
  BY LoggedNext
<1> HIDE DEF entry, id
<1>7. \A l \in Labels, o \in WalOps : entry = [op |-> o, id |-> l] <=> l = id /\ o = entry.op
  <2>1. ASSUME NEW l \in Labels, NEW o \in WalOps, entry = [op |-> o, id |-> l]
        PROVE  l = id /\ o = entry.op
    BY <2>1 DEF id
  <2> QED
    BY <1>1, <2>1
<1>8. CASE entry.op = "UPDATE"
  <2>1. h = AddPoints(g, {}, {id}, vec)
    BY <1>5, <1>8 DEF Recover, id
  <2>2. h \in Graphs
    BY <1>1, <1>2, RecoverIsGraph
  <2>3. CountsDeleted(h)
    BY <1>1, <1>2, <2>1, AddPointsCountsExactly
  <2>4. \A l \in Labels : h.mark[l] = g.mark[l] /\ h.at[l] = IF l = id THEN vec[l] ELSE g.at[l]
    BY <1>1, <1>4, <2>1 DEF AddPoints
  <2> HIDE DEF h
  <2>5. \A l \in Labels : LoggedTo(n + 1, l, "DELETE") <=> LoggedTo(n, l, "DELETE")
    BY <1>6, <1>7, <1>8 DEF WalOps
  <2>6. \A l \in Labels : LoggedTo(n + 1, l, "UPDATE") <=> LoggedTo(n, l, "UPDATE") \/ l = id
    BY <1>6, <1>7, <1>8 DEF WalOps
  <2>7. \A l \in Labels : h.mark[l] = IF LoggedTo(n + 1, l, "DELETE") THEN "deleted" ELSE disk.mark[l]
    BY <2>4, <2>5 DEF FollowsLog
  <2>8. \A l \in Labels : h.at[l] = IF LoggedTo(n + 1, l, "UPDATE") THEN vec[l] ELSE disk.at[l]
    BY <2>4, <2>6 DEF FollowsLog
  <2>9. FollowsLog(h, n + 1)
    BY <2>2, <2>3, <2>7, <2>8 DEF FollowsLog
  <2> QED
    BY <2>9 DEF h, entry
<1>9. CASE entry.op = "DELETE"
  <2>1. h = MarkDelete(g, id)
    BY <1>4, <1>9 DEF Recover, CanMark, id
  <2>2. h \in Graphs
    BY <1>1, <1>2, RecoverIsGraph
  <2>3. CountsDeleted(h)
    BY <1>1, <1>2, <1>4, <2>1, MarkDeleteCountsExactly
  <2>4. \A l \in Labels : h.mark[l] = (IF l = id THEN "deleted" ELSE g.mark[l]) /\ h.at[l] = g.at[l]
    BY <1>1, <1>2, <2>1 DEF MarkDelete, Graphs
  <2> HIDE DEF h
  <2>5. \A l \in Labels : LoggedTo(n + 1, l, "DELETE") <=> LoggedTo(n, l, "DELETE") \/ l = id
    BY <1>6, <1>7, <1>9 DEF WalOps
  <2>6. \A l \in Labels : LoggedTo(n + 1, l, "UPDATE") <=> LoggedTo(n, l, "UPDATE")
    BY <1>6, <1>7, <1>9 DEF WalOps
  <2>7. \A l \in Labels : h.mark[l] = IF LoggedTo(n + 1, l, "DELETE") THEN "deleted" ELSE disk.mark[l]
    BY <2>4, <2>5 DEF FollowsLog
  <2>8. \A l \in Labels : h.at[l] = IF LoggedTo(n + 1, l, "UPDATE") THEN vec[l] ELSE disk.at[l]
    BY <2>4, <2>6 DEF FollowsLog
  <2>9. FollowsLog(h, n + 1)
    BY <2>2, <2>3, <2>7, <2>8 DEF FollowsLog
  <2> QED
    BY <2>9 DEF h, entry
<1> QED
  BY <1>1, <1>8, <1>9

\* The recovery applies the whole log, by the least number of records at which it would not.
LEMMA RecoveryReplaysLog ==
  ASSUME wal \in Seq(WalRecords), disk \in Graphs, vec \in [Labels -> Vecs \cup {NoVec}],
         CountsDeleted(disk), AddsIn(wal) = {}, RecordsReplay
  PROVE  FollowsLog(Recovered(disk, wal), Len(wal))
<1>1. PICK after : IsRecovery(after, disk, wal, Len(wal)) /\ Recovered(disk, wal) = after[Len(wal)]
  BY RecoveryDefined
<1>2. Len(wal) \in Nat
  OBVIOUS
<1>3. after[0] = disk
  <2>1. 0 \in 0..Len(wal)
    BY <1>2
  <2> QED
    BY <1>1, <2>1 DEF IsRecovery
<1> DEFINE T == {n \in 0..Len(wal) : ~FollowsLog(after[n], n)}
<1>4. SUFFICES ASSUME T # {} PROVE FALSE
  BY <1>1, <1>2
<1>5. PICK m \in T : \A k \in T : m <= k
  <2>1. T \subseteq Nat
    BY <1>2
  <2> QED
    BY <1>4, <2>1, LeastExists
<1>6. m \in 0..Len(wal) /\ ~FollowsLog(after[m], m)
  BY <1>5
<1>7. CASE m = 0
  <2>1. \A l, o : ~LoggedTo(0, l, o)
    BY DEF LoggedTo
  <2>2. FollowsLog(disk, 0)
    BY <2>1 DEF FollowsLog
  <2> QED
    BY <1>3, <1>6, <1>7, <2>2
<1>8. CASE m # 0
  <2> DEFINE n == m - 1
  <2>1. n \in Nat /\ m = n + 1 /\ n \in 0..Len(wal) /\ ~(m <= n) /\ m \in DOMAIN wal
    BY <1>2, <1>6, <1>8
  <2>2. FollowsLog(after[n], n)
    BY <1>5, <2>1
  <2>3. after[m] = Recover(after[n], wal[m])
    BY <1>1, <1>6, <1>8 DEF IsRecovery
  <2> HIDE DEF n
  <2>4. FollowsLog(Recover(after[n], wal[m]), m)
    BY <2>1, <2>2, RecoveryFollows
  <2> QED
    BY <1>6, <2>3, <2>4
<1> QED
  BY <1>7, <1>8

\* Under well-meant requests the process may die between any two of them: the log covers all that
\* is not in the saved image, its replay by the next load gives the very graph that was in memory
\* (unless the log has a new object: see lost_insert), and what is evicted is saved.
THEOREM AlwaysRecoverable ==
  ASSUME WellMeant
  PROVE  Spec => []Recoverable
<1>1. IndexInv /\ PlainInv => Recoverable
  <2> SUFFICES ASSUME IndexInv, PlainInv, Idle PROVE Recoverable
    BY DEF Recoverable, WriteAheadCover, RecoveryExact, CleanIsSaved
  <2>1. /\ LogCovers /\ Replays /\ SavedUnlessUpdated
        /\ CountsDeleted(mem) /\ CountsDeleted(disk)
    BY DEF PlainInv, DelExact, CountsDeleted
  <2>2. /\ wal \in Seq(WalRecords) /\ disk \in Graphs /\ mem \in Graphs
        /\ vec \in [Labels -> Vecs \cup {NoVec}] /\ op.stage = "none"
    BY DEF IndexInv, IndexTypeOK, OpShape, Idle
  <2>3. Pending = {} /\ Dropping = {} /\ ~Ahead /\ Image = mem /\ loaded /\ op.kind = "none"
    BY DEF Idle, Pending, Dropping, Ahead, Adding, At, Image
  <2>4. WriteAheadCover
    <3>1. ASSUME NEW l \in Labels, <<mem.mark[l], mem.at[l]>> # <<disk.mark[l], disk.at[l]>>
          PROVE  LET R == {i \in DOMAIN wal : wal[i].id = l}
                 IN  /\ R # {}
                     /\ wal[LastOf(R)].op \in IF mem.mark[l] = "deleted" THEN {"DELETE"}
                                                                          ELSE {"ADD", "UPDATE"}
      <4>1. LastIs(wal, l, IF mem.mark[l] = "deleted" THEN {"DELETE"} ELSE {"ADD", "UPDATE"})
        BY <2>1, <2>3, <3>1 DEF LogCovers
      <4> QED
        BY <4>1 DEF LastIs, RecordsOf
    <3> QED
      BY <3>1 DEF WriteAheadCover
  <2>5. RecoveryExact
    <3> SUFFICES ASSUME AddsIn(wal) = {} PROVE Recovered(disk, ReadEntries(wal)) = mem
      BY DEF RecoveryExact
    <3> DEFINE g == Recovered(disk, wal)
    <3>1. ReadEntries(wal) = wal
      BY DEF ReadEntries
    <3>2. RecordsReplay /\ MarksReplay /\ VectorsReplay
      BY <2>1, <2>2 DEF Replays
    <3>3. FollowsLog(g, Len(wal))
      BY <2>1, <2>2, <3>2, RecoveryReplaysLog
    <3> HIDE DEF g
    <3>4. \A l, o : LoggedTo(Len(wal), l, o) <=> Logged(wal, l, o)
      BY <2>2 DEF LoggedTo, Logged
    <3>5. g \in Graphs /\ CountsDeleted(g)
      BY <3>3 DEF FollowsLog
    <3>6. \A l \in Labels : g.mark[l] = mem.mark[l]
      BY <2>3, <3>2, <3>3, <3>4 DEF FollowsLog, MarksReplay
    <3>7. \A l \in Labels : g.at[l] = mem.at[l]
      BY <2>3, <3>2, <3>3, <3>4 DEF FollowsLog, VectorsReplay
    <3>8. g.del = mem.del
      <4>1. LabelsMarked(g, "deleted") = LabelsMarked(mem, "deleted")
        BY <3>6 DEF LabelsMarked
      <4> QED
        BY <2>1, <3>5, <4>1 DEF CountsDeleted
    <3>9. g.mark = mem.mark /\ g.at = mem.at
      BY <2>2, <3>5, <3>6, <3>7 DEF Graphs
    <3>10. g = mem
      BY <2>2, <3>5, <3>8, <3>9 DEF Graphs
    <3> QED
      BY <3>1, <3>10 DEF g
  <2>6. CleanIsSaved
    BY <2>1, <2>3 DEF CleanIsSaved, SavedUnlessUpdated
  <2> QED
    BY <2>4, <2>5, <2>6 DEF Recoverable
<1> QED
  BY <1>1, IndexInvariant, PlainInvariant, PTL

================================================================================
