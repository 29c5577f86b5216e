------------------------------- MODULE IdMapper -------------------------------
(***************************************************************************)
(* The string-id to numeric-id mapper of one index (storage/id_mapper.hpp).*)
(*                                                                         *)
(* The mapper keeps three things in one MDBX database: the mapping itself, *)
(* the list of ids freed by deletions (DELETED_IDS_KEY) and the next id    *)
(* never used (NEXT_ID_KEY).  create_ids_batch is not one transaction: it  *)
(* reads the mapping, takes ids from the free list, takes fresh ids and    *)
(* writes the mapping in four transactions, and the process can die, or a  *)
(* transaction fail, between any two of them.  Every committed transaction *)
(* survives the death of the process; `batch', the local state of the      *)
(* running create_ids_batch, does not.                                     *)
(*                                                                         *)
(* All callers hold the index's operation_mutex, so at most one batch runs *)
(* and no deletion runs beside it.                                         *)
(***************************************************************************)
EXTENDS Integers, Sequences, FiniteSets

CONSTANTS
  Names,        \* string ids
  NameBatches,  \* the sequences of string ids a request may carry
  MaxId         \* bound: the largest id (idInt has 32 bits; 0 is "no id")

ASSUME IdMapperAssumption ==
  /\ NameBatches \subseteq Seq(Names)
  /\ MaxId \in Nat

NoId == 0

VARIABLES
  idmap,        \* idmap[n]: the id of string id n, NoId when it has none
  deletedIds,   \* DELETED_IDS_KEY: ids free for reuse, oldest first
  nextId,       \* NEXT_ID_KEY
  batch         \* the create_ids_batch in progress

idVars == <<idmap, deletedIds, nextId, batch>>

BatchStages == {"none", "lookedUp", "taken", "allocated"}

NoBatch == [stage |-> "none", names |-> <<>>, reuse |-> FALSE,
            old |-> <<>>, alloc |-> <<>>, reused |-> 0]

-------------------------------------------------------------------------------
\* Positions of the batch whose string id has no id yet.
NewAt(old) == {i \in DOMAIN old : old[i] = NoId}

\* Position i is the Rank-th of those: it gets the Rank-th allocated id.
Rank(old, i) == Cardinality({j \in NewAt(old) : j <= i})

Needed == Cardinality(NewAt(batch.old))

IdAt(i) == IF batch.old[i] = NoId THEN batch.alloc[Rank(batch.old, i)]
                                  ELSE batch.old[i]

\* Mutant: is_new_to_hnsw set for reused ids too.
IsNewAtWhenReused(i) == batch.old[i] = NoId

\* is_new_to_hnsw: an id taken from the free list is treated as an update.
IsNewAt(i) == batch.old[i] = NoId /\ Rank(batch.old, i) > batch.reused

\* The ids create_ids_batch returns, and the flag it returns with each.
BatchIds   == [i \in DOMAIN batch.names |-> IdAt(i)]
BatchIsNew == [i \in DOMAIN batch.names |-> IsNewAt(i)]

Smaller(m, n) == IF m < n THEN m ELSE n

-------------------------------------------------------------------------------
\* Mutant: the read-only transaction finds nothing.
LookUpFindsNothing(names, reuse) ==
  /\ batch.stage = "none"
  /\ names # <<>>
  /\ nextId + Len(names) <= MaxId + 1
  /\ batch' = [stage |-> "lookedUp", names |-> names, reuse |-> reuse,
               old |-> [i \in DOMAIN names |-> NoId], alloc |-> <<>>, reused |-> 0]
  /\ UNCHANGED <<idmap, deletedIds, nextId>>

\* The read-only transaction: the current id of every string id of the batch.
\* MaxId bounds the requests, so that a batch once begun never lacks fresh ids.
LookUp(names, reuse) ==
  /\ batch.stage = "none"
  /\ names # <<>>
  /\ nextId + Cardinality({i \in DOMAIN names : idmap[names[i]] = NoId}) <= MaxId + 1
  /\ batch' = [stage |-> "lookedUp", names |-> names, reuse |-> reuse,
               old |-> [i \in DOMAIN names |-> idmap[names[i]]],
               alloc |-> <<>>, reused |-> 0]
  /\ UNCHANGED <<idmap, deletedIds, nextId>>

\* Mutant: the ids taken are not removed from the free list.
TakeDeletedKeepsList ==
  /\ batch.stage = "lookedUp"
  /\ LET k == IF batch.reuse THEN Smaller(Needed, Len(deletedIds)) ELSE 0
     IN  batch' = [batch EXCEPT !.stage = "taken", !.reused = k,
                                !.alloc = SubSeq(deletedIds, 1, k)]
  /\ UNCHANGED <<idmap, deletedIds, nextId>>

\* getDeletedIds: take the oldest free ids, as many as there are new names
\* (nothing in create_ids_batch<false>).
TakeDeleted ==
  /\ batch.stage = "lookedUp"
  /\ LET k == IF batch.reuse THEN Smaller(Needed, Len(deletedIds)) ELSE 0
     IN  /\ batch' = [batch EXCEPT !.stage = "taken", !.reused = k,
                                   !.alloc = SubSeq(deletedIds, 1, k)]
         /\ deletedIds' = SubSeq(deletedIds, k + 1, Len(deletedIds))
  /\ UNCHANGED <<idmap, nextId>>

\* get_next_ids: consecutive fresh ids for the new names still without one.
TakeFresh ==
  /\ batch.stage = "taken"
  /\ LET k == Needed - Len(batch.alloc)
     IN  /\ batch' = [batch EXCEPT !.stage = "allocated",
                        !.alloc = @ \o [j \in 1..k |-> nextId + j - 1]]
         /\ nextId' = nextId + k
  /\ UNCHANGED <<idmap, deletedIds>>

\* The write transaction.  A name that occurs twice is written twice
\* (MDBX_UPSERT): its last position decides.
NewPositionsOf(n) == {i \in NewAt(batch.old) : batch.names[i] = n}

LastOf(P) == CHOOSE i \in P : \A j \in P : j <= i

WriteMappings ==
  /\ batch.stage = "allocated"
  /\ idmap' = [n \in Names |-> IF NewPositionsOf(n) = {} THEN idmap[n]
                               ELSE IdAt(LastOf(NewPositionsOf(n)))]
  /\ batch' = NoBatch
  /\ UNCHANGED <<deletedIds, nextId>>

\* deletePoints({n}): drop the mapping and append its id to the free list.
DeletePoint(n) ==
  /\ batch.stage = "none"
  /\ IF idmap[n] = NoId
     THEN UNCHANGED <<idmap, deletedIds>>
     ELSE /\ idmap' = [idmap EXCEPT ![n] = NoId]
          /\ deletedIds' = Append(deletedIds, idmap[n])
  /\ UNCHANGED <<nextId, batch>>

\* The process dies, or one of the transactions throws: what was taken so far
\* stays taken, the batch is forgotten.
AbandonBatch ==
  /\ batch' = NoBatch
  /\ UNCHANGED <<idmap, deletedIds, nextId>>

-------------------------------------------------------------------------------
\* init_next_id starts the ids at 1.
IdInit ==
  /\ idmap = [n \in Names |-> NoId]
  /\ deletedIds = <<>>
  /\ nextId = 1
  /\ batch = NoBatch

IdNext ==
  \/ \E names \in NameBatches, reuse \in BOOLEAN : LookUp(names, reuse)
  \/ TakeDeleted
  \/ TakeFresh
  \/ WriteMappings
  \/ \E n \in Names : DeletePoint(n)
  \/ AbandonBatch

IdSpec == IdInit /\ [][IdNext]_idVars

-------------------------------------------------------------------------------
\* Types of the mapper's state.
IdTypeOK ==
  /\ idmap \in [Names -> Nat]
  /\ deletedIds \in Seq(Nat)
  /\ nextId \in Nat
  /\ batch \in [stage : BatchStages, names : Seq(Names), reuse : BOOLEAN,
                old : Seq(Nat), alloc : Seq(Nat), reused : Nat]

\* No two string ids are mapped to the same numeric id: a reader or a deletion
\* of one string id never reaches the vector of another through the mapper.
OneOwner ==
  \A m, n \in Names : idmap[m] # NoId /\ idmap[m] = idmap[n] => m = n

\* An id on the free list belongs to no string id and is there once, so that
\* reusing it can never give one id to two string ids.
FreeIdsUnowned ==
  /\ \A i \in DOMAIN deletedIds : \A n \in Names : deletedIds[i] # idmap[n]
  /\ \A i, j \in DOMAIN deletedIds : deletedIds[i] = deletedIds[j] => i = j

\* An id is handed out only once: whatever is mapped, free or taken by the
\* running batch lies below the persistent counter.
IdsBelowNext ==
  /\ \A n \in Names : idmap[n] < nextId
  /\ \A i \in DOMAIN deletedIds : deletedIds[i] \in 1..(nextId - 1)
  /\ \A i \in DOMAIN batch.alloc : batch.alloc[i] \in 1..(nextId - 1)

\* A string id that a deletion or a batch leaves alone keeps its id: an id
\* changes only from or to "no id".
IdIsStable ==
  [][\A n \in Names : idmap'[n] = idmap[n] \/ NoId \in {idmap[n], idmap'[n]}]_idVars

-------------------------------------------------------------------------------
(* The inductive invariant.  While a batch runs, what it took belongs to   *)
(* nobody else, and what it read of the mapping still holds.               *)

TakenIdsUnshared ==
  /\ \A i, j \in DOMAIN batch.alloc : batch.alloc[i] = batch.alloc[j] => i = j
  /\ \A i \in DOMAIN batch.alloc :
       /\ \A n \in Names : batch.alloc[i] # idmap[n]
       /\ \A j \in DOMAIN deletedIds : batch.alloc[i] # deletedIds[j]

LookedUpHolds ==
  /\ DOMAIN batch.old = DOMAIN batch.names
  /\ \A i \in DOMAIN batch.names : batch.old[i] = idmap[batch.names[i]]

TakenEnough ==
  /\ batch.stage = "none" => batch = NoBatch
  /\ batch.stage = "lookedUp" => batch.alloc = <<>>
  /\ batch.stage = "taken" => Len(batch.alloc) <= Needed
  /\ batch.stage = "allocated" => Len(batch.alloc) = Needed

\* OneOwner and FreeIdsUnowned are not inductive: WriteMappings would break them
\* were the ids in the hands of the batch shared, stale or too few.
IdInv ==
  /\ IdTypeOK
  /\ nextId >= 1
  /\ OneOwner /\ FreeIdsUnowned /\ IdsBelowNext
  /\ TakenIdsUnshared /\ LookedUpHolds /\ TakenEnough
===============================================================================
