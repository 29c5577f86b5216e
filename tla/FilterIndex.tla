----------------------------- MODULE FilterIndex -----------------------------
(***************************************************************************)
(* The filters of an index (filter/filter.hpp): the types fields are bound *)
(* to by the first value seen, the category index                          *)
(* (filter/category_index.hpp), the numeric index, and the queries over    *)
(* them, under the changes VectorStorage makes: a filter stored with a new *)
(* vector, updated, or removed with its vector.                            *)
(*                                                                         *)
(* A change of one filter is a transaction for every field of it, and      *)
(* queries run in between; an error ends it, logged and swallowed.  One    *)
(* change is made at a time (operation_mutex).  What a vector stored over  *)
(* leaves in the category index is part of IndexStore.                     *)
(*                                                                         *)
(* A filter gives fields typed values; category values are the texts keys  *)
(* are made of ("1" and "0" for booleans).  Only NumField is ever given    *)
(* numbers: the other fields' numeric indices would be copies of its.      *)
(***************************************************************************)
EXTENDS NumericIndex

CONSTANTS
  Fields, NumField,
  Filters,      \* functions on sets of fields
  NoFilter,
  Half, Gap,    \* the sortable key of 0, and the distance of a float's key from an integer's
  Conditions,   \* the conditions of queries: a field, and values or a range of numbers
  MaxTorn       \* bound on the vectors whose change is cut short

Number(kind, n) == [type |-> "Number", kind |-> kind, n |-> n]

Text(type, s) == [type |-> type, text |-> s]

\* int_to_sortable and float_to_sortable: in order, each; but 1.0 comes after every integer.
Sortable(x) ==
  CASE x.kind = "int" \/ x.n = 0 -> Half + x.n
    [] x.n > 0                   -> Half + Gap + x.n
    [] OTHER                     -> Half - Gap + x.n

TextsOf(f) == {f[fld].text : fld \in {g \in DOMAIN f : f[g].type # "Number"}}

Texts == UNION {TextsOf(f) : f \in Filters}

ASSUME FilterAssumption ==
  /\ NumField \in Fields /\ NoFilter \notin Filters /\ MaxTorn \in Nat
  /\ \A f \in Filters : \A fld \in DOMAIN f :
       /\ fld \in Fields /\ f[fld].type \in {"Number", "String", "Bool"}
       /\ f[fld].type = "Number" => fld = NumField /\ Sortable(f[fld]) \in Values
  /\ \A c \in Conditions :
       /\ c.field \in Fields
       /\ IF c.op = "range"
            THEN Sortable(c.lo) \in Values /\ Sortable(c.hi) \in Values /\ Sortable(c.lo) <= Sortable(c.hi)
            ELSE \A x \in c.numbers : Sortable(x) \in Values

VARIABLES
  schema,     \* schema_cache_; "Unknown" is a field it lacks
  saved,      \* the schema in the database
  category,   \* category_idx: the ids of a field's text
  meta,       \* the filter in each vector's metadata; NoFilter also once it is removed
  op,         \* the change under way: its id, its stage, and the fields still to do
  torn,       \* history: ids whose change was cut short
  saveFailed  \* history: a schema was not saved

filterVars == <<schema, saved, category, meta, op, torn, saveFailed>>

allVars == <<filterVars, numericVars>>

NoChange == [stage |-> "none"]

FilterInit ==
  /\ NumericInit
  /\ schema = [f \in Fields |-> "Unknown"] /\ saved = schema
  /\ category = [k \in Fields \X Texts |-> {}]
  /\ meta = [i \in Ids |-> NoFilter] /\ op = NoChange
  /\ torn = {} /\ saveFailed = FALSE

FieldsOf(f) == IF f = NoFilter THEN {} ELSE DOMAIN f

Change(stage, id, old, new, todo) ==
  [stage |-> stage, id |-> id, old |-> old, new |-> new, todo |-> todo]

\* A change is over when it has added every field.
Settle(o) == IF o.stage = "add" /\ o.todo = {} THEN NoChange ELSE o

\* store_vectors_batch: the metadata, then the filter of a new vector.
Insert(id, f) ==
  /\ op.stage = "none" /\ meta[id] = NoFilter
  /\ meta' = [meta EXCEPT ![id] = f]
  /\ op' = Settle(Change("add", id, NoFilter, f, FieldsOf(f)))
  /\ UNCHANGED <<schema, saved, category, torn, saveFailed, numericVars>>

\* updateFilter, and deleteFilter, which adds nothing: the old filter is removed first.
Update(id, f) ==
  /\ op.stage = "none"
  /\ op' = Change("remove", id, meta[id], f, FieldsOf(meta[id]))
  /\ UNCHANGED <<schema, saved, category, meta, torn, saveFailed, numericVars>>

\* remove_filters_from_json: by the type of the value, not of the field.
RemoveField(fld) ==
  /\ op.stage = "remove" /\ fld \in op.todo
  /\ LET x == op.old[fld]
     IN  IF x.type = "Number" THEN Remove(op.id) /\ UNCHANGED category
         ELSE /\ category' = [category EXCEPT ![<<fld, x.text>>] = @ \ {op.id}]
              /\ UNCHANGED numericVars
  /\ op' = [op EXCEPT !.todo = @ \ {fld}]
  /\ UNCHANGED <<schema, saved, meta, torn, saveFailed>>

StoreMeta ==
  /\ op.stage = "remove" /\ op.todo = {}
  /\ meta' = [meta EXCEPT ![op.id] = op.new]
  /\ op' = Settle(Change("add", op.id, op.old, op.new, FieldsOf(op.new)))
  /\ UNCHANGED <<schema, saved, category, torn, saveFailed, numericVars>>

\* Mutant: a field's type is saved only when the index is closed.
RegisterUnsaved(fld, type) ==
  /\ schema' = IF schema[fld] = "Unknown" THEN [schema EXCEPT ![fld] = type] ELSE schema
  /\ UNCHANGED <<saved, saveFailed>>

\* register_field_type: the first type binds the field; that it cannot be saved is logged.
Register(fld, type) ==
  \/ /\ schema[fld] # "Unknown"
     /\ UNCHANGED <<schema, saved, saveFailed>>
  \/ /\ schema[fld] = "Unknown"
     /\ schema' = [schema EXCEPT ![fld] = type]
     /\ \/ saved' = schema' /\ UNCHANGED saveFailed
        \/ saveFailed' = TRUE /\ UNCHANGED saved

\* Mutant: a value of another type than the field's is indexed as well.
AddFieldAnyType(fld) ==
  /\ op.stage = "add" /\ fld \in op.todo
  /\ LET x == op.new[fld]
     IN  /\ Register(fld, x.type)
         /\ IF x.type = "Number" THEN Put(op.id, Sortable(x)) /\ UNCHANGED category
            ELSE /\ category' = [category EXCEPT ![<<fld, x.text>>] = @ \cup {op.id}]
                 /\ UNCHANGED numericVars
  /\ op' = Settle([op EXCEPT !.todo = @ \ {fld}])
  /\ UNCHANGED <<meta, torn>>

\* add_filters_from_json, for one field: a value of another type is passed over.
AddField(fld) ==
  /\ op.stage = "add" /\ fld \in op.todo
  /\ LET x == op.new[fld]
     IN  /\ Register(fld, x.type)
         /\ IF schema'[fld] # x.type THEN UNCHANGED <<category, numericVars>>
            ELSE IF x.type = "Number" THEN Put(op.id, Sortable(x)) /\ UNCHANGED category
            ELSE /\ category' = [category EXCEPT ![<<fld, x.text>>] = @ \cup {op.id}]
                 /\ UNCHANGED numericVars
  /\ op' = Settle([op EXCEPT !.todo = @ \ {fld}])
  /\ UNCHANGED <<meta, torn>>

CutShort == IF op.stage = "none" THEN torn ELSE torn \cup {op.id}

GiveUp ==
  /\ op.stage # "none" /\ Cardinality(CutShort) <= MaxTorn
  /\ op' = NoChange /\ torn' = CutShort
  /\ UNCHANGED <<schema, saved, category, meta, saveFailed, numericVars>>

\* The process ends, in the midst of a change or not, and the filters are opened again.
Restart ==
  /\ Cardinality(CutShort) <= MaxTorn
  /\ schema' = saved
  /\ op' = NoChange /\ torn' = CutShort
  /\ UNCHANGED <<saved, category, meta, saveFailed, numericVars>>

FilterNext ==
  \/ \E id \in Ids, f \in Filters : Insert(id, f)
  \/ \E id \in Ids, f \in Filters \cup {NoFilter} : Update(id, f)
  \/ \E fld \in Fields : RemoveField(fld) \/ AddField(fld)
  \/ StoreMeta \/ GiveUp \/ Restart

FilterSpec == FilterInit /\ [][FilterNext]_allVars

(***************************************************************************)
(* computeFilterBitmap, for one condition; a query's conditions are        *)
(* intersected.  A condition that throws is not one of Conditions, and a   *)
(* text no filter has is no key of the category index.                     *)
(***************************************************************************)
Matches(c) ==
  IF schema[c.field] # "Number" THEN UNION {category[<<c.field, s>>] : s \in c.texts \cap Texts}
  ELSE IF c.op = "range" THEN InRange(Sortable(c.lo), Sortable(c.hi))
  ELSE UNION {InRange(Sortable(x), Sortable(x)) : x \in c.numbers}

-----------------------------------------------------------------------------
FilterTypeOK ==
  /\ NumericTypeOK
  /\ schema \in [Fields -> {"Unknown", "Number", "String", "Bool"}]
  /\ saved \in [Fields -> {"Unknown", "Number", "String", "Bool"}]
  /\ category \in [Fields \X Texts -> SUBSET Ids]
  /\ meta \in [Ids -> Filters \cup {NoFilter}]
  /\ torn \subseteq Ids

\* The types, and the invariant of the numeric index whoever changes it.
FilterInv == FilterTypeOK /\ NumericInv

\* What a condition asks of a vector's filter.
Satisfies(f, c) ==
  /\ f # NoFilter /\ c.field \in DOMAIN f
  /\ LET x == f[c.field]
     IN  /\ x.type = schema[c.field]
         /\ IF x.type # "Number" THEN x.text \in c.texts
            ELSE IF c.op = "range"
              THEN Sortable(c.lo) <= Sortable(x) /\ Sortable(x) <= Sortable(c.hi)
            ELSE \E y \in c.numbers : Sortable(x) = Sortable(y)

Settled == {i \in Ids : i \notin torn /\ (op.stage # "none" => op.id # i)}

\* A condition finds exactly the vectors whose stored filter satisfies it, while another
\* vector's filter is changed and after changes that were cut short, theirs apart: through
\* types bound by whoever came first, across restarts, and with buckets split and emptied.
FilterExact ==
  ~wrapped /\ ~saveFailed =>
    \A c \in Conditions, i \in Settled : i \in Matches(c) <=> Satisfies(meta[i], c)

\* The type a field is bound to never changes, not even by a restart, unless it could not be
\* saved: what is indexed under it is saved after the binding.
TypesBound ==
  [][\A f \in Fields : schema[f] # "Unknown" /\ ~saveFailed' => schema'[f] = schema[f]]_allVars

=============================================================================
