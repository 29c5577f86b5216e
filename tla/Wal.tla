--------------------------------- MODULE Wal ---------------------------------
(***************************************************************************)
(* The write-ahead log file of one index (storage/wal.hpp): the records    *)
(* log() appends and what readEntries() makes of them.                     *)
(***************************************************************************)
EXTENDS Naturals, Sequences, FiniteSets

WalOps == {"ADD", "UPDATE", "DELETE"}

\* log(): five bytes a record, the operation and the numeric id, whatever the
\* operation; flushed before it returns.
Records(op, ids) == [i \in DOMAIN ids |-> [op |-> op, id |-> ids[i]]]

AddsIn(log) == {i \in DOMAIN log : log[i].op = "ADD"}

(***************************************************************************)
(* readEntries() expects a string after every ADD: an 8-byte length and    *)
(* that many characters, which log() never wrote.  With at most one record *)
(* after the first ADD the length runs into the end of the file and the    *)
(* loop stops: the ADD and what follows are dropped.  With two or more the *)
(* length is read from the next two records; its sixth byte is an          *)
(* operation code, never zero, so it is at least 2^40 and resizing the     *)
(* string throws.                                                          *)
(***************************************************************************)
ReadThrows(log) == \E i \in AddsIn(log) : Len(log) >= i + 2

ReadEntries(log) ==
  IF AddsIn(log) = {} THEN log
  ELSE SubSeq(log, 1, (CHOOSE i \in AddsIn(log) :
                         \A j \in AddsIn(log) : i <= j) - 1)

\* WriteAheadLog(): an existing non-empty file counts as one entry.
CountOnOpen(log) == IF log = <<>> THEN 0 ELSE 1
===============================================================================
