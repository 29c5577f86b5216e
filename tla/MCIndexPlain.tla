----------------------------- MODULE MCIndexPlain -----------------------------
(***************************************************************************)
(* The instance of MCIndexStore whose requests are all well-meant.         *)
(***************************************************************************)
EXTENDS MCIndexStore, IndexPlain

ASSUME PlainInstance == WellMeant
===============================================================================
