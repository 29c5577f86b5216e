---------------------------- MODULE MCIndexCache ----------------------------
(***************************************************************************)
(* Instances of IndexCache small enough for TLC.                           *)
(***************************************************************************)
EXTENDS IndexCache

CONSTANTS r1, r2, r3, x1, x2, x3, old, saved

\* x1 is used and deleted by several, x2 is loaded with a log, deleted and made again, x3
\* is created or restored while others delete and use it.  Nobody writes x2 while another
\* loads it, x3 is made once, and nobody writes an index restored after its deletion.
MixedAsks ==
  {<<r1, "write", x2>>, <<r1, "create", x3>>, <<r2, "write", x1>>, <<r2, "delete", x1>>,
   <<r2, "create", x2>>, <<r1, "restore", x3>>, <<r3, "delete", x2>>, <<r2, "delete", x3>>}
    \cup ({r3} \X {"write", "read", "save"} \X {x1, x3})

OldLog == [x \in Indexes |-> IF x = x2 THEN {old} ELSE {}]

Sizes == [x \in Indexes |-> CASE x = x1 -> 3 [] x = x2 -> 2 [] x = x3 -> 1]

\* The hypothesis of the theorem about the shape of the cache holds of these requests.
ASSUME MixedAsksHaveOneMaker == OneMaker
=============================================================================
