------------------------------- MODULE MCBackup -------------------------------
(***************************************************************************)
(* Instances of Backup small enough for TLC.                               *)
(***************************************************************************)
EXTENDS Backup

CONSTANTS r1, r2, n1, n2, x1, x2

\* A backup, and another of the same name or not, of the same index or not; or an upload
\* under its name or another, or a deletion of the first.
TwoAsks ==
  {<<r1, "create", n1, x1>>, <<r2, "delete", n1, x1>>}
    \cup ({r2} \X {"upload"} \X {n1, n2} \X {x1})
    \cup ({r2} \X {"create"} \X {n1, n2} \X {x1, x2})
===============================================================================
