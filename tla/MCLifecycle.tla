---------------------------- MODULE MCLifecycle ----------------------------
(* Four versions of the source: the second adds an indexed column, which    *)
(* cannot be migrated to from the first; the third does not compile; the    *)
(* fourth has a column without an index, which a migration leaves out.      *)
EXTENDS Lifecycle

McColumns == <<{"id"}, {"id", "owner"}, {"id"}, {"id", "value"}>>
McIndexed == <<{}, {"owner"}, {}, {}>>
============================================================================
