--------------------------- MODULE ReadCommitted ----------------------------
(***************************************************************************)
(* What the units of work of this program share (app/core/db.py): the ORM  *)
(* session over PostgreSQL at READ COMMITTED.  A row is a record of its    *)
(* columns.                                                                *)
(***************************************************************************)

\* Variant: the UPDATE carries every column of the copy that was loaded.
NetChange_FullRow(old, new, now) == new

\* The UPDATE of a flush.  The attributes of the row were loaded as old and set
\* to new; a column is in the UPDATE only when the two differ, and is written
\* over the row as it is now, when the lock is granted.
NetChange(old, new, now) ==
  [f \in DOMAIN now |-> IF new[f] = old[f] THEN now[f] ELSE new[f]]
=============================================================================
