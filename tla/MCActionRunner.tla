--------------------------- MODULE MCActionRunner ---------------------------
(* Rows for ActionRunner: limited and unlimited, queued and inline, switched off, deleted. *)
EXTENDS ActionRunner

Saved(status, depth, limit) == [status |-> status, depth |-> depth, limit |-> limit]
ModelRows == {Saved("enabled", 1, TRUE), Saved("enabled", 2, FALSE), Saved("enabled", 0, TRUE),
              Saved("disabled", 1, TRUE), Saved("deleted", 1, TRUE)}
=============================================================================
