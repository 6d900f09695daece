----------------------------- MODULE MCRecovery -----------------------------
(* Recovery with two transactions and two pages.  The passing run gives     *)
(* every page and image the same word: tables and LSNs do not depend on it. *)
EXTENDS Recovery

CONSTANTS t1, t2, p1, p2, word

MCRecord(t, type, p, image) == [txn |-> t, type |-> type, page |-> p, image |-> image]

MCRecords ==
  {MCRecord(t, type, p1, NoImage) : t \in {t1, t2}, type \in {"WAL_BEGIN", "WAL_COMMIT"}}
  \cup {MCRecord(t2, "WAL_ABORT", p1, NoImage), MCRecord(t1, "WAL_UPDATE", p1, word),
        MCRecord(t2, "WAL_INSERT", p1, word), MCRecord(t2, "WAL_UPDATE", p2, NoImage),
        MCRecord(t1, "WAL_DELETE", p2, word), MCRecord(t1, "WAL_CLR", p2, word)}
=============================================================================
