----------------------------- MODULE HeapTable -----------------------------
(***************************************************************************)
(* What a heap promises: a table of rows under row ids.  An id is given to *)
(* one row only, for as long as the table exists.                          *)
(***************************************************************************)
CONSTANTS Rids, Images

VARIABLES
  table,   \* partial function from row ids to the bytes of the row
  used     \* the row ids ever given out

tableVars == <<table, used>>

With(rid, image) ==
  [r \in DOMAIN table \cup {rid} |-> IF r = rid THEN image ELSE table[r]]

TableInsert(rid, image) ==
  /\ rid \in Rids \ used
  /\ table' = With(rid, image)
  /\ used' = used \cup {rid}

TableUpdate(rid, image) ==
  rid \in DOMAIN table /\ table' = With(rid, image) /\ used' = used

TableDelete(rid) ==
  /\ rid \in DOMAIN table
  /\ table' = [r \in DOMAIN table \ {rid} |-> table[r]]
  /\ used' = used

TableInit == used = {} /\ table = [r \in {} |-> r]

TableNext ==
  \/ \E rid \in Rids, image \in Images : TableInsert(rid, image) \/ TableUpdate(rid, image)
  \/ \E rid \in DOMAIN table : TableDelete(rid)

TableSpec == TableInit /\ [][TableNext]_tableVars
=============================================================================
