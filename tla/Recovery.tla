------------------------------ MODULE Recovery ------------------------------
(***************************************************************************)
(* The recovery manager of src/transaction/recovery_manager.c over the     *)
(* log of module Wal and the pages of a buffer pool: analysis builds the   *)
(* table of active transactions (att) and of dirty pages (dpt), redo       *)
(* raises page LSNs, undo closes the transactions left open.  The three    *)
(* phases are called one by one (as the tests do) or by recovery_run.      *)
(*                                                                         *)
(* Every scan of the log goes on to the end of the file, which is where    *)
(* the one stream position has to be for the next wal_append.              *)
(*                                                                         *)
(* Clients append records and change the page as the record says; nothing  *)
(* in src writes data records yet, so the records are those of             *)
(* tests/test_transaction.c, with and without images.                      *)
(***************************************************************************)
EXTENDS Wal, FiniteSets, FiniteSetsExt

CONSTANTS
  Pages,
  Records,       \* the records clients append: [txn, type, page, image]
  NoImage,       \* the image of a record with after_size 0
  Blank,         \* what a page holds before any change
  MaxLog,        \* bound: records in the log of one process
  MaxRestarts    \* bound: how often the process dies

VARIABLES
  att,           \* transaction -> [last_lsn, status], a partial function
  dpt,           \* page -> rec_lsn, a partial function
  page,          \* page -> [lsn, data] as the buffer pool has it
  disk,          \* the same as the file has it
  seen,          \* history: length of the log when it was last analysed
  closed,        \* history: undo has run since
  settled,       \* history: recovery_run has run to the end on this log and
                 \* reached every page
  foreign,       \* history: pages whose LSN a process now dead has set
  promised,      \* history: page -> the image a commit has promised to keep,
                 \* Blank where there is no promise
  restarts

tableVars == <<att, dpt>>
historyVars == <<seen, closed, settled, foreign, promised>>
recoveryVars == <<walVars, tableVars, page, disk, historyVars, restarts>>

\* Status of a transaction in att.
ACTIVE == 0
COMMITTED == 1
ABORTED == 2

DataTypes == {"WAL_UPDATE", "WAL_INSERT", "WAL_DELETE"}
Changes(rec) == rec.type \in DataTypes /\ rec.image # NoImage

-----------------------------------------------------------------------------
(* Analysis *)

\* att once the record with this lsn has been read.  A commit or a data record
\* of a transaction without an entry is passed over.
AttWith(a, lsn) ==
  LET rec == log[lsn]
      entry(status) == [last_lsn |-> lsn, status |-> status]
      Known == rec.txn \in DOMAIN a
  IN CASE rec.type = "WAL_BEGIN" ->
            [t \in DOMAIN a \cup {rec.txn} |-> IF t = rec.txn THEN entry(ACTIVE) ELSE a[t]]
       [] rec.type = "WAL_COMMIT" /\ Known -> [a EXCEPT ![rec.txn] = entry(COMMITTED)]
       [] rec.type = "WAL_ABORT" /\ Known -> [a EXCEPT ![rec.txn] = entry(ABORTED)]
       [] rec.type \in DataTypes /\ Known -> [a EXCEPT ![rec.txn].last_lsn = lsn]
       [] OTHER -> a

\* Mutant of the next definition: entries of an earlier analysis are kept.
Analysed_KeepsOld(a) ==
  LET fresh[n \in 0 .. Len(log)] == IF n = 0 THEN [t \in {} |-> 0] ELSE AttWith(fresh[n - 1], n)
  IN [t \in DOMAIN a \cup DOMAIN fresh[Len(log)] |->
        IF t \in DOMAIN a THEN a[t] ELSE fresh[Len(log)][t]]

\* The table an analysis that starts with a ends with.
Analysed(a) ==
  LET after[n \in 0 .. Len(log)] == IF n = 0 THEN a ELSE AttWith(after[n - 1], n)
  IN after[Len(log)]

\* dpt keeps the entries it has; another page gets the first record on it.
Dirtied(d) ==
  LET touching(p) == {n \in DOMAIN log : log[n].type \in DataTypes /\ log[n].page = p}
  IN [p \in DOMAIN d \cup {q \in Pages : touching(q) # {}} |->
        IF p \in DOMAIN d THEN d[p] ELSE Min(touching(p))]

-----------------------------------------------------------------------------
(* Redo *)

\* Mutant of the next definition: the record that made the page dirty is skipped.
Redoes_AfterFirst(d, n, p, page_lsn) ==
  /\ log[n].type \in {"WAL_UPDATE", "WAL_INSERT"} /\ log[n].page = p
  /\ n > d[p] /\ n > page_lsn
  /\ log[n].image # NoImage

\* Record n, on a dirty page p with this LSN, counts as missing on it.
Redoes(d, n, p, page_lsn) ==
  /\ log[n].type \in {"WAL_UPDATE", "WAL_INSERT"} /\ log[n].page = p
  /\ n >= Min({d[q] : q \in DOMAIN d})
  /\ n >= d[p]
  /\ n > page_lsn
  /\ log[n].image # NoImage

\* The LSN of page p after the scan.  Its data stays as it is: the after image
\* is read from the log and dropped.
RedoneLsn(d, p) ==
  LET after[n \in 0 .. Len(log)] ==
        IF n = 0 THEN page[p].lsn
        ELSE IF p \in DOMAIN d /\ Redoes(d, n, p, after[n - 1]) THEN n ELSE after[n - 1]
  IN after[Len(log)]

\* All pages after a redo that cannot fetch the missing ones.
Redone(d, missing) ==
  [p \in Pages |-> IF p \in missing THEN page[p] ELSE [page[p] EXCEPT !.lsn = RedoneLsn(d, p)]]

-----------------------------------------------------------------------------
(* Undo *)

\* Active transactions become aborted ones, in the table only.
Undone(a) ==
  [t \in DOMAIN a |-> IF a[t].status = ACTIVE THEN [a[t] EXCEPT !.status = ABORTED] ELSE a[t]]

-----------------------------------------------------------------------------
(* Actions *)

\* Redo has marked these pages itself.
StillForeign(pages) == {p \in foreign : pages[p].lsn = page[p].lsn}

recovery_analysis ==
  /\ att' = Analysed(att) /\ dpt' = Dirtied(dpt)
  /\ seen' = Len(log) /\ closed' = FALSE /\ settled' = FALSE
  /\ UNCHANGED <<walVars, page, disk, foreign, promised, restarts>>

recovery_redo ==
  \E missing \in SUBSET Pages :
    /\ page' = Redone(dpt, missing)
    /\ foreign' = StillForeign(page') /\ settled' = FALSE
    /\ UNCHANGED <<walVars, tableVars, disk, seen, closed, promised, restarts>>

recovery_undo ==
  /\ att' = Undone(att)
  /\ closed' = TRUE
  /\ UNCHANGED <<walVars, dpt, page, disk, seen, settled, foreign, promised, restarts>>

\* Every phase answers DB_OK, whatever it could not reach.
recovery_run ==
  \E missing \in SUBSET Pages :
    /\ att' = Undone(Analysed(att)) /\ dpt' = Dirtied(dpt)
    /\ page' = Redone(Dirtied(dpt), missing)
    /\ foreign' = StillForeign(page')
    /\ seen' = Len(log) /\ closed' = TRUE /\ settled' = (missing = {})
    /\ UNCHANGED <<walVars, disk, promised, restarts>>

\* The numbers of the log records of t with these types.
Logged(t, types) == {n \in DOMAIN log : log[n].txn = t /\ log[n].type \in types}
LastOf(ns) == IF ns = {} THEN 0 ELSE Max(ns)

\* What page p is promised to hold once t commits: the last image of t, if t
\* has begun, is still open and nobody else has changed p in this log.
Kept(t, p) ==
  LET begun == LastOf(Logged(t, {"WAL_BEGIN"}))
      changes == {n \in DOMAIN log : log[n].page = p /\ Changes(log[n])}
  IN IF /\ begun > LastOf(Logged(t, {"WAL_COMMIT", "WAL_ABORT"}))
        /\ changes # {} /\ \A n \in changes : log[n].txn = t /\ n > begun
     THEN log[Max(changes)].image ELSE promised[p]

\* The promises after this record: a change makes the page's an open matter.
PromisedWith(rec) ==
  [p \in Pages |-> IF Changes(rec) /\ rec.page = p THEN Blank
                   ELSE IF rec.type = "WAL_COMMIT" THEN Kept(rec.txn, p) ELSE promised[p]]

\* A client logs a change and makes it, or logs the start or end of a
\* transaction; the end is flushed.
Log(rec) ==
  /\ Len(log) < MaxLog
  /\ wal_append(rec)
  /\ page' = IF Changes(rec) THEN [page EXCEPT ![rec.page].data = rec.image] ELSE page
  /\ IF rec.type \in {"WAL_COMMIT", "WAL_ABORT"} THEN wal_flush(current_lsn) ELSE UNCHANGED flushed_lsn
  /\ promised' = PromisedWith(rec)
  /\ settled' = FALSE
  /\ UNCHANGED <<tableVars, disk, seen, closed, foreign, restarts>>

\* The buffer pool writes a page out.
WriteOut(p) ==
  /\ disk' = [disk EXCEPT ![p] = page[p]]
  /\ UNCHANGED <<walVars, tableVars, page, historyVars, restarts>>

\* The process dies and starts again: the pool is gone, wal_manager_init
\* empties the log, whose numbers start from 1 again, and the tables are empty
\* (recovery_manager_init).
Restart ==
  /\ restarts < MaxRestarts
  /\ restarts' = restarts + 1
  /\ log' = <<>> /\ flushed_lsn' = 0
  /\ att' = [t \in {} |-> 0] /\ dpt' = [p \in {} |-> 0]
  /\ page' = disk
  /\ foreign' = {p \in Pages : disk[p].lsn # INVALID_LSN}
  /\ seen' = 0 /\ closed' = FALSE /\ settled' = FALSE
  /\ UNCHANGED <<disk, promised>>

RecoveryInit ==
  /\ WalInit
  /\ att = [t \in {} |-> 0] /\ dpt = [p \in {} |-> 0]
  /\ page = [p \in Pages |-> [lsn |-> INVALID_LSN, data |-> Blank]] /\ disk = page
  /\ seen = 0 /\ closed = FALSE /\ settled = FALSE /\ foreign = {}
  /\ promised = [p \in Pages |-> Blank]
  /\ restarts = 0

RecoveryNext ==
  \/ \E rec \in Records : Log(rec)
  \/ recovery_analysis \/ recovery_redo \/ recovery_undo \/ recovery_run
  \/ \E p \in Pages : WriteOut(p)
  \/ Restart

RecoverySpec == RecoveryInit /\ [][RecoveryNext]_recoveryVars

-----------------------------------------------------------------------------
(* Properties *)

\* The records with these types of transaction t that an analysis has read.
ReadOf(t, types) == {n \in 1 .. seen : log[n].txn = t /\ log[n].type \in types}
Begun(t) == LastOf(ReadOf(t, {"WAL_BEGIN"}))
Ended(t) == LastOf(ReadOf(t, {"WAL_COMMIT", "WAL_ABORT"}))

\* The tables say what the analysed part of the log says, however many
\* analyses, undos and appends came between: a transaction that has begun and
\* not ended since has an entry with its last record, active until undo closes
\* it; an entry of any other transaction, if one is kept, carries its last
\* outcome; a page changed has an entry with the first record on it.
\* Compensation records, which the code passes over, are left out.
TablesMatchLog ==
  /\ \A t \in {rec.txn : rec \in Records} :
       IF Begun(t) > Ended(t)
       THEN /\ t \in DOMAIN att
            /\ att[t].status = IF closed THEN ABORTED ELSE ACTIVE
            /\ ReadOf(t, {"WAL_CLR"}) = {} => att[t].last_lsn = Max(ReadOf(t, DataTypes \cup {"WAL_BEGIN"}))
       ELSE t \in DOMAIN att =>
              /\ Begun(t) > 0
              /\ att[t].status = IF log[Ended(t)].type = "WAL_COMMIT" THEN COMMITTED ELSE ABORTED
  /\ \A p \in Pages :
       LET touched == {n \in 1 .. seen : log[n].type \in DataTypes /\ log[n].page = p}
           compensated == \E n \in 1 .. seen : log[n].type = "WAL_CLR" /\ log[n].page = p
       IN ~compensated =>
            IF p \in DOMAIN dpt THEN touched # {} /\ dpt[p] = Min(touched) ELSE touched = {}

\* A page LSN set by this process names a record that changed this page, and
\* after a complete run no later change of the page that redo looks at is
\* unmarked.  Pages marked by an earlier process are excepted: their LSNs come
\* from a log that is gone and hide the records of the new one.
PageLsnCovers ==
  \A p \in Pages \ foreign :
    LET changes == {n \in DOMAIN log : log[n].page = p /\ Changes(log[n])
                                       /\ log[n].type # "WAL_DELETE"}
    IN /\ page[p].lsn \in changes \cup {INVALID_LSN}
       /\ settled => \A n \in changes : n <= page[p].lsn

\* design.md 13.4, of redo: "all pages are restored to the state before the
\* crash".  Once recovery_run has run to its end after a crash, a page that a
\* committed transaction has changed holds what that transaction left on it.
CommittedRestored ==
  settled /\ restarts > 0 => \A p \in Pages : promised[p] # Blank => page[p].data = promised[p]
=============================================================================
