-------------------------------- MODULE Wal --------------------------------
(***************************************************************************)
(* The write-ahead log of src/transaction/wal_manager.c, seen through its  *)
(* one open file: a sequence of records numbered from 1, of which the      *)
(* first flushed_lsn have been handed to the operating system.  The rest   *)
(* is in the stdio buffer, which may be written out at any time: when the  *)
(* process dies some of it is in the file and some is not.                 *)
(***************************************************************************)
EXTENDS Naturals, Sequences

VARIABLES
  log,           \* the records appended, record n having LSN n
  flushed_lsn

walVars == <<log, flushed_lsn>>

INVALID_LSN == 0

\* The record wal_append writes for a transaction; prev links to the record
\* the transaction wrote before.
LogRecord(t, type, prev) == [txn |-> t, type |-> type, prev |-> prev]

\* wal_append, which returns current_lsn before the increment.
current_lsn == Len(log) + 1
wal_append(rec) == log' = Append(log, rec)

\* wal_flush writes out the whole buffer and never moves flushed_lsn back.
wal_flush(lsn) == flushed_lsn' = IF lsn > flushed_lsn THEN lsn ELSE flushed_lsn

\* wal_manager_init opens the file with "wb+", which empties it.
WalInit == log = <<>> /\ flushed_lsn = 0
=============================================================================
