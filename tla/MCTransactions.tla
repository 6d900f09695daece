--------------------------- MODULE MCTransactions ---------------------------
(* Small instance of transactions, locks, detector and log: a table that is
   read and written, and two rows that are only written. *)
EXTENDS Transactions

MCModes == [table |-> {"S", "X"}, row |-> {"X"}, row2 |-> {"X"}]
=============================================================================
