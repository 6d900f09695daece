--------------------------- MODULE MCDiskManager ---------------------------
(* Small instances of the disk manager: the word 2 is also a page number. *)
EXTENDS DiskManager
=============================================================================
