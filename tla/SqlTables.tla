----------------------------- MODULE SqlTables -----------------------------
(***************************************************************************)
(* What a database promises: named tables, each with its columns and a bag *)
(* of rows of their types.  A step creates or drops a table, or adds,      *)
(* changes or removes one row.                                             *)
(***************************************************************************)
EXTENDS Integers, Sequences, Bags

CONSTANT SystemNames      \* tables without columns or rows that are there from the start

VARIABLE tables           \* name -> [columns, rows]

Fits(row, columns) ==
  /\ DOMAIN row = DOMAIN columns
  /\ \A i \in DOMAIN row : row[i][1] \in {columns[i].type, "NULL"}

Create(old, new) ==
  \E name \in DOMAIN new \ DOMAIN old :
    /\ DOMAIN new = DOMAIN old \cup {name}
    /\ \A other \in DOMAIN old : new[other] = old[other]
    /\ new[name].columns # <<>> /\ new[name].rows = EmptyBag

Drop(old, new) == \E name \in DOMAIN old : new = [other \in DOMAIN old \ {name} |-> old[other]]

\* A row has gone and a row that fits the columns has come, or only one of it.
AtMostOne(bag) == {EmptyBag} \cup {SetToBag({row}) : row \in BagToSet(bag)}
OneRow(before, after, columns) ==
  \E lost \in AtMostOne(before), gained \in AtMostOne(after) :
    /\ after = (before (-) lost) (+) gained
    /\ \A row \in BagToSet(gained) : Fits(row, columns)

ChangeRow(old, new) ==
  /\ DOMAIN new = DOMAIN old
  /\ \E name \in DOMAIN old :
       /\ new = [old EXCEPT ![name].rows = new[name].rows]
       /\ OneRow(old[name].rows, new[name].rows, old[name].columns)

TablesInit == tables = [name \in SystemNames |-> [columns |-> <<>>, rows |-> EmptyBag]]
TablesNext ==
  \E old \in {tables}, new \in {tables'} : Create(old, new) \/ Drop(old, new) \/ ChangeRow(old, new)
TablesSpec == TablesInit /\ [][TablesNext]_tables
=============================================================================
