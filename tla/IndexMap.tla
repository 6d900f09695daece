------------------------------ MODULE IndexMap ------------------------------
(***************************************************************************)
(* What an index promises: a map from keys to row ids, for as long as the  *)
(* buffer pool has frames for it.                                          *)
(***************************************************************************)
CONSTANTS Keys, Rids

VARIABLES
  entries,  \* set of <<key, row id>>, one for a key
  unique,   \* whether a key that is there may not be inserted again
  up        \* FALSE once an operation did not get a frame

mapVars == <<entries, unique, up>>

Of(key) == {e \in entries : e[1] = key}

MapInsert(key, rid) ==
  /\ key \in Keys
  /\ unique => Of(key) = {}
  /\ entries' = (entries \ Of(key)) \cup {<<key, rid>>}

MapRemove(key) == Of(key) # {} /\ entries' = entries \ Of(key)

MapInit == entries = {} /\ unique \in BOOLEAN /\ up = TRUE

\* A step is known by the entry that is new or gone.
\* Once the index is down nothing is promised and the map counts as empty.
MapNext ==
  /\ UNCHANGED unique
  /\ \/ /\ up /\ UNCHANGED up
        /\ \/ \E new \in entries' \ entries : new[2] \in Rids /\ MapInsert(new[1], new[2])
           \/ \E old \in entries \ entries' : MapRemove(old[1])
     \/ ~up' /\ entries' = {}

MapSpec == MapInit /\ [][MapNext]_mapVars
=============================================================================
