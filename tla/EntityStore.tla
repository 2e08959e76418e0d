------------------------------ MODULE EntityStore ------------------------------
(***************************************************************************)
(* What the single-entity operations of an EntityManager promise: the       *)
(* tables hold whole entities, one per primary key, and change by one whole *)
(* entity at a time.                                                        *)
(***************************************************************************)
CONSTANT Items            \* records with fields table, id, version, signatures

VARIABLES stored,         \* the entities in the database
          partial         \* the rows of the database that make no whole entity

evars == <<stored, partial>>

SameKey(i, j) == i.table = j.table /\ i.id = j.id

Init == stored = {} /\ partial = {}

Insert ==
  \E i \in Items :
    /\ \A j \in stored : ~SameKey(i, j)
    /\ stored' = stored \cup {i}
    /\ UNCHANGED partial

Update ==
  \E i \in stored, j \in Items :
    /\ SameKey(i, j)
    /\ stored' = (stored \ {i}) \cup {j}
    /\ UNCHANGED partial

Delete ==
  \E i \in stored : stored' = stored \ {i} /\ UNCHANGED partial

Next == Insert \/ Update \/ Delete

Spec == Init /\ [][Next]_evars
=============================================================================
