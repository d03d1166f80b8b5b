------------------------- MODULE MCGraphAggregates -------------------------
(* Small tables for GraphAggregates.                                       *)
EXTENDS GraphAggregates

CONSTANTS a, b  \* objects

Known(k) == [knows |-> "Known", count |-> k]

\* Hard links of two objects in every place of the tree.
Placement ==
  [entries |-> 5, kinds |-> {"Directory", "File"},
   dir_allocs |-> {1}, dir_oids |-> {None}, names |-> {0},
   sizes |-> {0}, allocs |-> {None, 1, 2}, oids |-> {a, b, None},
   links |-> {NotObserved}]

\* Every kind of evidence about one object, which directories may share.
Observation ==
  [entries |-> 4, kinds |-> {"Directory", "File", "Special"},
   dir_allocs |-> {1}, dir_oids |-> {a, None}, names |-> {0},
   sizes |-> {1}, allocs |-> {1, 2}, oids |-> {a, None},
   links |-> {NotObserved, Known(1), Known(2),
              [knows |-> "Unavailable", count |-> 0],
              [knows |-> "NotApplicable", count |-> 0]}]

\* Sizes unobserved or in conflict anywhere in the tree.
Doubt ==
  [Observation EXCEPT !.allocs = {None, 1, 2}, !.links = {NotObserved}]

AllFamilies == {Placement, Observation, Doubt}
=============================================================================
