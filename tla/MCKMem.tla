------------------------------- MODULE MCKMem -------------------------------
(* Small heaps for TLC: one region on 64 bits, two that do not touch on 32. *)
EXTENDS KMem, TLC

OneRegion == <<[start |-> 3, size |-> 40]>>
TwoRegions == <<[start |-> 4, size |-> 26], [start |-> 40, size |-> 20]>>

\* Splits with and without a remainder, gaps in front of aligned payloads.
Splitting ==
  [align |-> 1, region |-> OneRegion, size |-> {1, 3, 6}, alignment |-> {8},
   calls |-> {"malloc", "aligned", "free"}]

\* Resizing while the heap grows by a region.
Growing ==
  [align |-> 2, region |-> TwoRegions, size |-> {1, 5}, alignment |-> {2},
   calls |-> {"malloc", "free", "realloc", "region"}]

\* Resizing in place.
Resizing ==
  [align |-> 1, region |-> OneRegion, size |-> {1, 2}, alignment |-> {2},
   calls |-> {"malloc", "free", "realloc"}]

Every == {Splitting, Growing, Resizing}
\* A region is handed over as the memory was found.
Anything == {Null, Wild}
Symmetric == Permutations(Core)
=============================================================================
