------------------------- MODULE MCPlacementJournal -------------------------
(* Small instances of PlacementJournal for TLC. *)
EXTENDS PlacementJournal

CONSTANTS k1, k2, A, B, listA, listB, listAB

\* One list inside each domain.
TwoLists == {listA, listB}
TwoDomainOf == [l \in TwoLists |-> IF l = listA THEN A ELSE B]

\* A list inside a domain and one that spans both.
SpanningLists == {listA, listAB}
SpanningDomainOf == [l \in SpanningLists |-> IF l = listA THEN A ELSE None]
=============================================================================
