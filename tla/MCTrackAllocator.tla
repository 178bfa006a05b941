------------------------- MODULE MCTrackAllocator -------------------------
EXTENDS TrackAllocator

T(i) == [type |-> "TOP", index |-> i]
B(i) == [type |-> "BOTTOM", index |-> i]

\* Two tracks of different tiers, the same track twice, a list whose second
\* track lies outside a one-zone device, and none.
MCRestoreInputs == {<<>>, <<B(1), T(0)>>, <<T(1), T(1)>>, <<T(0), B(7)>>}
=============================================================================
