---------------------------- MODULE MCActiveZone ----------------------------
(* A device of three or four zones of two blocks each.  The two keys are   *)
(* the blocks of the last logical zone: the collector copies between lower *)
(* zones first, so the keys' bios are not held and race the copy.          *)
EXTENDS ActiveZone

MCHighKeys == {2 * NumZones - 2, 2 * NumZones - 1}
=============================================================================
