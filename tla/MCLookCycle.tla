---------------------------- MODULE MCLookCycle ----------------------------
(***************************************************************************)
(* LookCycle for TLC. Looks reach at most HEAD_SCALE = 200 units from a    *)
(* start that leaves at least 220 up to the nearest limit, so here the     *)
(* limits are just beyond one target from home; faces can reach as far.    *)
(***************************************************************************)
EXTENDS LookCycle

MCTargets == {-2, 0, 1}
MCFaces == {-1, 2}
NoFaces == {}
MCMinHead == -3

=============================================================================
