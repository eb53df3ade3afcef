---------------------------- MODULE MCZoneCamera ----------------------------
(* ZoneCamera on a few tracks. *)
EXTENDS ZoneCamera, TLC

CONSTANTS t1, t2, t3

Symmetry == Permutations(Tracks)
=============================================================================
