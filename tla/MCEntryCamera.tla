---------------------------- MODULE MCEntryCamera ----------------------------
(* EntryCamera on a few tracks, seen far from the line on either side. *)
EXTENDS EntryCamera, TLC

CONSTANTS t1, t2, t3

MCHeights == {-2, -1, 2}
Symmetry == Permutations(Tracks)
=============================================================================
