--------------------------- MODULE MCLineCrossing ---------------------------
(* LineCrossing with heights on the line, near it and far from it. *)
EXTENDS LineCrossing

CONSTANTS t1, t2

MCHeights == -2 .. 2
=============================================================================
