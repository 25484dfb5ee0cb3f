---------------------------- MODULE MCRegionCopy ----------------------------
(***************************************************************************)
(* Screens wide enough for two rectangles of a band to be source and       *)
(* destination of one another, and high enough for two bands to be.        *)
(***************************************************************************)
EXTENDS RegionCopy
MCDeltas == ({-2, 2} \X (-1 .. 1)) \cup ((-1 .. 1) \X {-1, 1})
=============================================================================
