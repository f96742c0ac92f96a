----------------------------- MODULE MCUploads -----------------------------
(* Two windows, two tabs, two choosers, two picks of one or two files. *)
EXTENDS Uploads, TLC
Symmetry == Permutations(Viewer) \cup Permutations(Tab)
=============================================================================
