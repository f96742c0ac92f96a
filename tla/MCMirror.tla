------------------------------- MODULE MCMirror -------------------------------
(* MirrorStream on a few viewers.  An event is its number, 0 is no snapshot. *)
EXTENDS MirrorStream

MCEvents == 1..20
==============================================================================
