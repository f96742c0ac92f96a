--------------------------- MODULE MCPixelFallback ----------------------------
(* PixelFallback with two requests to a window of three time units, so that a third
   loss storms, and disturbances from users and failures in every proportion. *)
EXTENDS PixelFallback

MCBudgets == {[churn |-> 4 - n, faults |-> n] : n \in 1..3}
==============================================================================
