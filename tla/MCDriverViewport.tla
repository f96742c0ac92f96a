--------------------------- MODULE MCDriverViewport ---------------------------
(* DriverViewport on two sizes.  Every viewer's window starts out different from
   Chromium's, and resizing one goes from one size to the other. *)
EXTENDS DriverViewport

MCWindow == [v \in Viewer |-> CHOOSE s \in Size : s # Native]

\* Two disturbances: of users, faults, or one of each.
MCBudgets == {[churn |-> n, faults |-> 2 - n] : n \in 0..2}
==============================================================================
