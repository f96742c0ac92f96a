-------------------------------- MODULE MCTabs --------------------------------
(* Tabs with three tabs and two disturbances of any kinds. *)
EXTENDS Tabs

MCBudgets == {b \in [ops : 0..2, pages : 0..2, faults : 0..1] : b.ops + b.pages + b.faults = 2}
==============================================================================
