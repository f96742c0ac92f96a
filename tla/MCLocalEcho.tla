------------------------------ MODULE MCLocalEcho ------------------------------
(* LocalEcho with every mix of disturbances. *)
EXTENDS LocalEcho

CONSTANTS MaxUser, MaxPage, MaxShots, MaxAll  \* bounds, and on their sum

MCBudgets == {b \in [user : 0..MaxUser, page : 0..MaxPage, shots : 0..MaxShots] :
                b.user + b.page + b.shots = MaxAll}
==============================================================================
