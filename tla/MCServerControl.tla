-------------------------- MODULE MCServerControl --------------------------
EXTENDS ServerControl

None == [what \in Spendings |-> 0]

(* What may happen to the processes that find a database: two of them race *)
(* for the first start and one dies; leaves are renewed as time passes and *)
(* the address changes; two migrate an old database while the first to     *)
(* finish already serves; the tray is used beside a server started by hand.*)
Race == [None EXCEPT !["launches"] = 3, !["crashes"] = 1]
Renewals == [None EXCEPT !["launches"] = 2, !["ticks"] = 3, !["moves"] = 1]
RenewalDies == [None EXCEPT !["launches"] = 2, !["ticks"] = 2, !["crashes"] = 1]
Upgrade == [None EXCEPT !["launches"] = 2, !["orders"] = 2]
Desk == [None EXCEPT !["commands"] = 3]
Rival == [None EXCEPT !["launches"] = 1, !["commands"] = 1, !["windows"] = 1]

FoundBudgets == [v \in Versions |-> IF v = LatestVersion THEN {Race, Renewals, RenewalDies, Desk, Rival}
                                    ELSE {Upgrade}]
=============================================================================
