------------------------------ MODULE MCSessions ------------------------------
(* A group of three logins: a pupil, who returns to the session, a restarter     *)
(* with a code, who always gets a new one, and a watcher, who is a monitor. The   *)
(* file limits the testees by the time they work, or by a day.                    *)
EXTENDS Sessions, TLC
CONSTANTS pupil, watcher, restarter, secret, none
MCCodes == [l \in {pupil, watcher, restarter} |-> IF l = restarter THEN {secret} ELSE {none}]
File(limits) == [l \in {pupil, watcher, restarter} |-> IF l = watcher THEN [validTo |-> 0, validFor |-> 0] ELSE limits]
Devices == Permutations(Clients)
MCFirst == File([validTo |-> 0, validFor |-> 1])
MCVersions == {File([validTo |-> 1, validFor |-> 0])}
===============================================================================
