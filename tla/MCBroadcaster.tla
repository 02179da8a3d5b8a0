------------------------------ MODULE MCBroadcaster ------------------------------
(* Small registries for Broadcaster: the first test is registered with two tokens *)
(* (a reload), one monitor watches the first group and one watches both.         *)
EXTENDS Broadcaster, TLC

CONSTANTS t1, t2, t3, m1, m2, x1, x2, g1, g2

MCTestOf == [t \in {t1, t2, t3} \cap TesteeToken |-> IF t = t3 THEN x2 ELSE x1]
MCGroupsOf == [m \in {m1, m2} \cap MonitorToken |-> IF m = m1 THEN {g1} ELSE {g1, g2}]
MCGroupOf == [x \in {x1, x2} \cap Test |-> IF x = x1 THEN g1 ELSE g2]

\* The two tokens of the first test are interchangeable.
TokenSymmetry == Permutations({t1, t2})
=============================================================================
