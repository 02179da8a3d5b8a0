---------------------------- MODULE MCGroupMonitor ----------------------------
(* Two sessions with booklets of two and one blocks, so of different species; *)
(* the first blocks begin with units of their own.                            *)
EXTENDS GroupMonitor
CONSTANTS s1, s2, u1, u2, u3

MCFirstUnit == [s \in Session |-> IF s = s1 THEN <<u1, u2>> ELSE <<u3>>]
==============================================================================
