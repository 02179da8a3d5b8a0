-------------------------- MODULE MCTestPersistence --------------------------
EXTENDS TestPersistence
CONSTANTS u1, controller, progress, part

(* One cell of the test state besides CONNECTION, one of the state of a    *)
(* unit and one data part of it: every kind of request, and a unit that    *)
(* may have no row yet.                                                    *)
==============================================================================
