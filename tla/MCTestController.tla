----------------------------- MODULE MCTestController -----------------------------
(* Small booklets for TestController.  The testlets a and b lie in root.  *)
EXTENDS TestController, TLC

FlatAbove == [t \in Testlet |-> {"root", t}]

\* Unit 1 in a, 2 in root, 3 in b.
MiddleParentOf == <<"a", "root", "b">>
ShortParentOf == <<"a", "b", "root">>
ShortFirst == {1, 2, 3}

\* Unit 1 in b, 2 and 3 in a.
GateParentOf == <<"b", "a", "a">>
GateFirst == {1, 2}

\* Unit 1 in a, 2 in root.
TinyParentOf == <<"a", "root">>

Untimed == [t \in Testlet |-> 0]
TwoTimed == [t \in Testlet |-> CASE t = "a" -> 2 [] t = "b" -> 1 [] OTHER -> 0]
OneTick == [t \in Testlet |-> IF t = "a" THEN 1 ELSE 0]
OneTimed == [t \in Testlet |-> IF t = "a" THEN 2 ELSE 0]
AllConfirm == [t \in Testlet |-> "confirm"]
BForbidden == [t \in Testlet |-> IF t = "b" THEN "forbidden" ELSE "confirm"]

NoScope == [t \in Testlet |-> "none"]
ATestletBUnit == [t \in Testlet |-> CASE t = "a" -> "testlet" [] t = "b" -> "unit" [] OTHER -> "none"]
DenyNothing == [t \in Testlet |-> "OFF"]
DenyInGate == [t \in Testlet |-> IF t = "b" THEN "ON" ELSE "OFF"]
DenyInBlocks == [t \in Testlet |-> CASE t = "a" -> "ON" [] t = "b" -> "ALWAYS" [] OTHER -> "OFF"]
=============================================================================
