--------------------------- MODULE MCBookletStates ---------------------------
EXTENDS BookletStates, BookletParser
CONSTANTS Root, Routing, Inner, Hard, Easy, Bonus, Right, Wrong

UnitElement(id) == [tag |-> "Unit", id |-> id, alias |-> ""]
TestletElement(id, show, presentation, lock, children) ==
  [tag |-> "Testlet", id |-> id, codeToEnter |-> None, timeMax |-> 0, show |-> show,
   presentation |-> presentation, response |-> "", lockAfterLeaving |-> lock, children |-> children]
ShowIf(s, option) == [if |-> s, is |-> option]
Source(type, unitAlias, v) == [type |-> type, from |-> unitAlias, of |-> v, or |-> 0]
Is(type, value) == [x \in {type} |-> value]
If(sources, is) == [sources |-> sources, is |-> is]
Option(id, ifs) == [id |-> id, ifs |-> ifs]
Config(mode) == [presentation |-> "OFF", response |-> "ON", loadingMode |-> mode]

(* One testlet for each of two options of a state, decided by the code of the   *)
(* first unit, derived from what was answered.                                   *)
Adaptive ==
  [config |-> Config("LAZY"),
   units |-> TestletElement(Root, None, "", None, <<UnitElement("u1"),
     TestletElement(Hard, ShowIf("level", "hard"), "", None, <<UnitElement("u2")>>),
     TestletElement(Easy, ShowIf("level", "easy"), "", None, <<UnitElement("u3")>>)>>),
   states |-> <<[id |-> "level", options |-> <<
     Option("hard", <<If(<<Source("Code", "u1", "sum")>>, Is("greaterThan", 0))>>),
     Option("easy", <<>>)>>]>>]

(* A bonus by the units without a scheme: the second, in the routing block, and *)
(* the third, in the block within; restrictions on several levels.              *)
Nested ==
  [config |-> Config("EAGER"),
   units |-> TestletElement(Root, None, "ON", [confirm |-> TRUE, scope |-> "testlet"], <<
     TestletElement(Routing, None, "ALWAYS", [confirm |-> FALSE, scope |-> "unit"], <<UnitElement("u2"),
       TestletElement(Inner, None, "", None, <<UnitElement("u3")>>)>>),
     TestletElement(Bonus, ShowIf("bonus", "yes"), "", None, <<UnitElement("u1")>>)>>),
   states |-> <<[id |-> "bonus", options |-> <<
     Option("yes", <<If(<<[type |-> "Count", children |-> <<
       If(<<Source("Value", "u2", "x")>>, Is("equal", Right)),
       If(<<[type |-> "Sum", children |-> <<Source("Status", "u2", "x"), Source("Score", "u3", "x")>>]>>,
          Is("greaterThan", 2))>>]>>, Is("greaterThan", 0))>>),
     Option("no", <<>>)>>]>>]

(* a condition on a unit that is not there *)
Broken == [Adaptive EXCEPT !.units.children = Tail(@)]

MCFiles == {Adaptive, Nested, Broken}
MCPresets == {<<>>, Is("level", "hard")}

Answer(status, value) == [status |-> status, value |-> value, code |-> None, score |-> None]
MCContent(u) == IF u = "u2" \/ u = "u1" THEN {[x |-> Answer(2, Right)], [x |-> Answer(2, Wrong)]}
                ELSE {[x |-> Answer(1, Wrong)]}
MCBases(u, tracked) == IF "sum" \in tracked THEN {"x"} ELSE tracked
MCCode(u, base) ==
  LET right == IF base.x.value = Right THEN 1 ELSE 0
      x == [base.x EXCEPT !.status = 3, !.code = right, !.score = right]
  IN  IF base.x.value = Null THEN [x |-> base.x] ELSE [x |-> x, sum |-> x]

(* Whatever is nested in whatever, restrictions are inherited as parseRestrictions says:    *)
(* those on leaving from the nearest testlet, the lock after leaving from the outermost.    *)
RestrictionsAreInherited == phase = "off" /\ booklet # Invalid => Inherited(file, booklet)
==============================================================================
