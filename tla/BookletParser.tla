----------------------------- MODULE BookletParser -----------------------------
(***************************************************************************)
(* BookletParserService, and the parts of the TestLoaderService that make  *)
(* units, testlets and states out of what it has parsed: from the elements *)
(* of a Booklet file to the booklet of a test, as a flat one:              *)
(*   testlets  in the order of the document; parents is the sequence of    *)
(*             the ids around a testlet, the nearest first                 *)
(*   units     in the order of the document, which is their sequenceId     *)
(*   states    id -> the sequence of its options [id, conditions]          *)
(* An option's id is a word: digits alone would be moved to the front.     *)
(***************************************************************************)
EXTENDS Conditions

Missing == ""          \* an attribute or element that is not there
LeaveRestrictions == {"ON", "OFF", "ALWAYS"}

(***** Restrictions *******************************************************)

(* Mutant of OfParents: reduce instead of reduceRight. *)
OfFarthest(parents, field, ofBooklet) == FoldLeft(LAMBDA previous, t : t[field], ofBooklet, parents)

(* reduceRight over the parents: the nearest one has the last word *)
OfParents(parents, field, ofBooklet) == FoldRight(LAMBDA t, previous : t[field], parents, ofBooklet)

(* parseRestrictions.  A restriction on leaving is the element's own, or inherited: *)
(* denyNavigationOnIncomplete from the nearest testlet around it, or from the       *)
(* booklet's configuration; lockAfterLeaving with findLast, from the outermost one. *)
Restrictions(element, parents, config) ==
  LET own(field) == element[field] \in LeaveRestrictions
      locking == SelectSeq(parents, LAMBDA t : t.lockAfterLeaving # None)
  IN  [codeToEnter |-> element.codeToEnter,
       timeMax |-> element.timeMax,
       show |-> element.show,
       presentation |-> IF own("presentation") THEN element.presentation
                        ELSE OfParents(parents, "presentation", config.presentation),
       response |-> IF own("response") THEN element.response
                    ELSE OfParents(parents, "response", config.response),
       lockAfterLeaving |-> CASE element.lockAfterLeaving # None -> element.lockAfterLeaving
                              [] locking # <<>> -> Last(locking).lockAfterLeaving
                              [] OTHER -> None]

(***** Testlets and units *************************************************)

(* parseTestlet without the children, toTestlet.  The time of the outermost timed    *)
(* testlet is the time of everything in it.                                          *)
TestletOf(element, parents, config) ==
  LET restrictions == Restrictions(element, parents, config)
  IN  restrictions @@
      [tag |-> "Testlet", id |-> element.id, parents |-> [i \in DOMAIN parents |-> parents[i].id],
       timer |-> CASE parents # <<>> /\ Head(parents).timer # None -> Head(parents).timer
                   [] restrictions.timeMax > 0 -> element.id
                   [] OTHER -> None]

(* parseUnitOrTestlet, toUnit.  localIndex counts the units in the testlet itself. *)
UnitOf(element, parents, localIndex) ==
  [tag |-> "Unit", id |-> element.id,
   alias |-> IF element.alias = Missing THEN element.id ELSE element.alias,
   parent |-> Head(parents).id, localIndex |-> localIndex]

RECURSIVE Parsed(_, _, _)
Parsed(element, parents, config) ==
  LET testlet == TestletOf(element, parents, config)
      around == <<testlet>> \o parents
      unitsBefore(i) == Cardinality({j \in 1..(i - 1) : element.children[j].tag = "Unit"})
  IN  <<testlet>> \o FlattenSeq([i \in DOMAIN element.children |->
        IF element.children[i].tag = "Unit"
        THEN <<UnitOf(element.children[i], around, unitsBefore(i))>>
        ELSE Parsed(element.children[i], around, config)])

(***** States *************************************************************)

Single == {"Code", "Value", "Status", "Score"}
Aggregating == {"Sum", "Median", "Mean"}

(* parseIf.  The last source counts; every attribute of <Is> is a condition of its *)
(* own on this source; an <If> without a source or without <Is> is no condition.   *)
RECURSIVE ConditionsOf(_)
ConditionsOf(element) ==
  LET tag == Last(element.sources)
      single(s) == [kind |-> "single", type |-> s.type, unit |-> s.from, variable |-> s.of, default |-> s.or]
      source == CASE tag.type \in Single -> single(tag)
                  [] tag.type \in Aggregating ->
                       [kind |-> "sources", type |-> tag.type,
                        sources |-> [i \in DOMAIN tag.children |-> single(tag.children[i])]]
                  [] tag.type = "Count" ->
                       [kind |-> "conditions",
                        conditions |-> FlattenSeq([i \in DOMAIN tag.children |-> ConditionsOf(tag.children[i])])]
      compared == SelectSeq(<<"equal", "notEqual", "greaterThan", "lowerThan">>,
                            LAMBDA type : type \in DOMAIN element.is)
  IN  IF element.sources = <<>> THEN <<>>
      ELSE [i \in DOMAIN compared |->
              [type |-> compared[i], value |-> element.is[compared[i]], source |-> source]]

(* parseState, parseOption; an element without an id is left out *)
StateOf(element) ==
  LET options == SelectSeq(element.options, LAMBDA o : o.id # Missing)
  IN  [i \in DOMAIN options |->
         [id |-> options[i].id,
          conditions |-> FlattenSeq([j \in DOMAIN options[i].ifs |-> ConditionsOf(options[i].ifs[j])])]]

(***** The booklet ********************************************************)

(* registerTrackedVariables: <<alias of the unit, variable>>, of all conditions *)
TrackedBy(states) ==
  UNION {Tracked(condition) : condition \in
    UNION {UNION {Range(o.conditions) : o \in Range(states[s])} : s \in DOMAIN states}}

(* parseBookletXml, getBookletFromXml *)
ParseBooklet(xml) ==
  LET all == Parsed(xml.units, <<>>, xml.config)
      named == SelectSeq(xml.states, LAMBDA s : s.id # Missing)
      states == [s \in {named[i].id : i \in DOMAIN named} |->
                   StateOf(Last(SelectSeq(named, LAMBDA x : x.id = s)))]
      units == SelectSeq(all, LAMBDA x : x.tag = "Unit")
      readable == /\ \A s \in DOMAIN states : HasDefault(states[s])
                  /\ \A v \in TrackedBy(states) : \E i \in DOMAIN units : units[i].alias = v[1]
  IN  IF ~readable THEN Invalid
      ELSE [testlets |-> SelectSeq(all, LAMBDA x : x.tag = "Testlet"),
            units |-> [i \in DOMAIN units |-> units[i] @@
                         [tracked |-> {v[2] : v \in {x \in TrackedBy(states) : x[1] = units[i].alias}}]],
            states |-> states, loadingMode |-> xml.config.loadingMode]

(***** Inheritance, from the elements themselves **************************)

(* the elements of testlets in an element, and this one *)
RECURSIVE Elements(_)
Elements(element) ==
  {element} \cup UNION {Elements(c) : c \in {x \in Range(element.children) : x.tag = "Testlet"}}

(* In the booklet of a file, restrictions on leaving that are not a testlet's own are those *)
(* of the nearest testlet around it that has any, or the booklet's; the lock after leaving  *)
(* is that of the outermost one.                                                             *)
Inherited(xml, booklet) ==
  LET all == Elements(xml.units)
      around(e) == {x \in all : e \in Elements(x)}
      nearest(S) == CHOOSE x \in S : S \subseteq around(x)
      outermost(S) == CHOOSE x \in S : \A y \in S : x \in around(y)
      expected(e, field) == LET own == {x \in around(e) : x[field] \in LeaveRestrictions}
                            IN  IF own = {} THEN xml.config[field] ELSE nearest(own)[field]
      locking(e) == {x \in around(e) : x.lockAfterLeaving # None}
  IN  \A e \in all : \E t \in Range(booklet.testlets) :
        /\ t.id = e.id
        /\ t.presentation = expected(e, "presentation") /\ t.response = expected(e, "response")
        /\ t.lockAfterLeaving = CASE e.lockAfterLeaving # None -> e.lockAfterLeaving
                                  [] locking(e) = {} -> None
                                  [] OTHER -> outermost(locking(e)).lockAfterLeaving
==============================================================================
