------------------------------ MODULE Conditions ------------------------------
(***************************************************************************)
(* The conditions of booklet states: whether the variables of the units,   *)
(* as they were answered and coded, satisfy a condition.                   *)
(*                                                                         *)
(* A variable is [status, value, code, score].  Numbers are integers; an   *)
(* instance chooses them so that no mean or median is a fraction.  A text  *)
(* is a model value: it is compared with other texts, and as a number it   *)
(* is NaN.  A status is its place in IQBVariableStatusList.                *)
(***************************************************************************)
EXTENDS Booklets

Ordered == {"greaterThan", "lowerThan"}

(* variableValueAsNumber *)
AsNumber(x) == CASE x = Null -> 0
                 [] x \in Text -> NaN
                 [] OTHER -> x

(* getSourceValueAsNumber: for the order, and in sums, means and medians *)
NumberOf(source, variable) ==
  CASE source.type = "Status" -> variable.status
    [] source.type = "Value" -> AsNumber(variable.value)
    [] source.type = "Code" -> IF variable.code = None THEN AsNumber(source.default) ELSE variable.code
    [] source.type = "Score" -> IF variable.score = None THEN AsNumber(source.default) ELSE variable.score

(* getSourceValue: for equality; only here a value stays a text *)
ComparableOf(source, variable) ==
  IF source.type = "Value" THEN variable.value ELSE NumberOf(source, variable)

(* AggregatorsUtil.  An empty sum or mean is 0, an empty median is no      *)
(* number.  In what order NaN is sorted is up to the browser: a median of  *)
(* texts is left out.                                                      *)
Sum(numbers) ==
  IF \E i \in DOMAIN numbers : numbers[i] = NaN THEN NaN
  ELSE FoldSeq(LAMBDA x, y : x + y, 0, numbers)

Mean(numbers) ==
  IF Sum(numbers) = NaN \/ numbers = <<>> THEN Sum(numbers) ELSE Sum(numbers) \div Len(numbers)

Median(numbers) ==
  LET sorted == SortSeq(numbers, LAMBDA x, y : x < y)
      middle == Len(sorted) \div 2
  IN  CASE sorted = <<>> -> NaN
        [] Len(sorted) % 2 = 0 -> (sorted[middle] + sorted[middle + 1]) \div 2
        [] OTHER -> sorted[middle + 1]

Aggregate(type, numbers) ==
  CASE type = "Sum" -> Sum(numbers) [] type = "Mean" -> Mean(numbers) [] type = "Median" -> Median(numbers)

(* The comparison; what is no text is compared as a number.  NaN equals    *)
(* NaN, and is at the same time not equal to it.                           *)
Compare(type, x, expected) ==
  LET y == IF x \in Text THEN expected ELSE AsNumber(expected)
      numbers == NaN \notin {AsNumber(x), AsNumber(y)}
  IN  CASE type = "equal" -> x = y
        [] type = "notEqual" -> x # y \/ x = NaN
        [] type = "greaterThan" -> numbers /\ AsNumber(x) > AsNumber(y)
        [] type = "lowerThan" -> numbers /\ AsNumber(x) < AsNumber(y)

(* isSatisfied.  variables is a function of units, by their alias, to      *)
(* functions of their variables.  The kind of a source says whether it is  *)
(* one variable, several, or conditions.                                   *)
RECURSIVE Satisfied(_, _)
Satisfied(condition, variables) ==
  LET source == condition.source
      variable(s) == variables[s.unit][s.variable]
      x == CASE source.kind = "single" /\ condition.type \in Ordered -> NumberOf(source, variable(source))
             [] source.kind = "single" -> ComparableOf(source, variable(source))
             [] source.kind = "sources" ->
                  Aggregate(source.type, [i \in DOMAIN source.sources |->
                                            NumberOf(source.sources[i], variable(source.sources[i]))])
             [] source.kind = "conditions" ->
                  Cardinality({i \in DOMAIN source.conditions : Satisfied(source.conditions[i], variables)})
  IN  Compare(condition.type, x, condition.value)

(* registerVariablesFromCondition: the variables that are looked at. *)
RECURSIVE Tracked(_)
Tracked(condition) ==
  LET source == condition.source
  IN  CASE source.kind = "single" -> {<<source.unit, source.variable>>}
        [] source.kind = "sources" -> {<<s.unit, s.variable>> : s \in Range(source.sources)}
        [] source.kind = "conditions" -> UNION {Tracked(c) : c \in Range(source.conditions)}
==============================================================================
