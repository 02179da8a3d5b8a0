------------------------------- MODULE Booklets -------------------------------
(***************************************************************************)
(* What BookletParser, Conditions and BookletStates have in common.        *)
(***************************************************************************)
EXTENDS Integers, Sequences, FiniteSets, SequencesExt

CONSTANTS
  Text,    \* texts that a value or an expression may be, "null" among them
  Null,    \* a value that is not there; it is compared as the text null
  None,    \* an optional part that is not there, such as a code or a score
  NaN,
  Invalid  \* what comes out of a file that cannot be parsed: an error is shown

ASSUME TextAssumption == Null \in Text /\ NaN \notin Text /\ None \notin Text

(* the elements of a set in the order of their numbers *)
InOrder(number) ==
  LET S == DOMAIN number
  IN  [k \in 1..Cardinality(S) |->
         CHOOSE x \in S : Cardinality({y \in S : number[y] <= number[x]}) = k]

(* a variable nobody has answered yet *)
Unset == [status |-> 0, value |-> Null, code |-> None, score |-> None]

(* the option toBookletState takes as the default: the first one without conditions *)
HasDefault(options) == \E i \in DOMAIN options : options[i].conditions = <<>>
First(indices) == CHOOSE i \in indices : \A j \in indices : i <= j
DefaultOf(options) == options[First({i \in DOMAIN options : options[i].conditions = <<>>})].id
==============================================================================
