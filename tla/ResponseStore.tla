---------------------------- MODULE ResponseStore ----------------------------
(***************************************************************************)
(* What the Testcenter promises about the responses of a testee, whatever  *)
(* buffers, repeated requests and reloads lie between the page and the     *)
(* database: at each place one content is stored, and what replaces it was *)
(* taken up later.  Contents are numbers in the order in which the page    *)
(* took them up; 0 is none.                                                *)
(***************************************************************************)
EXTENDS Naturals

CONSTANT Places

VARIABLES taken, stored

Init ==
  /\ taken = 0
  /\ stored = [p \in Places |-> 0]

Take ==
  /\ taken' = taken + 1
  /\ UNCHANGED stored

(* Several places may be written at once, and contents may be left out. *)
Store ==
  /\ stored' \in [Places -> 0 .. taken]
  /\ \A p \in Places : stored'[p] >= stored[p]
  /\ UNCHANGED taken

Next == Take \/ Store

Spec == Init /\ [][Next]_<<taken, stored>>
==============================================================================
