------------------------------ MODULE MCPicker ------------------------------
(* Instances of Picker for TLC. *)
EXTENDS Picker, TLC

CONSTANTS c1, c2, m1, m2

TwoCallers == {c1, c2}
TwoModels == {m1, m2}

(* Two nodes and this gateway. *)
ThreeNames == {1, 2, 3}
TwoNodes == {1, 2}

(* The first node has no slot for m1, and is full for it from the start. *)
FewSlots == [n \in ThreeNames |-> [m \in TwoModels |-> IF n = 1 /\ m = m1 THEN 0 ELSE 1]]
AlwaysHealthy == {TwoModels}

CallerSymmetry == Permutations(TwoCallers)
=============================================================================
