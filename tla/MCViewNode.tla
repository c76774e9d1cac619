----------------------------- MODULE MCViewNode -----------------------------
(* Instances of ViewNode for TLC. *)
EXTENDS ViewNode, TLC

CONSTANTS v1, v2

TwoViewers == {v1, v2}

(* Two nodes, another gateway as 3 and this one as 4. *)
FourNames == {1, 2, 3, 4}
TwoNodes == {1, 2}
NoModelSlots == [n \in FourNames |-> <<>>]
NoHealth == {{}}

(* A secured mesh without an allowlist, an ordered allowlist, and one that names a single node. *)
NoneOneOrTwo == {<<>>, <<2>>, <<2, 1>>}

ViewerSymmetry == Permutations(TwoViewers)
=============================================================================
