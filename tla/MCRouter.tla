------------------------------ MODULE MCRouter ------------------------------
(* Instances of Router for TLC. *)
EXTENDS Router, TLC

CONSTANTS r1, r2, r3, n1, n2

TwoRequests == {r1, r2}
ThreeRequests == {r1, r2, r3}
TwoNodes == {n1, n2}

(* Only this one may be sent again by the transport. *)
OnlyFirst == {r1}
Others == {r2, r3}

NodeSymmetry == Permutations(TwoNodes)
Symmetry == Permutations(Others) \cup Permutations(TwoNodes)
              \cup {p @@ q : p \in Permutations(Others), q \in Permutations(TwoNodes)}
=============================================================================
