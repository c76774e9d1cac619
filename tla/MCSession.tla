----------------------------- MODULE MCSession ------------------------------
(* An instance of Session for TLC. *)
EXTENDS Session, TLC

CONSTANTS a, b, s1, s2, padded, short

TwoLabels == {a, b}
FourSecrets == {s1, s2, padded, short}
OnlyShort == {short}

(* The padded secret is s1 with a space around it. *)
Padding == [s \in FourSecrets |-> IF s = padded THEN s1 ELSE s]

LabelSymmetry == Permutations(TwoLabels)
=============================================================================
