---------------------------- MODULE MCAccessLog -----------------------------
(* An instance of AccessLog for TLC. *)
EXTENDS AccessLog

CONSTANTS r1, r2, n1, n2

TwoRequests == {r1, r2}
OnlyFirst == {r1}
OnlySecond == {r2}
TwoNodes == {n1, n2}

Spellings == [s \in {"V1", "POWER"} |-> IF s = "V1" THEN "v1" ELSE "power"]

Call(m, p) == [method |-> m, path |-> p]

(* What r2 may be: calls the repository's tests make of the switch, and    *)
(* one that leaves the alias table again.                                  *)
Calls ==
  {Call("GET", <<"">>),
   Call("GET", <<"v1", "power", "status">>),
   Call("POST", <<"v1", "x", "..", "power">>),
   Call("POST", <<"v1", "", "power", "">>),
   Call("POST", <<"V1", "POWER">>),
   Call("POST", <<"", "v1", "mesh", ".", "power">>),
   Call("POST", <<"v1", "y", "..", "aliases", "x">>),
   Call("PATCH", <<"v1", "aliases", "..", "x">>)}

AskedOf == [r \in TwoRequests |->
              IF r = r1 THEN {Call("POST", <<"v1", "chat", "completions">>)} ELSE Calls]
=============================================================================
