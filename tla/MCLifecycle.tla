---------------------------- MODULE MCLifecycle -----------------------------
(* An instance of Lifecycle for TLC. *)
EXTENDS Lifecycle

CONSTANTS key, n1, n2

Variables ==
  {"removed", "listen", "nodeName", "hostname", "meshNetwork", "meshBindPort", "meshAdvertise",
   "meshOpen", "meshSecret", "meshSecretPrev", "meshEnforce", "meshTailnet", "meshMDNS",
   "meshSeeds", "viewNodes", "ratePerMin", "maxBody"} \cup Durations \cup Counts

(* A secured and an open gateway, with nothing set that need not be. *)
SecuredGateway ==
  [v \in Variables |-> IF v = "hostname" THEN n1 ELSE IF v = "meshSecret" THEN key ELSE Unset]
OpenGateway ==
  [SecuredGateway EXCEPT !["meshSecret"] = Unset, !["meshOpen"] = TRUE, !["viewNodes"] = <<n1>>]

(* Integers are 127 at most, and a size's unit is 1, 4 or 16. *)
Sizes == {Bad} \cup [n : {-1, 0, 1, 7, 8, 127}, unit : {1, 4, 16}]

(* What else a variable may be set to. *)
Settings(v) ==
  CASE v = "removed" -> {Bad}
    [] v \in {"listen", "meshBindPort"} -> {Bad, 0, 65535, 65536}
    [] v \in {"nodeName", "hostname"} -> {Unset, Bad, n2}
    [] v = "meshNetwork" -> {Bad, "tailnet", "lan"}
    [] v = "meshAdvertise" -> {Bad, n1}
    [] v \in {"meshOpen", "meshTailnet", "meshMDNS"} -> {Unset, Bad, FALSE, TRUE}
    [] v \in {"meshSecret", "meshSecretPrev"} -> {Unset, Bad, key}
    [] v = "meshEnforce" -> {Bad, "full", "outgoing", "none"}
    [] v \in {"meshSeeds", "viewNodes"} -> {Unset, <<n1, n2>>, <<n1, n1>>, <<n1, Blank>>}
                                           \cup (IF v = "meshSeeds" THEN {<<n1, Bad>>} ELSE {})
    [] v \in Durations \cup Counts \cup {"ratePerMin"} -> {Bad, -1, 0, 1}
    [] v = "maxBody" -> Sizes

(* The variables the mode of the mesh is made of. *)
ModeVariables == {"meshOpen", "meshSecret", "meshSecretPrev", "meshEnforce", "viewNodes"}

(* Every environment that differs from one of the two in one variable, or  *)
(* in two of the mode's.                                                   *)
ChangesOf(vs) == UNION {{v} \X Settings(v) : v \in vs}
FewChanges ==
  {[e EXCEPT ![c[1]] = c[2]] :
     e \in {SecuredGateway, OpenGateway}, c \in ChangesOf(Variables)}
  \cup
  {[e EXCEPT ![c[1]] = c[2], ![d[1]] = d[2]] :
     e \in {SecuredGateway, OpenGateway},
     c \in ChangesOf(ModeVariables), d \in ChangesOf(ModeVariables)}
=============================================================================
