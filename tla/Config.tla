------------------------------- MODULE Config -------------------------------
(***************************************************************************)
(* config.Load: which environments the gateway starts with, and what it    *)
(* takes them to say.                                                      *)
(*                                                                         *)
(* An environment maps each variable to what its text parses to: Unset     *)
(* when it is absent or blank, Bad when the text is not of the variable's  *)
(* kind.  A feeder flag that is "auto" counts as Unset.  Load stops at the *)
(* first thing it refuses; every refusal has the same effect, so Accepts   *)
(* is their conjunction, in no order.                                      *)
(***************************************************************************)
EXTENDS Integers, Sequences

CONSTANTS
  Unset,
  Bad,
  Blank,          \* an empty entry of a list
  MaxInt,         \* math.MaxInt64
  DefaultBody     \* MaxBody when nothing is set

ASSUME ConfigAssumption ==
  /\ Unset # Bad
  /\ MaxInt \in Nat \ {0}
  /\ DefaultBody \in 1 .. MaxInt

Durations == {"cookieTTL", "bodyReadTimeout", "rejoinInterval", "capacityPoll", "staleAfter"}
Counts == {"maxInflight", "rateBurst"}

Or(x, default) == IF x = Unset THEN default ELSE x

(* Unset, or one of the texts allowed. *)
OneOf(x, values) == x \in values \cup {Unset}

-----------------------------------------------------------------------------
(* ParseSize: a count and a binary multiple, in 64-bit integers. *)

Wrap(x) == ((x + MaxInt + 1) % (2 * (MaxInt + 1))) - (MaxInt + 1)

SizeFitsUnchecked(s) == s.n > 0
SizeFits(s) == s.n > 0 /\ s.n <= MaxInt \div s.unit

Size(s) == Wrap(s.n * s.unit)

-----------------------------------------------------------------------------
(* splitList: any names, none of them blank or given twice. *)
ListReads(l) ==
  l # Unset =>
    /\ \A i \in DOMAIN l : l[i] # Blank
    /\ \A i, j \in DOMAIN l : l[i] = l[j] => i = j

PortReads(p) == p # Unset => p \in 1 .. 65535

(* The name the gateway takes on the mesh. *)
NodeName(e) == Or(e["nodeName"], e["hostname"])

Open(e) == e["meshOpen"] = TRUE
Secured(e) == e["meshSecret"] # Unset

(* loadMesh: secured or open, one of the two and not both. *)
ModeReads(e) ==
  /\ Bad \notin {e["meshOpen"], e["meshSecret"], e["meshSecretPrev"]}
  /\ Open(e) # Secured(e)
  /\ e["meshSecretPrev"] # Unset => Secured(e)
  /\ OneOf(e["meshEnforce"], {"full", "outgoing", "none"})
  /\ Or(e["meshEnforce"], "full") # "full" => Secured(e)

Seeds(e) == Or(e["meshSeeds"], <<>>)

(* A seed is an address and a port, which splitList does not look at. *)
MeshReads(e) ==
  /\ OneOf(e["meshNetwork"], {"tailnet", "lan"})
  /\ PortReads(e["meshBindPort"])
  /\ Bad \notin {e["meshAdvertise"], e["meshTailnet"], e["meshMDNS"]}
  /\ ListReads(e["meshSeeds"])
  /\ \A i \in DOMAIN Seeds(e) : Seeds(e)[i] # Bad

ViewNodes(e) == Or(e["viewNodes"], <<>>)

ViewNodesReadAnyMesh(e) == ListReads(e["viewNodes"])
ViewNodesRead(e) == ListReads(e["viewNodes"]) /\ (Open(e) => ViewNodes(e) # <<>>)

LimitsRead(e) ==
  /\ \A v \in Durations \cup Counts : e[v] # Unset => e[v] # Bad /\ e[v] > 0
  /\ e["ratePerMin"] # Unset => e["ratePerMin"] # Bad /\ e["ratePerMin"] >= 0
  /\ e["maxBody"] # Unset => e["maxBody"] # Bad /\ SizeFits(e["maxBody"])

(* config.Load returns no error.  "removed" is set when any of the         *)
(* variables of version 1 is.                                              *)
Accepts(e) ==
  /\ e["removed"] = Unset
  /\ NodeName(e) \notin {Unset, Bad}
  /\ ModeReads(e)
  /\ MeshReads(e)
  /\ ViewNodesRead(e)
  /\ LimitsRead(e)

(* The configuration returned, as far as what follows tells it apart. *)
Loaded(e) ==
  [listen |-> Or(e["listen"], 8090),
   open |-> Open(e),
   secured |-> Secured(e),
   previous |-> e["meshSecretPrev"] # Unset,
   enforce |-> Or(e["meshEnforce"], "full"),
   viewNodes |-> ViewNodes(e),
   maxBody |-> IF e["maxBody"] = Unset THEN DefaultBody ELSE Size(e["maxBody"])]

(* fleet.portOf, which Load leaves to Start. *)
HasPort(c) == c.listen \in 1 .. 65535

-----------------------------------------------------------------------------
(* What a configuration that is loaded must be for the rest to be right. *)

(* The mesh is secured or open and never both.  An open one, which any     *)
(* node can join, has its view nodes named, each once; and the settings    *)
(* that only mean something with a secret come with one                    *)
(* (config.go:20-26, 165-172, 284-321).                                    *)
ModeSound(c) ==
  /\ c.open # c.secured
  /\ c.open => c.viewNodes # <<>>
  /\ \A i, j \in DOMAIN c.viewNodes : c.viewNodes[i] = c.viewNodes[j] => i = j
  /\ c.previous \/ c.enforce # "full" => c.secured

(* The body limit is positive, and what the operator wrote multiplied out  *)
(* without wrapping (config.go:410-443).                                   *)
SizeSound(e, c) ==
  /\ c.maxBody > 0
  /\ e["maxBody"] # Unset => c.maxBody = e["maxBody"].n * e["maxBody"].unit
=============================================================================
