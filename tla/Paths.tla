------------------------------- MODULE Paths --------------------------------
(***************************************************************************)
(* proxy.Router's switch: which calls are denied, which are routed by      *)
(* their model, and which go to the view node, on the path asked for or on *)
(* another.                                                                *)
(*                                                                         *)
(* A call is a method and a path, and a path the segments between its      *)
(* slashes: "/v1//power/" is <<"v1", "", "power", "">>.                    *)
(***************************************************************************)
EXTENDS Sequences, SequencesExt

CONSTANT Spelled    \* Spelled[s]: segment s in lower case, where it is not s itself

PathPower == <<"v1", "power">>
PathMeshPower == <<"v1", "mesh", "power">>
PathAliases == <<"v1", "aliases">>
InferencePaths ==
  {<<"v1", "chat", "completions">>, <<"v1", "completions">>, <<"v1", "embeddings">>}
landingPath == <<"">>
meshPagePath == <<"mesh">>

(* path.Clean, which leaves a trailing slash to the root alone. *)
CleanStep(kept, s) ==
  CASE s \in {"", "."} -> kept
    [] s = ".." -> IF kept = <<>> THEN <<>> ELSE Front(kept)
    [] OTHER -> Append(kept, s)
Kept(p) ==
  LET kept[i \in 0 .. Len(p)] == IF i = 0 THEN <<>> ELSE CleanStep(kept[i - 1], p[i])
  IN  kept
Clean(p) == Kept(p)[Len(p)]

(* What strings.EqualFold compares.  Spellings are ASCII, as long as what  *)
(* they spell, so that hasPrefixFold's cut by bytes is one by segments.    *)
Fold(p) == [i \in DOMAIN p |-> IF p[i] \in DOMAIN Spelled THEN Spelled[p[i]] ELSE p[i]]

isPowerPathPrefix(p) == IsPrefix(PathPower, Fold(Clean(p))) \/ IsPrefix(PathMeshPower, Fold(Clean(p)))
isPowerPath(p) == Fold(Clean(p)) \in {PathPower, PathMeshPower}

isAliasWrite(c) ==
  c.method \notin {"GET", "HEAD"} /\ IsPrefix(PathAliases, Fold(Clean(c.path)))

Denies(c) == isPowerPath(c.path) \/ isAliasWrite(c)
ByModel(c) == ~Denies(c) /\ c.method = "POST" /\ c.path \in InferencePaths
ToView(c) == ~Denies(c) /\ ~ByModel(c)

(* The path a call that goes to the view node is forwarded on. *)
Rewritten(c) == IF c.method = "GET" /\ c.path = landingPath THEN meshPagePath ELSE c.path

-----------------------------------------------------------------------------
(* What a node may make of a path: it may drop an empty or a "." segment,  *)
(* resolve a ".." against the segment before it or against the root, one   *)
(* after the other in any order, and may not tell upper from lower case.   *)

Without(p, i, j) == SubSeq(p, 1, i - 1) \o SubSeq(p, j + 1, Len(p))

Resolutions(p) ==
  {Without(p, i, i) : i \in {k \in DOMAIN p : p[k] \in {"", "."} \/ (k = 1 /\ p[k] = "..")}}
  \cup
  {Without(p, i, i + 1) :
     i \in {k \in 1 .. Len(p) - 1 : p[k] \notin {"", ".", ".."} /\ p[k + 1] = ".."}}

(* What it can be by the time at most k of them are done. *)
After(p) ==
  LET after[k \in 0 .. Len(p)] ==
        IF k = 0 THEN {p} ELSE after[k - 1] \cup UNION {Resolutions(q) : q \in after[k - 1]}
  IN  after
Resolved(p) == After(p)[Len(p)]

(* The paths on which a node can serve it: nothing is left to resolve. *)
Meanings(p) == {Fold(q) : q \in {f \in Resolved(p) : Resolutions(f) = {}}}

(* The calls meant by the deny rules: power is those two paths and nothing *)
(* below them; the alias table is its path and everything below, for every *)
(* method that is not a read.                                              *)
Forbidden(c) ==
  \E p \in Meanings(c.path) :
    \/ p \in {PathPower, PathMeshPower}
    \/ c.method \notin {"GET", "HEAD"} /\ IsPrefix(PathAliases, p)
=============================================================================
