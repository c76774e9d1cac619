-------------------------- MODULE AccessLogProofs ---------------------------
(***************************************************************************)
(* Proofs about AccessLog and Paths, for any requests and calls, paths of  *)
(* any length and any spelling.                                            *)
(*                                                                         *)
(* The first part is about paths and has no state: whatever a node makes   *)
(* of a path, it serves the one path.Clean gives.  The second part is the  *)
(* inductive invariant of the access log over Router's.                    *)
(***************************************************************************)
EXTENDS AccessLog, RouterProofs, SequenceTheorems, WellFoundedInduction

-----------------------------------------------------------------------------
(* Induction and recursion up to a number. *)

(* A set of numbers has a least one. *)
LEMMA Least ==
  ASSUME NEW T, T \subseteq Nat, T # {}
  PROVE  \E n \in T : \A k \in T : n <= k
<1>1. PICK n \in T : \A k \in T : <<k, n>> \notin OpToRel(<, Nat)
  BY NatLessThanWellFounded, WFMin, Zenon
<1>2. \A k \in T : ~(k < n)
  BY <1>1 DEF OpToRel
<1> QED
  BY <1>2

(* Induction up to n, the claim given by the set of numbers it holds of. *)
LEMMA UpTo ==
  ASSUME NEW n \in Nat, NEW T, 0 \in T, \A i \in 1 .. n : i - 1 \in T => i \in T
  PROVE  \A i \in 0 .. n : i \in T
<1> SUFFICES ASSUME {i \in 0 .. n : i \notin T} # {}
             PROVE  FALSE
  OBVIOUS
<1>1. PICK k \in {i \in 0 .. n : i \notin T} : \A i \in {j \in 0 .. n : j \notin T} : k <= i
  BY Least, {i \in 0 .. n : i \notin T} \subseteq Nat, Zenon
<1>2. k \in 1 .. n /\ k - 1 \in 0 .. n /\ k - 1 \notin T
  BY <1>1
<1> QED
  BY <1>1, <1>2

(* f is the recursion over 0 .. n that starts from a and goes on by step.  *)
Iterates(f, n, V, a, step) ==
  f \in [0 .. n -> V] /\ f[0] = a /\ \A i \in 1 .. n : f[i] = step[i][f[i - 1]]

(* There is such a function. *)
LEMMA Recursion ==
  ASSUME NEW n \in Nat, NEW V, NEW a \in V, NEW step \in [1 .. n -> [V -> V]]
  PROVE  \E f : Iterates(f, n, V, a, step)
<1> DEFINE Fits(f, m) == Iterates(f, m, V, a, step)
           T == {m \in 0 .. n : \E f : Fits(f, m)}
<1> USE DEF Iterates
<1>1. 0 \in T
  <2>1. Fits([i \in 0 .. 0 |-> a], 0)
    OBVIOUS
  <2> HIDE DEF Fits
  <2> QED
    BY <2>1
<1>2. ASSUME NEW m \in 1 .. n, m - 1 \in T
      PROVE  m \in T
  <2>1. PICK f : Fits(f, m - 1)
    BY <1>2
  <2> DEFINE g == [i \in 0 .. m |-> IF i = m THEN step[m][f[m - 1]] ELSE f[i]]
  <2>2. g \in [0 .. m -> V] /\ g[0] = a
    BY <2>1
  <2>3. ASSUME NEW i \in 1 .. m
        PROVE  g[i] = step[i][g[i - 1]]
    <3>1. CASE i = m
      <4>1. g[i] = step[m][f[m - 1]] /\ g[i - 1] = f[m - 1]
        BY <3>1
      <4> QED
        BY <3>1, <4>1
    <3>2. CASE i \in 1 .. m - 1
      <4>1. g[i] = f[i] /\ g[i - 1] = f[i - 1]
        BY <3>2
      <4> QED
        BY <2>1, <3>2, <4>1
    <3> HIDE DEF g
    <3>3. i = m \/ i \in 1 .. m - 1
      OBVIOUS
    <3> QED
      BY <3>1, <3>2, <3>3
  <2>4. Fits(g, m)
    BY <2>2, <2>3
  <2> HIDE DEF Fits, g
  <2> QED
    BY <2>4
<1> HIDE DEF T
<1>3. \A i \in 0 .. n : i \in T
  BY <1>1, <1>2, UpTo, Zenon
<1> QED
  BY <1>3 DEF T

-----------------------------------------------------------------------------
(* path.Clean, segment by segment. *)

(* What is kept is a path again. *)
LEMMA CleanStepType ==
  ASSUME NEW S, NEW kept \in Seq(S), NEW s \in S
  PROVE  CleanStep(kept, s) \in Seq(S)
<1>1. Append(kept, s) \in Seq(S)
  BY AppendProperties
<1>2. kept # <<>> => Front(kept) \in Seq(S)
  BY EmptySeq, SubSeqProperties, LenProperties DEF Front
<1> QED
  BY <1>1, <1>2, EmptySeq DEF CleanStep

(* What a step does, case by case. *)
LEMMA CleanStepSame ==
  /\ \A kept, s : s \in {"", "."} => CleanStep(kept, s) = kept
  /\ CleanStep(<<>>, "..") = <<>>
BY DEF CleanStep

LEMMA CleanStepBack ==
  \A kept : kept # <<>> => CleanStep(kept, "..") = Front(kept)
BY DEF CleanStep

LEMMA CleanStepOther ==
  \A kept, s : s \notin {"", ".", ".."} => CleanStep(kept, s) = Append(kept, s)
BY DEF CleanStep

(* Kept satisfies its equation: a step for each segment. *)
LEMMA KeptBySegment ==
  ASSUME NEW S, NEW p \in Seq(S)
  PROVE  /\ Kept(p) \in [0 .. Len(p) -> Seq(S)]
         /\ Kept(p)[0] = <<>>
         /\ \A i \in 1 .. Len(p) : Kept(p)[i] = CleanStep(Kept(p)[i - 1], p[i])
<1> DEFINE n == Len(p)
           V == Seq(S)
           nothing == <<>>
           step == [i \in 1 .. n |-> [kept \in V |-> CleanStep(kept, p[i])]]
           Rest(f) == [i \in 0 .. n |-> IF i = 0 THEN nothing ELSE CleanStep(f[i - 1], p[i])]
<1>1. n \in Nat
  BY LenProperties
<1>2. nothing \in V
  BY EmptySeq
<1>3. ASSUME NEW i \in 1 .. n, NEW kept \in V
      PROVE  CleanStep(kept, p[i]) \in V
  BY <1>1, ElementOfSeq, CleanStepType
<1>4. Kept(p) = CHOOSE f : f = Rest(f)
  BY DEF Kept
<1> HIDE DEF n, V, nothing
<1>5. \E f : f = Rest(f)
  <2>1. step \in [1 .. n -> [V -> V]]
    BY <1>3
  <2>2. PICK f : Iterates(f, n, V, nothing, step)
    <3> HIDE DEF step
    <3> QED
      BY <1>1, <1>2, <2>1, Recursion
  <2>3. ASSUME NEW i \in 1 .. n
        PROVE  f[i] = CleanStep(f[i - 1], p[i])
    <3>1. i - 1 \in 0 .. n /\ f[i - 1] \in V
      BY <1>1, <2>2 DEF Iterates
    <3>2. step[i] = [kept \in V |-> CleanStep(kept, p[i])]
      OBVIOUS
    <3> HIDE DEF step
    <3> QED
      BY <2>2, <3>1, <3>2 DEF Iterates
  <2>4. f = Rest(f)
    BY <1>1, <2>2, <2>3 DEF Iterates
  <2> QED
    BY <2>4
<1>6. Kept(p) = Rest(Kept(p))
  <2> HIDE DEF Rest
  <2> QED
    BY <1>4, <1>5
<1>7. Kept(p)[0] = nothing /\ \A i \in 1 .. n : Kept(p)[i] = CleanStep(Kept(p)[i - 1], p[i])
  BY <1>1, <1>6
<1> DEFINE T == {i \in 0 .. n : Kept(p)[i] \in V}
<1>8. 0 \in T /\ \A i \in 1 .. n : i - 1 \in T => i \in T
  BY <1>1, <1>2, <1>3, <1>7
<1>9. \A i \in 0 .. n : i \in T
  <2> HIDE DEF T
  <2> QED
    BY <1>1, <1>8, UpTo
<1> QED
  BY <1>1, <1>6, <1>7, <1>9 DEF n, V, nothing

(* Front takes back what Append put on. *)
LEMMA FrontOfAppend ==
  ASSUME NEW S, NEW s \in Seq(S), NEW e \in S
  PROVE  Append(s, e) # <<>> /\ Front(Append(s, e)) = s
<1>1. /\ Append(s, e) \in Seq(S)
      /\ Append(s, e) # <<>>
      /\ Len(Append(s, e)) = Len(s) + 1
      /\ \A i \in 1 .. Len(s) : Append(s, e)[i] = s[i]
  BY AppendProperties
<1>2. SubSeq(Append(s, e), 1, Len(s)) = s
  BY HeadTailAppend, SubSeqProperties, SeqEqual, <1>1, LenProperties
<1>3. Len(s) \in Nat
  BY LenProperties
<1> QED
  BY <1>1, <1>2, <1>3 DEF Front

(* The n segments of q after the first a are those of p after the first b. *)
Alike(q, a, p, b, n) == \A j \in 1 .. n : q[a + j] = p[b + j]

(* Two paths that are the same for a stretch, before which as much was     *)
(* kept of one as of the other, have the same kept after it.               *)
LEMMA KeptAlike ==
  ASSUME NEW S, NEW p \in Seq(S), NEW q \in Seq(S),
         NEW a \in Nat, NEW b \in Nat, NEW n \in Nat, a + n <= Len(q), b + n <= Len(p),
         Kept(q)[a] = Kept(p)[b],
         Alike(q, a, p, b, n)
  PROVE  Kept(q)[a + n] = Kept(p)[b + n]
<1> DEFINE T == {j \in 0 .. n : Kept(q)[a + j] = Kept(p)[b + j]}
<1>1. 0 \in T
  OBVIOUS
<1>2. ASSUME NEW j \in 1 .. n, j - 1 \in T
      PROVE  j \in T
  <2>1. a + j \in 1 .. Len(q) /\ b + j \in 1 .. Len(p)
    BY LenProperties
  <2>2. /\ Kept(q)[a + j] = CleanStep(Kept(q)[(a + j) - 1], q[a + j])
        /\ Kept(p)[b + j] = CleanStep(Kept(p)[(b + j) - 1], p[b + j])
    BY <2>1, KeptBySegment
  <2>3. Kept(q)[(a + j) - 1] = Kept(p)[(b + j) - 1]
    <3>1. (a + j) - 1 = a + (j - 1) /\ (b + j) - 1 = b + (j - 1)
      OBVIOUS
    <3> QED
      BY <1>2, <3>1
  <2> QED
    BY <2>2, <2>3 DEF Alike
<1> HIDE DEF T
<1>3. \A j \in 0 .. n : j \in T
  BY <1>1, <1>2, UpTo
<1> QED
  BY <1>3 DEF T

(* Without leaves the segments before i and after j. *)
LEMMA WithoutSegments ==
  ASSUME NEW S, NEW p \in Seq(S), NEW i \in 1 .. Len(p), NEW j \in i .. Len(p)
  PROVE  /\ Without(p, i, j) \in Seq(S)
         /\ Len(Without(p, i, j)) = Len(p) - (j - i + 1)
         /\ \A k \in 1 .. i - 1 : Without(p, i, j)[k] = p[k]
         /\ \A k \in 1 .. Len(p) - j : Without(p, i, j)[i - 1 + k] = p[j + k]
<1> DEFINE front == SubSeq(p, 1, i - 1)
           back == SubSeq(p, j + 1, Len(p))
<1>1. Len(p) \in Nat
  BY LenProperties
<1>2. front \in Seq(S) /\ Len(front) = i - 1 /\ \A k \in 1 .. i - 1 : front[k] = p[k]
  BY <1>1, SubSeqProperties, LenProperties
<1>3. /\ back \in Seq(S) /\ Len(back) = Len(p) - j
      /\ \A k \in 1 .. Len(p) - j : back[k] = p[j + k]
  BY <1>1, SubSeqProperties, LenProperties
<1> HIDE DEF front, back
<1>4. /\ front \o back \in Seq(S)
      /\ Len(front \o back) = Len(front) + Len(back)
      /\ \A k \in 1 .. Len(front) + Len(back) :
           (front \o back)[k] = IF k <= Len(front) THEN front[k] ELSE back[k - Len(front)]
  BY <1>2, <1>3, ConcatProperties
<1>5. \A k \in 1 .. i - 1 : (front \o back)[k] = p[k]
  BY <1>1, <1>2, <1>3, <1>4
<1>6. \A k \in 1 .. Len(p) - j : (front \o back)[i - 1 + k] = p[j + k]
  <2> TAKE k \in 1 .. Len(p) - j
  <2>1. i - 1 + k \in 1 .. Len(front) + Len(back) /\ ~(i - 1 + k <= Len(front))
    BY <1>1, <1>2, <1>3
  <2>2. (i - 1 + k) - Len(front) = k
    BY <1>2
  <2> QED
    BY <1>3, <1>4, <2>1, <2>2
<1>7. Without(p, i, j) = front \o back
  BY DEF Without, front, back
<1>8. Len(front \o back) = Len(p) - (j - i + 1)
  BY <1>1, <1>2, <1>3, <1>4
<1> QED
  BY <1>4, <1>5, <1>6, <1>7, <1>8

(* Segments that change nothing of what is kept can be left out.           *)
LEMMA CleanWithout ==
  ASSUME NEW S, NEW p \in Seq(S), NEW i \in 1 .. Len(p), NEW j \in i .. Len(p),
         Kept(p)[j] = Kept(p)[i - 1]
  PROVE  Clean(Without(p, i, j)) = Clean(p)
<1> DEFINE q == Without(p, i, j)
<1>1. /\ q \in Seq(S)
      /\ Len(q) = Len(p) - (j - i + 1)
      /\ \A k \in 1 .. i - 1 : q[k] = p[k]
      /\ \A k \in 1 .. Len(p) - j : q[i - 1 + k] = p[j + k]
  BY WithoutSegments
<1>2. Len(p) \in Nat
  BY LenProperties
<1> HIDE DEF q
<1>3. Kept(q)[i - 1] = Kept(p)[i - 1]
  <2>1. Kept(q)[0] = Kept(p)[0]
    BY <1>1, KeptBySegment
  <2>2. Alike(q, 0, p, 0, i - 1)
    BY <1>1 DEF Alike
  <2>3. i - 1 \in Nat /\ 0 \in Nat /\ 0 + (i - 1) <= Len(q) /\ 0 + (i - 1) <= Len(p)
    BY <1>1, <1>2
  <2> DEFINE n == i - 1
  <2>4. n \in Nat /\ 0 + n = n /\ n <= Len(q) /\ n <= Len(p)
    BY <2>3
  <2>5. Alike(q, 0, p, 0, n)
    BY <2>2
  <2> HIDE DEF n
  <2>6. Kept(q)[0 + n] = Kept(p)[0 + n]
    BY <1>1, <2>1, <2>3, <2>4, <2>5, KeptAlike
  <2> QED
    BY <2>4, <2>6 DEF n
<1> DEFINE a == i - 1
           n == Len(p) - j
<1>4. a \in Nat /\ j \in Nat /\ n \in Nat /\ a + n = Len(q) /\ j + n = Len(p)
  BY <1>1, <1>2
<1>5. Kept(q)[a] = Kept(p)[j] /\ Alike(q, a, p, j, n)
  BY <1>1, <1>3 DEF Alike
<1> HIDE DEF a, n
<1>6. a + n <= Len(q) /\ j + n <= Len(p)
  BY <1>1, <1>2, <1>4
<1>7. Kept(q)[a + n] = Kept(p)[j + n]
  BY <1>1, <1>4, <1>5, <1>6, KeptAlike
<1> QED
  BY <1>4, <1>7 DEF Clean, q

-----------------------------------------------------------------------------
(* What a node makes of a path. *)

(* A step of a node's resolution is shorter and cleans to the same path.   *)
LEMMA ResolutionCleans ==
  ASSUME NEW S, NEW p \in Seq(S), NEW q \in Resolutions(p)
  PROVE  q \in Seq(S) /\ Len(q) < Len(p) /\ Clean(q) = Clean(p)
<1>1. Len(p) \in Nat /\ DOMAIN p = 1 .. Len(p)
  BY LenProperties
<1>2. CASE \E i \in DOMAIN p : /\ p[i] \in {"", "."} \/ (i = 1 /\ p[i] = "..")
                               /\ q = Without(p, i, i)
  <2>1. PICK i \in DOMAIN p : /\ p[i] \in {"", "."} \/ (i = 1 /\ p[i] = "..")
                              /\ q = Without(p, i, i)
    BY <1>2
  <2>2. i \in 1 .. Len(p) /\ i \in i .. Len(p)
    BY <1>1
  <2>3. Kept(p)[i] = CleanStep(Kept(p)[i - 1], p[i]) /\ Kept(p)[0] = <<>>
    BY <2>2, KeptBySegment
  <2>4. Kept(p)[i] = Kept(p)[i - 1]
    <3>1. CASE p[i] \in {"", "."}
      BY <2>3, <3>1, CleanStepSame, Zenon
    <3>2. CASE i = 1 /\ p[i] = ".."
      <4>1. i - 1 = 0
        BY <3>2
      <4>2. Kept(p)[i - 1] = <<>>
        BY <2>3, <4>1
      <4> QED
        BY <2>3, <3>2, <4>2, CleanStepSame, Zenon
    <3> QED
      BY <2>1, <3>1, <3>2
  <2>5. Without(p, i, i) \in Seq(S) /\ Len(Without(p, i, i)) = Len(p) - (i - i + 1)
    BY <2>2, WithoutSegments, Zenon
  <2>6. Clean(Without(p, i, i)) = Clean(p)
    BY <2>2, <2>4, CleanWithout, Zenon
  <2>7. Len(p) - (i - i + 1) < Len(p)
    BY <1>1, <2>2
  <2> QED
    BY <2>1, <2>5, <2>6, <2>7
<1>3. CASE \E i \in 1 .. Len(p) - 1 : /\ p[i] \notin {"", ".", ".."} /\ p[i + 1] = ".."
                                      /\ q = Without(p, i, i + 1)
  <2>1. PICK i \in 1 .. Len(p) - 1 : /\ p[i] \notin {"", ".", ".."} /\ p[i + 1] = ".."
                                     /\ q = Without(p, i, i + 1)
    BY <1>3
  <2>2. i \in 1 .. Len(p) /\ i + 1 \in i .. Len(p) /\ i + 1 \in 1 .. Len(p) /\ (i + 1) - 1 = i
    BY <1>1
  <2>3. /\ Kept(p)[i] = CleanStep(Kept(p)[i - 1], p[i])
        /\ Kept(p)[i + 1] = CleanStep(Kept(p)[i], p[i + 1])
        /\ Kept(p)[i - 1] \in Seq(S)
    <3>1. Kept(p)[i + 1] = CleanStep(Kept(p)[(i + 1) - 1], p[i + 1])
      BY <2>2, KeptBySegment
    <3>2. i - 1 \in 0 .. Len(p)
      BY <1>1
    <3> QED
      BY <2>2, <3>1, <3>2, KeptBySegment
  <2>4. p[i] \in S
    BY <2>2, ElementOfSeq
  <2>5. Kept(p)[i] = Append(Kept(p)[i - 1], p[i])
    BY <2>1, <2>3, CleanStepOther, Zenon
  <2>6. /\ Append(Kept(p)[i - 1], p[i]) # <<>>
        /\ Front(Append(Kept(p)[i - 1], p[i])) = Kept(p)[i - 1]
    BY <2>3, <2>4, FrontOfAppend
  <2>7. Kept(p)[i + 1] = Kept(p)[i - 1]
    <3> DEFINE kept == Append(Kept(p)[i - 1], p[i])
    <3>1. kept # <<>> /\ Front(kept) = Kept(p)[i - 1]
      BY <2>6
    <3>2. Kept(p)[i + 1] = CleanStep(kept, "..")
      BY <2>1, <2>3, <2>5
    <3> HIDE DEF kept
    <3>3. CleanStep(kept, "..") = Front(kept)
      BY <3>1, CleanStepBack, Zenon
    <3> QED
      BY <3>1, <3>2, <3>3
  <2>8. /\ Without(p, i, i + 1) \in Seq(S)
        /\ Len(Without(p, i, i + 1)) = Len(p) - ((i + 1) - i + 1)
    <3> DEFINE j == i + 1
    <3>1. i \in 1 .. Len(p) /\ j \in i .. Len(p)
      BY <2>2
    <3> HIDE DEF j
    <3>2. Without(p, i, j) \in Seq(S) /\ Len(Without(p, i, j)) = Len(p) - (j - i + 1)
      BY <3>1, WithoutSegments, Zenon
    <3> QED
      BY <3>2 DEF j
  <2>9. Clean(Without(p, i, i + 1)) = Clean(p)
    BY <2>2, <2>7, CleanWithout, Zenon
  <2>10. Len(p) - ((i + 1) - i + 1) < Len(p)
    BY <1>1, <2>2
  <2> QED
    BY <2>1, <2>8, <2>9, <2>10
<1> QED
  BY <1>2, <1>3 DEF Resolutions

(* A step of resolution gives paths. *)
LEMMA ResolutionsType ==
  ASSUME NEW S, NEW Q \in SUBSET Seq(S)
  PROVE  Q \cup UNION {Resolutions(q) : q \in Q} \in SUBSET Seq(S)
BY ResolutionCleans

(* After satisfies its equation: one more step of resolution at a time.    *)
LEMMA AfterBySteps ==
  ASSUME NEW S, NEW p \in Seq(S)
  PROVE  /\ After(p) \in [0 .. Len(p) -> SUBSET Seq(S)]
         /\ After(p)[0] = {p}
         /\ \A k \in 1 .. Len(p) :
              After(p)[k] = After(p)[k - 1] \cup UNION {Resolutions(q) : q \in After(p)[k - 1]}
<1> DEFINE n == Len(p)
           V == SUBSET Seq(S)
           start == {p}
           More(Q) == Q \cup UNION {Resolutions(q) : q \in Q}
           step == [i \in 1 .. n |-> [Q \in V |-> More(Q)]]
           Rest(f) == [k \in 0 .. n |-> IF k = 0 THEN start ELSE More(f[k - 1])]
<1>1. n \in Nat
  BY LenProperties
<1>2. start \in V
  OBVIOUS
<1>3. \A Q \in V : More(Q) \in V
  BY ResolutionsType
<1>4. After(p) = CHOOSE f : f = Rest(f)
  BY DEF After
<1> HIDE DEF n, V, start, More
<1>5. \E f : f = Rest(f)
  <2>1. step \in [1 .. n -> [V -> V]]
    BY <1>3
  <2>2. PICK f : Iterates(f, n, V, start, step)
    <3> HIDE DEF step
    <3> QED
      BY <1>1, <1>2, <2>1, Recursion
  <2>3. ASSUME NEW i \in 1 .. n
        PROVE  f[i] = More(f[i - 1])
    <3>1. i - 1 \in 0 .. n /\ f[i - 1] \in V
      BY <1>1, <2>2 DEF Iterates
    <3>2. step[i] = [Q \in V |-> More(Q)]
      OBVIOUS
    <3> HIDE DEF step
    <3> QED
      BY <2>2, <3>1, <3>2 DEF Iterates
  <2>4. f = Rest(f)
    BY <1>1, <2>2, <2>3 DEF Iterates
  <2> QED
    BY <2>4
<1>6. After(p) = Rest(After(p))
  <2> HIDE DEF Rest
  <2> QED
    BY <1>4, <1>5
<1>7. After(p)[0] = start /\ \A k \in 1 .. n : After(p)[k] = More(After(p)[k - 1])
  BY <1>1, <1>6
<1> DEFINE T == {k \in 0 .. n : After(p)[k] \in V}
<1>8. 0 \in T /\ \A k \in 1 .. n : k - 1 \in T => k \in T
  BY <1>1, <1>2, <1>3, <1>7
<1>9. \A k \in 0 .. n : k \in T
  <2> HIDE DEF T
  <2> QED
    BY <1>1, <1>8, UpTo
<1>10. After(p) \in [0 .. n -> V]
  BY <1>1, <1>6, <1>9
<1> QED
  BY <1>7, <1>10 DEF n, V, start, More

(* Whatever a node resolves a path to cleans to the same path.             *)
LEMMA ResolvedCleans ==
  ASSUME NEW S, NEW p \in Seq(S), NEW q \in Resolved(p)
  PROVE  q \in Seq(S) /\ Clean(q) = Clean(p)
<1> DEFINE n == Len(p)
           T == {k \in 0 .. n : \A f \in After(p)[k] : f \in Seq(S) /\ Clean(f) = Clean(p)}
<1>1. n \in Nat
  BY LenProperties
<1>2. 0 \in T
  BY <1>1, AfterBySteps
<1>3. ASSUME NEW k \in 1 .. n, k - 1 \in T
      PROVE  k \in T
  <2>1. After(p)[k] = After(p)[k - 1] \cup UNION {Resolutions(f) : f \in After(p)[k - 1]}
    BY AfterBySteps
  <2>2. ASSUME NEW f \in After(p)[k]
        PROVE  f \in Seq(S) /\ Clean(f) = Clean(p)
    <3>1. CASE f \in After(p)[k - 1]
      BY <1>3, <3>1
    <3>2. CASE \E g \in After(p)[k - 1] : f \in Resolutions(g)
      <4>1. PICK g \in After(p)[k - 1] : f \in Resolutions(g)
        BY <3>2
      <4>2. g \in Seq(S) /\ Clean(g) = Clean(p)
        BY <1>3
      <4> QED
        BY <4>1, <4>2, ResolutionCleans
    <3> QED
      BY <2>1, <2>2, <3>1, <3>2
  <2> QED
    BY <2>2
<1> HIDE DEF T
<1>4. \A k \in 0 .. n : k \in T
  BY <1>1, <1>2, <1>3, UpTo
<1>5. n \in T
  BY <1>1, <1>4
<1> QED
  BY <1>5 DEF T, Resolved

(* A node that goes on comes to an end: as many steps as there are         *)
(* segments leave nothing to resolve.                                      *)
LEMMA SomethingSettled ==
  ASSUME NEW S, NEW p \in Seq(S)
  PROVE  \E q \in Resolved(p) : Resolutions(q) = {}
<1> DEFINE n == Len(p)
           Far(k) == \E q \in After(p)[k] : Resolutions(q) = {} \/ Len(q) <= n - k
           T == {k \in 0 .. n : Far(k)}
<1>1. n \in Nat
  BY LenProperties
<1>2. 0 \in T
  BY <1>1, AfterBySteps
<1>3. ASSUME NEW k \in 1 .. n, k - 1 \in T
      PROVE  k \in T
  <2>1. /\ After(p)[k] = After(p)[k - 1] \cup UNION {Resolutions(q) : q \in After(p)[k - 1]}
        /\ After(p)[k - 1] \in SUBSET Seq(S)
    BY <1>1, AfterBySteps
  <2>2. PICK q \in After(p)[k - 1] : Resolutions(q) = {} \/ Len(q) <= n - (k - 1)
    BY <1>3
  <2>3. CASE Resolutions(q) = {}
    BY <2>1, <2>3
  <2>4. CASE Resolutions(q) # {}
    <3>1. PICK f : f \in Resolutions(q)
      BY <2>4
    <3>2. f \in Seq(S) /\ Len(f) < Len(q)
      BY <2>1, <3>1, ResolutionCleans
    <3>3. Len(f) <= n - k
      BY <1>1, <2>1, <2>2, <2>4, <3>2, LenProperties
    <3> QED
      BY <2>1, <3>1, <3>3
  <2> QED
    BY <2>3, <2>4
<1> HIDE DEF T
<1>4. \A k \in 0 .. n : k \in T
  BY <1>1, <1>2, <1>3, UpTo
<1>5. n \in T
  BY <1>1, <1>4
<1>6. PICK q \in Resolved(p) : Resolutions(q) = {} \/ Len(q) <= n - n
  BY <1>5 DEF T, Resolved
<1>7. q \in Seq(S)
  BY ResolvedCleans
<1>8. ASSUME Resolutions(q) # {}
      PROVE  FALSE
  <2>1. PICK f : f \in Resolutions(q)
    BY <1>8
  <2>2. f \in Seq(S) /\ Len(f) < Len(q)
    BY <1>7, <2>1, ResolutionCleans
  <2> QED
    BY <1>1, <1>6, <1>7, <1>8, <2>2, LenProperties
<1> QED
  BY <1>8

(* A path with nothing left to resolve has none of the segments that are.  *)
LEMMA SettledSegments ==
  ASSUME NEW S, NEW p \in Seq(S), Resolutions(p) = {}
  PROVE  \A i \in 1 .. Len(p) : p[i] \notin {"", ".", ".."}
<1>1. Len(p) \in Nat /\ DOMAIN p = 1 .. Len(p)
  BY LenProperties
<1>2. \A i \in 1 .. Len(p) : p[i] \notin {"", "."} /\ ~(i = 1 /\ p[i] = "..")
  BY <1>1 DEF Resolutions
<1>3. \A i \in 1 .. Len(p) - 1 : ~(p[i] \notin {"", ".", ".."} /\ p[i + 1] = "..")
  BY <1>1 DEF Resolutions
<1> DEFINE Up == {i \in 1 .. Len(p) : p[i] = ".."}
<1>4. ASSUME Up # {}
      PROVE  FALSE
  <2>1. Up \subseteq Nat
    BY <1>1
  <2>2. PICK i \in Up : \A k \in Up : i <= k
    <3> HIDE DEF Up
    <3> QED
      BY <1>4, <2>1, Least
  <2>3. i \in 1 .. Len(p) /\ p[i] = ".." /\ i # 1
    BY <1>2
  <2>4. i - 1 \in 1 .. Len(p) - 1 /\ i - 1 \in 1 .. Len(p) /\ (i - 1) + 1 = i /\ ~(i <= i - 1)
    BY <1>1, <2>3
  <2>5. p[i - 1] # ".."
    BY <2>2, <2>4
  <2>6. p[i - 1] \notin {"", ".", ".."}
    BY <1>2, <2>4, <2>5
  <2> QED
    BY <1>3, <2>3, <2>4, <2>6
<1> QED
  BY <1>1, <1>2, <1>4

(* path.Clean changes nothing of such a path. *)
LEMMA SettledIsClean ==
  ASSUME NEW S, NEW p \in Seq(S), Resolutions(p) = {}
  PROVE  Clean(p) = p
<1> DEFINE n == Len(p)
           T == {i \in 0 .. n : Kept(p)[i] = SubSeq(p, 1, i)}
<1>1. n \in Nat
  BY LenProperties
<1>2. 0 \in T
  <2>1. SubSeq(p, 1, 0) = <<>>
    BY SubSeqEmpty
  <2> QED
    BY <1>1, <2>1, KeptBySegment
<1>3. ASSUME NEW i \in 1 .. n, i - 1 \in T
      PROVE  i \in T
  <2>1. Kept(p)[i] = CleanStep(Kept(p)[i - 1], p[i])
    BY KeptBySegment
  <2>2. p[i] \notin {"", ".", ".."}
    BY SettledSegments
  <2>3. Kept(p)[i] = Append(Kept(p)[i - 1], p[i])
    BY <2>1, <2>2 DEF CleanStep
  <2>4. Append(SubSeq(p, 1, i - 1), p[i]) = SubSeq(p, 1, i)
    BY <1>1, SubSeqRecursiveSecond
  <2>5. Kept(p)[i - 1] = SubSeq(p, 1, i - 1)
    BY <1>3
  <2>6. Kept(p)[i] = SubSeq(p, 1, i)
    BY <2>3, <2>4, <2>5
  <2> QED
    BY <1>1, <2>6
<1> HIDE DEF T
<1>4. \A i \in 0 .. n : i \in T
  BY <1>1, <1>2, <1>3, UpTo
<1>5. n \in T
  BY <1>1, <1>4
<1>6. SubSeq(p, 1, n) = p
  BY SubSeqFull
<1> QED
  BY <1>5, <1>6 DEF T, Clean

(* However a node resolves a path - in whatever order, and telling upper   *)
(* from lower case or not -, the path it serves is the one path.Clean      *)
(* gives, which the deny rules look at (router.go:214-263).                *)
THEOREM OneMeaning ==
  ASSUME NEW S, NEW p \in Seq(S)
  PROVE  Meanings(p) = {Fold(Clean(p))}
<1>1. ASSUME NEW f \in Resolved(p), Resolutions(f) = {}
      PROVE  f = Clean(p)
  BY <1>1, ResolvedCleans, SettledIsClean
<1>2. \E f \in Resolved(p) : Resolutions(f) = {}
  BY SomethingSettled
<1>3. {f \in Resolved(p) : Resolutions(f) = {}} = {Clean(p)}
  BY <1>1, <1>2
<1> QED
  BY <1>3 DEF Meanings

(* So ServeHTTP denies exactly the calls that mean a denied one, for every *)
(* method and every path (router.go:169-188, 214-263).                     *)
THEOREM DeniesForbidden ==
  ASSUME NEW S, NEW c, c.path \in Seq(S)
  PROVE  Denies(c) <=> Forbidden(c)
BY OneMeaning DEF Denies, Forbidden, isPowerPath, isAliasWrite

-----------------------------------------------------------------------------
(* The inductive invariant: what is true of one request's line, recorder   *)
(* and request info at each point of its handler.                          *)

(* The statuses of the router's own answers, and the node's. *)
Statuses == {400, 403, 408, 429, 502, 503}

Lines == [path : Seq(STRING), status : Nat, node : Nodes \cup {NoNode}, aborted : BOOLEAN]

(* Every variable of the log that a line is made of has its type. *)
LogTypeOK ==
  /\ asked \in [Requests -> UNION {Asks[r] : r \in Requests}]
  /\ url \in [Requests -> Seq(STRING)]
  /\ rec \in [Requests -> Nat]
  /\ info \in [Requests -> Nodes \cup {NoNode}]
  /\ aborted \in [Requests -> BOOLEAN]
  /\ line \in [Requests -> Lines]
  /\ sent \in [Requests -> Seq(Nat)]
  /\ interim \in [Requests -> BOOLEAN]
  /\ tried \in [Requests -> Nodes \cup {NoNode}]
  /\ whole \in [Requests -> BOOLEAN]

(* The inbound request keeps its path. *)
PathKept(r) == url[r] = asked[r].path

(* The arm of the switch is the call's, and each arm has its own way in. *)
Routed(r) ==
  /\ pc[r] = "arrived" <=> kind[r] = "unrouted"
  /\ kind[r] # "unrouted" => (kind[r] = "denied" <=> Denies(asked[r]))
  /\ pc[r] = "limit" => kind[r] = "model"
  /\ pc[r] = "view" => kind[r] = "view"
  /\ pc[r] \in {"acquire", "read", "reading"} => kind[r] \in {"model", "view"}

(* One status is sent for a response that was started, and none before. *)
SentForAnswer(r) ==
  /\ answers[r] = 0 => sent[r] = <<>>
  /\ answers[r] # 0 => \E s \in Statuses : sent[r] = <<s>>

(* The recorder has the status that was sent, unless the node sent an      *)
(* informational one first.                                                *)
Recorded(r) ==
  /\ interim[r] => r \in Informs
  /\ ~interim[r] => rec[r] = IF sent[r] = <<>> THEN 0 ELSE Last(sent[r])

(* The node named is the one the request is forwarded to, and once the     *)
(* forward has ended the one it was to.                                    *)
Named(r) ==
  /\ pc[r] \in Unsent => info[r] = NoNode /\ tried[r] = NoNode
  /\ pc[r] \in {"read", "reading"} /\ kind[r] = "view" => node[r] \in Nodes
  /\ pc[r] \in Forwarding => node[r] \in Nodes /\ info[r] = node[r]
  /\ pc[r] \in {"repick", "unavailable", "return", "done"} => info[r] = tried[r]

(* How the response ended. *)
EndKept(r) ==
  /\ pc[r] \in Unanswered \cup {"stream", "panicking"} => ~aborted[r] /\ ~whole[r]
  /\ pc[r] \in {"stream", "panicking"} => sent[r] = <<Upstream>>
  /\ pc[r] = "ended" => ~aborted[r] /\ (whole[r] <=> sent[r] = <<Upstream>>)
  /\ pc[r] \in {"return", "done"} =>
       (aborted[r] <=> ~whole[r] /\ sent[r] = <<Upstream>> /\ tried[r] # NoNode)

(* A line is written once everything is settled, and says it. *)
Logged(r) ==
  line[r] # NoLine =>
    /\ pc[r] = "done"
    /\ line[r] = [path |-> url[r], status |-> Status(r), node |-> info[r],
                  aborted |-> aborted[r]]

CallInv(r) ==
  /\ PathKept(r)
  /\ Routed(r)
  /\ SentForAnswer(r)
  /\ Recorded(r)
  /\ Named(r)
  /\ EndKept(r)
  /\ Logged(r)

LogInv ==
  /\ IInv
  /\ LogTypeOK
  /\ \A r \in Requests : CallInv(r)

-----------------------------------------------------------------------------
(* A disjunct of LogNext. *)
AnyStep(r) ==
  \/ Goes(r) \/ Reads(r) \/ RefusesBody(r) \/ TimesOut(r) \/ LosesNode(r) \/ Answers(r)
  \/ Informational(r) \/ Ends(r) \/ Passes(r) \/ Cancels(r) \/ Leaves(r)

(* Every step is one of Router's, or leaves its variables alone. *)
LEMMA StepOfRouter ==
  ASSUME NEW r \in Requests, AnyStep(r)
  PROVE  (Step(r) \/ ClientLeaves(r)) \/ UNCHANGED vars
<1>1. Goes(r) => Handler(r) \/ UNCHANGED vars
  BY DEF Goes, Decides, Refuses, Chooses, ChoosesAgain, Forwarded, Panics, Silent, Log, Handler
<1>2. Reads(r) \/ RefusesBody(r) \/ TimesOut(r) \/ LosesNode(r) \/ Answers(r) \/ Ends(r)
        => Awaited(r) \/ BodyTimeout(r)
  BY DEF Reads, RefusesBody, TimesOut, LosesNode, Answers, Ends, Awaited
<1>3. Passes(r) => Awaited(r)
  BY DEF Passes, Awaited
<1>4. Cancels(r) => Cancelled(r)
  BY DEF Cancels
<1>5. Leaves(r) => ClientLeaves(r)
  BY DEF Leaves
<1>6. Informational(r) => UNCHANGED vars
  BY DEF Informational
<1> QED
  BY <1>1, <1>2, <1>3, <1>4, <1>5, <1>6 DEF AnyStep, Step

(* So a run of AccessLog is a run of Router: the log, the recorder and the *)
(* request info add nothing to what the handler does (accesslog.go:70-121, *)
(* requestinfo.go).  All that RouterProofs proves holds of it.             *)
THEOREM RunsRouter == LogSpec => Spec
<1>1. LogInit => Init
  BY DEF LogInit
<1>2. [LogNext]_logVars => [Next]_vars
  <2>1. LogNext => [Next]_vars
    BY StepOfRouter DEF LogNext, AnyStep, Next
  <2>2. UNCHANGED logVars => UNCHANGED vars
    BY DEF logVars
  <2> QED
    BY <2>1, <2>2
<1> QED
  BY <1>1, <1>2, PTL DEF LogSpec, Spec

(* In particular it keeps what Gate promises.                              *)
THEOREM LogImplementsGate == LogSpec => KeepsPromise
BY RunsRouter, ImplementsGate

(* And the reservations it takes it gives back as Reserve asks.            *)
THEOREM LogImplementsReserve == LogSpec => KeepsReserve
BY RunsRouter, ImplementsReserve

-----------------------------------------------------------------------------
(* The variables of the log, by themselves. *)

(* Every step keeps their types. *)
LEMMA LogTypeOKStep ==
  ASSUME RouterAssumption, TypeOK, TypeOK', LogTypeOK, NEW r \in Requests, AnyStep(r)
  PROVE  LogTypeOK'
<1> USE DEF LogTypeOK, logging, history
<1>1. \A x \in Nat : Append(sent[r], x) \in Seq(Nat)
  BY AppendProperties
<1>2. ASSUME NEW s \in Nat, Writes(r, s)
      PROVE  LogTypeOK'
  BY <1>1, <1>2 DEF Writes, Record
<1>3. ASSUME Names(r)
      PROVE  LogTypeOK'
  BY <1>3 DEF Names, setNode, TypeOK
<1>4. ASSUME UNCHANGED <<asked, logging, history>>
      PROVE  LogTypeOK'
  BY <1>4
<1>5. ASSUME rewritePath(r), UNCHANGED <<asked, rec, info, aborted, line, history>>
      PROVE  LogTypeOK'
  BY <1>5 DEF rewritePath
<1> HIDE DEF LogTypeOK
<1>6. CASE Decides(r) \/ Refuses(r)
  BY <1>2, <1>4, <1>5, <1>6 DEF Decides, Refuses
<1>7. CASE Chooses(r) \/ ChoosesAgain(r) \/ Reads(r)
  BY <1>3, <1>4, <1>7 DEF Chooses, ChoosesAgain, Reads, NamesAgain
<1>8. CASE RefusesBody(r) \/ TimesOut(r) \/ LosesNode(r) \/ Answers(r)
  BY <1>2, <1>8 DEF RefusesBody, TimesOut, LosesNode, Answers, Upstream
<1>9. CASE Silent(r) \/ Passes(r) \/ Cancels(r) \/ Leaves(r)
  BY <1>4, <1>9 DEF Silent, Passes, Cancels, Leaves
<1> USE DEF LogTypeOK
<1>10. CASE Forwarded(r) \/ Panics(r) \/ Ends(r)
  BY <1>10 DEF Forwarded, Panics, Ends, TypeOK
<1>11. CASE Informational(r)
  BY <1>11 DEF Informational, Record
<1>12. CASE Log(r)
  <2> DEFINE new == [path |-> url[r], status |-> Status(r), node |-> info[r],
                     aborted |-> aborted[r]]
  <2>1. Status(r) \in Nat
    BY DEF Status
  <2>2. new \in Lines
    BY <2>1 DEF Lines
  <2> HIDE DEF new
  <2>3. line' = [line EXCEPT ![r] = new]
    BY <1>12 DEF Log, new
  <2>4. line' \in [Requests -> Lines]
    BY <2>2, <2>3
  <2> QED
    BY <1>12, <2>4 DEF Log
<1> HIDE DEF LogTypeOK
<1> QED
  BY <1>6, <1>7, <1>8, <1>9, <1>10, <1>11, <1>12 DEF AnyStep, Goes

(* The log's variables of q stay. *)
LogSame(q) ==
  /\ asked'[q] = asked[q] /\ url'[q] = url[q] /\ rec'[q] = rec[q] /\ info'[q] = info[q]
  /\ aborted'[q] = aborted[q] /\ line'[q] = line[q] /\ sent'[q] = sent[q]
  /\ interim'[q] = interim[q] /\ tried'[q] = tried[q] /\ whole'[q] = whole[q]

(* A step of one request writes nothing of the others'. *)
LEMMA LogOthersAlone ==
  ASSUME LogTypeOK, NEW r \in Requests, AnyStep(r), NEW q \in Requests, q # r
  PROVE  LogSame(q)
<1> USE DEF LogTypeOK, logging, history, LogSame
<1>1. ASSUME NEW s, Writes(r, s)
      PROVE  LogSame(q)
  BY <1>1 DEF Writes, Record
<1>2. ASSUME Names(r)
      PROVE  LogSame(q)
  BY <1>2 DEF Names, setNode
<1>3. ASSUME UNCHANGED <<asked, logging, history>>
      PROVE  LogSame(q)
  BY <1>3
<1>4. ASSUME rewritePath(r), UNCHANGED <<asked, rec, info, aborted, line, history>>
      PROVE  LogSame(q)
  BY <1>4 DEF rewritePath
<1> HIDE DEF LogTypeOK, LogSame
<1>5. CASE Decides(r) \/ Refuses(r)
  BY <1>1, <1>3, <1>4, <1>5 DEF Decides, Refuses
<1>6. CASE Chooses(r) \/ ChoosesAgain(r) \/ Reads(r)
  BY <1>2, <1>3, <1>6 DEF Chooses, ChoosesAgain, Reads, NamesAgain
<1>7. CASE RefusesBody(r) \/ TimesOut(r) \/ LosesNode(r) \/ Answers(r)
  BY <1>1, <1>7 DEF RefusesBody, TimesOut, LosesNode, Answers
<1>8. CASE Silent(r) \/ Passes(r) \/ Cancels(r) \/ Leaves(r)
  BY <1>3, <1>8 DEF Silent, Passes, Cancels, Leaves
<1> USE DEF LogTypeOK, LogSame
<1>9. CASE Forwarded(r) \/ Panics(r) \/ Ends(r)
  BY <1>9 DEF Forwarded, Panics, Ends
<1>10. CASE Informational(r)
  BY <1>10 DEF Informational, Record
<1>11. CASE Log(r)
  BY <1>11 DEF Log
<1> QED
  BY <1>5, <1>6, <1>7, <1>8, <1>9, <1>10, <1>11 DEF AnyStep, Goes

-----------------------------------------------------------------------------
(* What a step of a request keeps of what is true of that request. *)

(* The last of one status is that status. *)
LEMMA LastOfOne == \A s : Last(<<s>>) = s
BY DEF Last

(* The first status written is the one sent and the one recorded. *)
LEMMA WritesFirst ==
  ASSUME TypeOK, LogTypeOK, NEW r \in Requests, CallInv(r), answers[r] = 0, Answer(r),
         NEW s \in Statuses, Writes(r, s)
  PROVE  /\ sent'[r] = <<s>> /\ SentForAnswer(r)' /\ Recorded(r)'
         /\ url'[r] = url[r] /\ asked'[r] = asked[r] /\ info'[r] = info[r]
         /\ aborted'[r] = aborted[r] /\ line'[r] = line[r] /\ interim'[r] = interim[r]
         /\ tried'[r] = tried[r] /\ whole'[r] = whole[r]
<1>1. sent[r] = <<>> /\ (~interim[r] => rec[r] = 0)
  BY DEF CallInv, SentForAnswer, Recorded
<1>2. sent'[r] = <<s>>
  BY <1>1 DEF Writes, LogTypeOK
<1>3. rec'[r] = IF rec[r] = 0 THEN s ELSE rec[r]
  BY DEF Writes, Record, LogTypeOK
<1>4. UNCHANGED <<asked, url, info, aborted, line, interim, tried, whole>>
  BY DEF Writes
<1>5. answers'[r] = 1
  BY DEF Answer, TypeOK
<1>6. SentForAnswer(r)'
  BY <1>2, <1>5 DEF SentForAnswer
<1>7. Recorded(r)'
  <2>1. (interim[r] => r \in Informs)'
    BY <1>4 DEF CallInv, Recorded
  <2>2. ASSUME ~interim'[r]
        PROVE  rec'[r] = IF sent'[r] = <<>> THEN 0 ELSE Last(sent'[r])
    <3>1. rec'[r] = s
      BY <1>1, <1>3, <1>4, <2>2
    <3>2. Last(sent'[r]) = s /\ sent'[r] # <<>>
      <4>1. Len(<<s>>) = 1 /\ Len(<<>>) = 0
        OBVIOUS
      <4> QED
        BY <1>2, <4>1, LastOfOne
    <3> QED
      BY <3>1, <3>2
  <2> QED
    BY <2>1, <2>2 DEF Recorded
<1> QED
  BY <1>2, <1>4, <1>6, <1>7

(* Everything of CallInv(r) but the two parts WritesFirst is about. *)
AllElse(r) == PathKept(r) /\ Routed(r) /\ Named(r) /\ EndKept(r) /\ Logged(r)

(* A step of a request keeps what is true of its line and what it is made *)
(* of.                                                                     *)
LEMMA CallInvStep ==
  ASSUME RouterAssumption, TypeOK, LogTypeOK, NEW r \in Requests, RequestInv(r), CallInv(r),
         AnyStep(r)
  PROVE  CallInv(r)'
<1> USE DEF TypeOK, Kinds, request, reading, forward, logging, history
<1>0. /\ pc[r] \in Unanswered => answers[r] = 0 /\ sent[r] = <<>>
      /\ pc[r] # "done" => line[r] = NoLine
  BY DEF RequestInv, AnswersCount, CallInv, SentForAnswer, Logged
<1>1. ASSUME NEW s \in Statuses, Writes(r, s), Answer(r), pc[r] \in Unanswered, AllElse(r)'
      PROVE  CallInv(r)'
  <2> HIDE DEF TypeOK
  <2> QED
    BY <1>0, <1>1, WritesFirst DEF CallInv, AllElse
<1>2. ASSUME NEW s \in Statuses, Writes(r, s), Answer(r), pc[r] \in Unanswered
      PROVE  /\ sent'[r] = <<s>> /\ url'[r] = url[r] /\ asked'[r] = asked[r]
             /\ info'[r] = info[r] /\ aborted'[r] = aborted[r] /\ line'[r] = line[r]
             /\ interim'[r] = interim[r] /\ tried'[r] = tried[r] /\ whole'[r] = whole[r]
  <2> HIDE DEF TypeOK
  <2> QED
    BY <1>0, <1>2, WritesFirst DEF CallInv, AllElse
<1> USE DEF Goto, Unanswered, Unsent, Forwarding
<1>3. CASE Deny(r) /\ Denies(asked[r]) /\ Writes(r, 403)
  <2>1. Answer(r) /\ pc[r] \in Unanswered /\ 403 \in Statuses
    BY <1>3 DEF Deny, Statuses
  <2>2. AllElse(r)'
    BY <1>0, <1>2, <1>3, <2>1
       DEF Deny, CallInv, AllElse, PathKept, Routed, Named, EndKept, Logged, Upstream
  <2> QED
    BY <1>1, <1>3, <2>1, <2>2
<1>4. CASE Refuses(r)
  <2>1. CASE Throttle(r) /\ Writes(r, 429)
    <3>1. Answer(r) /\ pc[r] \in Unanswered /\ 429 \in Statuses
      BY <2>1 DEF Throttle, Statuses
    <3>2. AllElse(r)'
      BY <1>0, <1>2, <2>1, <3>1
         DEF Throttle, CallInv, AllElse, PathKept, Routed, Named, EndKept, Logged, Upstream
    <3> QED
      BY <1>1, <2>1, <3>1, <3>2
  <2>2. CASE OverCapacity(r) /\ Writes(r, 503)
    <3>1. Answer(r) /\ pc[r] \in Unanswered /\ 503 \in Statuses
      BY <2>2 DEF OverCapacity, Statuses
    <3>2. AllElse(r)'
      BY <1>0, <1>2, <2>2, <3>1
         DEF OverCapacity, CallInv, AllElse, PathKept, Routed, Named, EndKept, Logged, Upstream
    <3> QED
      BY <1>1, <2>2, <3>1, <3>2
  <2>3. CASE (NoView(r) \/ FallbackNone(r)) /\ Writes(r, 503)
    <3>1. Answer(r) /\ pc[r] \in Unanswered /\ 503 \in Statuses
      BY <2>3 DEF NoView, FallbackNone, Statuses
    <3>2. AllElse(r)'
      BY <1>0, <1>2, <2>3, <3>1
         DEF NoView, FallbackNone, CallInv, AllElse, PathKept, Routed, Named, EndKept, Logged,
             Upstream
    <3> QED
      BY <1>1, <2>3, <3>1, <3>2
  <2>4. CASE AnswerUnreachable(r) /\ Writes(r, 502)
    <3>1. Answer(r) /\ pc[r] \in Unanswered /\ 502 \in Statuses
      BY <2>4 DEF AnswerUnreachable, Statuses
    <3>2. AllElse(r)'
      BY <1>0, <1>2, <2>4, <3>1
         DEF AnswerUnreachable, CallInv, AllElse, PathKept, Routed, Named, EndKept, Logged, Upstream
    <3> QED
      BY <1>1, <2>4, <3>1, <3>2
  <2> QED
    BY <1>4, <2>1, <2>2, <2>3, <2>4 DEF Refuses
<1>5. CASE RefusesBody(r) \/ TimesOut(r)
  <2>1. PICK s \in {400, 408} : BodyRefused(r) /\ Writes(r, s)
    BY <1>5 DEF RefusesBody, TimesOut, BodyTimeout
  <2>2. Answer(r) /\ pc[r] \in Unanswered /\ s \in Statuses /\ s # Upstream
    BY <2>1 DEF BodyRefused, Statuses, Upstream
  <2>3. AllElse(r)'
    BY <1>0, <1>2, <2>1, <2>2
       DEF BodyRefused, CallInv, AllElse, PathKept, Routed, Named, EndKept, Logged
  <2> QED
    BY <1>1, <2>1, <2>2, <2>3
<1>6. CASE LosesNode(r)
  <2>1. Answer(r) /\ pc[r] \in Unanswered /\ 502 \in Statuses /\ Writes(r, 502)
    BY <1>6 DEF LosesNode, ConnectionLost, Statuses
  <2>2. AllElse(r)'
    BY <1>0, <1>2, <1>6, <2>1
       DEF LosesNode, ConnectionLost, AfterLoss, CallInv, AllElse, PathKept, Routed, Named, EndKept,
           Logged, Upstream
  <2> QED
    BY <1>1, <2>1, <2>2
<1>7. CASE Answers(r)
  <2>1. Answer(r) /\ pc[r] \in Unanswered /\ Upstream \in Statuses /\ Writes(r, Upstream)
    BY <1>7 DEF Answers, ResponseStarts, Statuses, Upstream
  <2>2. AllElse(r)'
    BY <1>0, <1>2, <1>7, <2>1
       DEF Answers, ResponseStarts, CallInv, AllElse, PathKept, Routed, Named, EndKept, Logged
  <2> QED
    BY <1>1, <2>1, <2>2
<1> USE DEF CallInv, PathKept, Routed, SentForAnswer, Recorded, Named, EndKept, Logged, Status
<1>8. CASE RouteByModel(r) /\ ByModel(asked[r]) /\ UNCHANGED <<asked, logging, history>>
  BY <1>0, <1>8 DEF RouteByModel, ByModel
<1>9. CASE /\ RouteToView(r) /\ ToView(asked[r]) /\ rewritePath(r)
           /\ UNCHANGED <<asked, rec, info, aborted, line, history>>
  BY <1>0, <1>9 DEF RouteToView, ToView, rewritePath
<1>10. CASE Chooses(r) \/ ChoosesAgain(r)
  <2>1. Names(r)
    BY <1>10 DEF Chooses, ChoosesAgain, NamesAgain
  <2>2. CASE Pick(r)
    BY <1>0, <2>1, <2>2 DEF Pick, Names, setNode, LogTypeOK
  <2>3. CASE FallbackView(r)
    BY <1>0, <2>1, <2>3 DEF FallbackView, Names, setNode, LogTypeOK
  <2>4. CASE PickAgain(r)
    BY <1>0, <2>1, <2>4 DEF PickAgain, Names, setNode, LogTypeOK
  <2> QED
    BY <1>10, <2>2, <2>3, <2>4 DEF Chooses, ChoosesAgain
<1>11. CASE Reads(r)
  <2>1. BodyRead(r) /\ IF kind[r] = "view" THEN Names(r) ELSE UNCHANGED <<asked, logging, history>>
    BY <1>11 DEF Reads
  <2>2. CASE kind[r] = "view"
    BY <1>0, <2>1, <2>2 DEF BodyRead, ClearDeadline, Names, setNode, LogTypeOK
  <2>3. CASE kind[r] # "view"
    BY <1>0, <2>1, <2>3 DEF BodyRead, ClearDeadline
  <2> QED
    BY <2>2, <2>3
<1>12. CASE Forwarded(r)
  <2>1. CASE Release(r)
    BY <1>0, <1>12, <2>1 DEF Forwarded, Release, GiveBack, RouterAssumption, LogTypeOK
  <2>2. CASE ReleaseUnreached(r)
    BY <1>0, <1>12, <2>2 DEF Forwarded, ReleaseUnreached, GiveBack, MayRetry, LogTypeOK
  <2> QED
    BY <1>12, <2>1, <2>2 DEF Forwarded
<1>13. CASE Panics(r)
  BY <1>0, <1>13 DEF Panics, ReleaseInPanic, GiveBack, RouterAssumption, LogTypeOK
<1>14. CASE Silent(r)
  <2>1. UNCHANGED <<asked, logging, history>>
    BY <1>14 DEF Silent
  <2>2. CASE Allow(r)
    BY <1>0, <2>1, <2>2 DEF Allow
  <2>3. CASE Acquire(r)
    BY <1>0, <2>1, <2>3 DEF Acquire
  <2>4. CASE ViewFound(r)
    BY <1>0, <2>1, <2>4 DEF ViewFound
  <2>5. CASE StartRead(r)
    BY <1>0, <2>1, <2>5 DEF StartRead, SetDeadline
  <2>6. CASE PickNone(r)
    BY <1>0, <2>1, <2>6 DEF PickNone
  <2>7. CASE PickAgainNone(r)
    BY <1>0, <2>1, <2>7 DEF PickAgainNone
  <2>8. CASE ReturnToken(r)
    BY <1>0, <2>1, <2>8 DEF ReturnToken
  <2> QED
    BY <1>14, <2>2, <2>3, <2>4, <2>5, <2>6, <2>7, <2>8 DEF Silent
<1>15. CASE Log(r)
  <2>1. UNCHANGED <<vars, asked, url, rec, info, aborted, sent, interim, tried, whole>>
    BY <1>15 DEF Log, history
  <2>2. /\ pc[r] = "done"
        /\ line'[r] = [path |-> url[r], status |-> Status(r), node |-> info[r],
                       aborted |-> aborted[r]]
    BY <1>15 DEF Log, LogTypeOK
  <2> HIDE DEF TypeOK, Goto, Unanswered, Unsent, Forwarding
  <2> QED
    BY <2>1, <2>2 DEF vars
<1>16. CASE Informational(r)
  BY <1>0, <1>16 DEF Informational, Record, vars, LogTypeOK
<1>17. CASE Ends(r)
  BY <1>0, <1>17 DEF Ends, ResponseEnds, LogTypeOK
<1>18. CASE Passes(r)
  <2>1. UNCHANGED <<asked, logging, history>>
    BY <1>18 DEF Passes
  <2>2. CASE Connect(r)
    BY <1>0, <2>1, <2>2 DEF Connect
  <2>3. CASE DialFails(r)
    BY <1>0, <2>1, <2>3 DEF DialFails
  <2>4. CASE NodeReceives(r)
    BY <1>0, <2>1, <2>4 DEF NodeReceives
  <2>5. CASE Resend(r)
    BY <1>0, <2>1, <2>5 DEF Resend
  <2>6. CASE StreamBreaks(r)
    BY <1>0, <2>1, <2>6 DEF StreamBreaks
  <2> QED
    BY <1>18, <2>2, <2>3, <2>4, <2>5, <2>6 DEF Passes
<1>19. CASE Cancels(r)
  <2>1. /\ UNCHANGED <<asked, logging, history>>
        /\ UNCHANGED <<request, tokens, reading, forward, answers>>
    BY <1>19 DEF Cancels, Cancelled
  <2>2. CASE \E from \in {"dial", "sent", "await"} : Goto(r, from, "ended")
    <3>1. PICK from \in {"dial", "sent", "await"} : Goto(r, from, "ended")
      BY <2>2
    <3>2. pc'[r] = "ended" /\ pc[r] \in {"dial", "sent", "await"}
      BY <3>1
    <3>3. sent[r] = <<>>
      BY <1>0, <3>2
    <3>4. sent[r] # <<Upstream>>
      <4>1. Len(<<>>) = 0 /\ Len(<<Upstream>>) = 1
        OBVIOUS
      <4> QED
        BY <3>3, <4>1
    <3> QED
      BY <1>0, <2>1, <3>2, <3>3, <3>4
  <2>3. CASE Goto(r, "stream", "panicking")
    BY <1>0, <2>1, <2>3
  <2> QED
    BY <1>19, <2>2, <2>3 DEF Cancels, Cancelled
<1>20. CASE Leaves(r)
  BY <1>0, <1>20 DEF Leaves, ClientLeaves
<1> QED
  BY <1>3, <1>4, <1>5, <1>6, <1>7, <1>8, <1>9, <1>10, <1>11, <1>12, <1>13, <1>14, <1>15, <1>16,
     <1>17, <1>18, <1>19, <1>20 DEF AnyStep, Goes, Decides

-----------------------------------------------------------------------------
(* Every step keeps the inductive invariant. *)
LEMMA LogInvStep ==
  ASSUME RouterAssumption, LogInv, [LogNext]_logVars
  PROVE  LogInv'
<1>1. IInv'
  <2>1. [Next]_vars
    BY StepOfRouter DEF LogNext, AnyStep, Next, logVars
  <2> QED
    BY <2>1, IInvStep DEF LogInv
<1>2. ASSUME NEW r \in Requests, AnyStep(r)
      PROVE  LogInv'
  <2>1. LogTypeOK'
    BY <1>1, <1>2, LogTypeOKStep DEF LogInv, IInv
  <2>2. ASSUME NEW q \in Requests
        PROVE  CallInv(q)'
    <3>1. CASE q = r
      BY <1>2, <3>1, CallInvStep DEF LogInv, IInv
    <3>2. CASE q # r
      <4>1. LogSame(q)
        BY <1>2, <3>2, LogOthersAlone DEF LogInv
      <4>2. /\ pc'[q] = pc[q] /\ kind'[q] = kind[q] /\ node'[q] = node[q]
            /\ answers'[q] = answers[q]
        <5>1. CASE Step(r) \/ ClientLeaves(r)
          BY <3>2, <5>1, OthersAlone DEF LogInv, IInv
        <5>2. CASE UNCHANGED vars
          BY <5>2 DEF vars
        <5> QED
          BY <1>2, <5>1, <5>2, StepOfRouter
      <4>3. CallInv(q)
        BY DEF LogInv
      <4> QED
        BY <4>1, <4>2, <4>3
           DEF LogSame, CallInv, PathKept, Routed, SentForAnswer, Recorded, Named, EndKept,
               Logged, Status
    <3> QED
      BY <3>1, <3>2
  <2> QED
    BY <1>1, <2>1, <2>2 DEF LogInv
<1>3. CASE UNCHANGED logVars
  <2>1. LogTypeOK'
    BY <1>3 DEF LogInv, LogTypeOK, logVars, logging, history
  <2>2. ASSUME NEW r \in Requests
        PROVE  CallInv(r)'
    <3>1. CallInv(r)
      BY DEF LogInv
    <3> QED
      BY <1>3, <3>1
         DEF logVars, vars, logging, history, CallInv, PathKept, Routed, SentForAnswer, Recorded,
             Named, EndKept, Logged, Status
  <2> QED
    BY <1>1, <2>1, <2>2 DEF LogInv
<1> QED
  BY <1>2, <1>3 DEF LogNext, AnyStep

(* The inductive invariant holds of the initial states. *)
LEMMA LogInvInit ==
  ASSUME RouterAssumption, AccessLogAssumption, LogInit
  PROVE  LogInv
<1>1. IInv
  BY IInvInit DEF LogInit
<1>2. ASSUME NEW r \in Requests
      PROVE  asked[r] \in Asks[r] /\ asked[r].path \in Seq(STRING)
  BY DEF LogInit, AccessLogAssumption
<1>3. LogTypeOK
  <2>1. /\ asked \in [Requests -> UNION {Asks[r] : r \in Requests}]
        /\ sent = [r \in Requests |-> <<>>]
        /\ line = [r \in Requests |-> NoLine]
    BY DEF LogInit
  <2>2. url \in [Requests -> Seq(STRING)]
    BY <1>2 DEF LogInit
  <2>3. sent \in [Requests -> Seq(Nat)]
    BY <2>1, EmptySeq
  <2>4. line \in [Requests -> Lines]
    BY <2>1, EmptySeq DEF NoLine, Lines
  <2> QED
    BY <2>1, <2>2, <2>3, <2>4 DEF LogInit, LogTypeOK
<1>4. ASSUME NEW r \in Requests
      PROVE  CallInv(r)
  BY DEF LogInit, Init, CallInv, PathKept, Routed, SentForAnswer, Recorded, Named, EndKept,
         Logged, Unsent, Unanswered, Forwarding
<1> QED
  BY <1>1, <1>3, <1>4 DEF LogInv

(* The inductive invariant holds in every reachable state. *)
THEOREM LogInvariance == LogSpec => []LogInv
<1>1. LogInit => LogInv
  BY LogInvInit, RouterAssumption, AccessLogAssumption
<1>2. LogInv /\ [LogNext]_logVars => LogInv'
  BY LogInvStep, RouterAssumption
<1> QED
  BY <1>1, <1>2, PTL DEF LogSpec

-----------------------------------------------------------------------------
(* What LineTellsTruth reads off the statuses sent. *)
LEMMA LastOfSent == \A s : Last(<<0>> \o <<s>>) = s /\ Last(<<0>> \o <<>>) = 0
BY DEF Last

(* Whatever the interleaving of any number of requests, and on every way   *)
(* out of a handler, the line logged says what happened: the path asked    *)
(* for and not the rewritten one, the status sent, the node last tried,    *)
(* and aborted for exactly the responses cut short (accesslog.go:70-121).  *)
THEOREM LinesTrue == LogSpec => []LineTellsTruth
<1>1. LogInv => LineTellsTruth
  <2> SUFFICES ASSUME LogInv, NEW r \in Requests, line[r] # NoLine
               PROVE  /\ line[r].path = asked[r].path
                      /\ ~interim[r] =>
                           line[r].status = IF sent[r] = <<>> THEN 200 ELSE Last(sent[r])
                      /\ line[r].node = tried[r]
                      /\ line[r].aborted <=>
                           ~whole[r] /\ Last(<<0>> \o sent[r]) = Upstream /\ tried[r] # NoNode
    BY DEF LineTellsTruth
  <2>1. CallInv(r)
    BY DEF LogInv
  <2>2. /\ pc[r] = "done"
        /\ line[r].path = url[r] /\ line[r].status = Status(r) /\ line[r].node = info[r]
        /\ line[r].aborted = aborted[r]
    BY <2>1 DEF CallInv, Logged
  <2>3. line[r].path = asked[r].path
    BY <2>1, <2>2 DEF CallInv, PathKept
  <2>4. sent[r] = <<>> \/ \E s \in Statuses : sent[r] = <<s>>
    BY <2>1 DEF CallInv, SentForAnswer
  <2>5. ~interim[r] => line[r].status = IF sent[r] = <<>> THEN 200 ELSE Last(sent[r])
    <3>1. ASSUME NEW s \in Statuses, sent[r] = <<s>>
          PROVE  sent[r] # <<>> /\ Last(sent[r]) # 0
      BY <3>1, LastOfOne DEF Statuses
    <3> QED
      BY <2>1, <2>2, <2>4, <3>1 DEF CallInv, Recorded, Status
  <2>6. line[r].node = tried[r]
    BY <2>1, <2>2 DEF CallInv, Named
  <2>7. Last(<<0>> \o sent[r]) = Upstream <=> sent[r] = <<Upstream>>
    <3>1. CASE sent[r] = <<>>
      BY <3>1, LastOfSent DEF Upstream
    <3>2. ASSUME NEW s \in Statuses, sent[r] = <<s>>
          PROVE  Last(<<0>> \o sent[r]) = Upstream <=> sent[r] = <<Upstream>>
      <4>1. Last(<<0>> \o sent[r]) = s
        BY <3>2, LastOfSent
      <4> QED
        BY <3>2, <4>1
    <3> QED
      BY <2>4, <3>1, <3>2
  <2>8. line[r].aborted <=>
          ~whole[r] /\ Last(<<0>> \o sent[r]) = Upstream /\ tried[r] # NoNode
    BY <2>1, <2>2, <2>7 DEF CallInv, EndKept
  <2> QED
    BY <2>3, <2>5, <2>6, <2>8
<1> QED
  BY <1>1, LogInvariance, PTL

(* What accesslog.go:92-95 says of a line's status is so of every request  *)
(* whose node sends no informational response: StatusIsFinal fails for     *)
(* those alone whose node does.                                            *)
THEOREM FinalStatus ==
  LogSpec => [](\A r \in Requests \ Informs :
                  line[r] # NoLine /\ sent[r] # <<>> => line[r].status = Last(sent[r]))
<1>1. LogInv /\ LineTellsTruth =>
        \A r \in Requests \ Informs :
          line[r] # NoLine /\ sent[r] # <<>> => line[r].status = Last(sent[r])
  BY DEF LogInv, CallInv, Recorded, LineTellsTruth
<1> QED
  BY <1>1, LogInvariance, LinesTrue, PTL

(* Every request that is turned away as forbidden means chassis power or a *)
(* write to the alias table, and every request that means one is turned    *)
(* away, however its path is spelled (router.go:169-188, 214-263).         *)
THEOREM DeniesExactly == LogSpec => []DeniedExactly
<1>1. LogInv => DeniedExactly
  <2> SUFFICES ASSUME LogInv, NEW r \in Requests, kind[r] # "unrouted"
               PROVE  kind[r] = "denied" <=> asked[r] \in ForbiddenCalls
    BY DEF DeniedExactly
  <2>1. kind[r] = "denied" <=> Denies(asked[r])
    BY DEF LogInv, CallInv, Routed
  <2>2. asked[r].path \in Seq(STRING) /\ asked[r] \in UNION {Asks[q] : q \in Requests}
    BY DEF LogInv, LogTypeOK, CallInv, PathKept
  <2>3. Denies(asked[r]) <=> Forbidden(asked[r])
    BY <2>2, DeniesForbidden
  <2> QED
    BY <2>1, <2>2, <2>3 DEF ForbiddenCalls
<1> QED
  BY <1>1, LogInvariance, PTL
=============================================================================
