--------------------------- MODULE ViewNodeProofs ---------------------------
(***************************************************************************)
(* Proofs about ViewNode, for any mesh, any allowlists and any number of   *)
(* concurrent calls.                                                       *)
(***************************************************************************)
EXTENDS ViewNode, MeshProofs

(* Clock readings are of the past. *)
ReadingsPast == \A c \in Viewers : call[c].now <= clock

(* What has been eligible all along is eligible now, and was a member when *)
(* the call read the members.                                              *)
SteadyEligible ==
  \A c \in Viewers :
    /\ steady[c] \subseteq Reachable(alive, clock)
    /\ pc[c] = "lock" => steady[c] \subseteq call[c].members

(* With an allowlist, the stored choice and every answer are on it.        *)
AnswersListed ==
  viewNodes # <<>> =>
    /\ view \in Listed \cup {NoView}
    /\ \A c \in Viewers : call[c].answer \in Listed \cup {NoView}

IInv ==
  /\ TypeOK
  /\ ReadingsPast
  /\ SteadyEligible
  /\ AnswersListed
  /\ PreferenceHolds

-----------------------------------------------------------------------------
(* What View may choose, whatever the allowlist. *)
LEMMA ChoiceTyped ==
  ASSUME NEW S, NEW n, Chooses(n, S)
  PROVE  n \in S \cup {NoView} \/ (viewNodes = <<>> /\ n = view)
BY DEF Chooses, IsFirstListed, IsLowest

(* With an allowlist it chooses from it. *)
LEMMA ChoiceListed ==
  ASSUME NEW S, NEW n, Chooses(n, S), viewNodes # <<>>
  PROVE  n \in Listed \cup {NoView}
BY DEF Chooses, IsFirstListed, Listed

(* And the first of it: nothing named before the choice is eligible. *)
LEMMA ChoiceFirst ==
  ASSUME MeshAssumption, ViewAssumption, viewNodes \in Allowlists,
         NEW S, NEW n, Chooses(n, S), NEW i \in DOMAIN viewNodes, n = viewNodes[i]
  PROVE  \E j \in 1 .. i : /\ viewNodes[j] = n
                          /\ \A k \in 1 .. j - 1 : viewNodes[k] \notin S
<1>1. viewNodes \in Seq(Names)
  BY DEF ViewAssumption
<1>2. viewNodes # <<>> /\ n \in Names /\ i \in Nat /\ DOMAIN viewNodes = 1 .. Len(viewNodes)
  BY <1>1
<1>3. n # NoView
  BY <1>2 DEF NoView, MeshAssumption
<1>4. PICK f \in DOMAIN viewNodes :
        n = viewNodes[f] /\ n \in S /\ \A k \in 1 .. f - 1 : viewNodes[k] \notin S
  BY <1>2, <1>3 DEF Chooses, IsFirstListed
<1>5. f <= i
  <2> SUFFICES ASSUME ~(f <= i) PROVE FALSE
    OBVIOUS
  <2>1. i \in 1 .. f - 1
    BY <1>2
  <2> QED
    BY <2>1, <1>4
<1> QED
  BY <1>2, <1>4, <1>5

(* One field of a call's locals at a time. *)
LEMMA CallFields ==
  ASSUME NEW r \in Call, NEW x
  PROVE  /\ [r EXCEPT !.now = x] = [now |-> x, members |-> r.members, answer |-> r.answer]
         /\ [r EXCEPT !.members = x] = [now |-> r.now, members |-> x, answer |-> r.answer]
         /\ [r EXCEPT !.answer = x] = [now |-> r.now, members |-> r.members, answer |-> x]
BY DEF Call

-----------------------------------------------------------------------------
LEMMA IInvInit ==
  ASSUME MeshAssumption, ViewAssumption, Init
  PROVE  IInv
<1>1. TypeOK
  BY DEF Init, MeshInit, TypeOK, MeshTypeOK, Call, NoCall, Views, NoView
<1>2. ReadingsPast /\ SteadyEligible
  BY DEF Init, MeshInit, ReadingsPast, SteadyEligible, NoCall
<1>3. AnswersListed /\ PreferenceHolds
  BY DEF Init, AnswersListed, PreferenceHolds, NoCall, NoView
<1> QED
  BY <1>1, <1>2, <1>3 DEF IInv

(* At the lock, what has been eligible all along is eligible to the call.  *)
LEMMA SteadyIsEligible ==
  ASSUME MeshAssumption, IInv, NEW c \in Viewers, pc[c] = "lock"
  PROVE  steady[c] \subseteq Eligible(c)
<1>1. /\ MeshTypeOK
      /\ call[c].now \in Nat /\ call[c].now <= clock
      /\ steady[c] \subseteq Reachable(alive, clock) /\ steady[c] \subseteq call[c].members
  BY DEF IInv, TypeOK, Call, ReadingsPast, SteadyEligible
<1> QED
  BY <1>1, FreshBefore DEF Eligible

(* The critical section, with its choice named. *)
LEMMA ViewStep ==
  ASSUME MeshAssumption, ViewAssumption, IInv, NEW c \in Viewers, View(c)
  PROVE  IInv'
<1> USE DEF IInv
<1>1. PICK n \in Names \cup {NoView} :
        /\ Chooses(n, Eligible(c))
        /\ view' = n
        /\ call' = [call EXCEPT ![c].answer = n]
  BY DEF View
<1>2. /\ pc[c] = "lock" /\ pc' = [pc EXCEPT ![c] = "answered"]
      /\ UNCHANGED <<meshVars, viewNodes, steady>>
      /\ unbroken' \in BOOLEAN
  BY DEF View, Goto
<1>3. n \in Views
  BY <1>1, ChoiceTyped DEF Eligible, Reachable, Routable, Views, TypeOK
<1>4. MeshTypeOK'
  BY <1>2 DEF TypeOK, MeshTypeOK, meshVars
<1>5. call' \in [Viewers -> Call]
  <2>1. call[c] \in Call
    BY DEF TypeOK
  <2>2. [now |-> call[c].now, members |-> call[c].members, answer |-> n] \in Call
    BY <2>1, <1>3 DEF Call
  <2>3. [call[c] EXCEPT !.answer = n] \in Call
    BY <2>1, <2>2, CallFields
  <2> QED
    BY <1>1, <2>3 DEF TypeOK
<1>6. TypeOK'
  BY <1>1, <1>2, <1>3, <1>4, <1>5 DEF TypeOK
<1>7. \A d \in Viewers : /\ call'[d].now = call[d].now
                         /\ call'[d].members = call[d].members
                         /\ call'[d].answer = IF d = c THEN n ELSE call[d].answer
  BY <1>1 DEF TypeOK, Call
<1>8. ReadingsPast'
  BY <1>2, <1>7 DEF ReadingsPast, meshVars
<1>9. SteadyEligible'
  BY <1>2, <1>7 DEF SteadyEligible, meshVars, TypeOK, Reachable
<1>10. AnswersListed'
  <2>1. viewNodes # <<>> => n \in Listed \cup {NoView}
    BY <1>1, ChoiceListed
  <2> QED
    BY <2>1, <1>1, <1>2, <1>7 DEF AnswersListed, Listed
<1>11. steady[c] \subseteq Eligible(c)
  BY <1>2, SteadyIsEligible
<1>12. PreferenceHolds'
  <2> SUFFICES ASSUME NEW d \in Viewers, NEW i \in DOMAIN viewNodes,
                      pc'[d] = "answered", call'[d].answer = viewNodes[i]
               PROVE  \E j \in 1 .. i : /\ viewNodes[j] = viewNodes[i]
                                       /\ \A k \in 1 .. j - 1 : viewNodes[k] \notin steady[d]
    BY <1>2 DEF PreferenceHolds
  <2>1. CASE d = c
    <3>1. n = viewNodes[i]
      BY <2>1, <1>7
    <3>2. PICK j \in 1 .. i : /\ viewNodes[j] = n
                             /\ \A k \in 1 .. j - 1 : viewNodes[k] \notin Eligible(c)
      BY <3>1, <1>1, ChoiceFirst DEF TypeOK
    <3> QED
      BY <3>1, <3>2, <2>1, <1>11
  <2>2. CASE d # c
    <3>1. pc[d] = "answered" /\ steady'[d] = steady[d]
      BY <2>2, <1>2 DEF TypeOK
    <3>2. call[d].answer = viewNodes[i]
      BY <2>2, <1>7
    <3> QED
      BY <3>1, <3>2 DEF PreferenceHolds
  <2> QED
    BY <2>1, <2>2
<1> QED
  BY <1>6, <1>8, <1>9, <1>10, <1>12

LEMMA ReadClockStep ==
  ASSUME MeshAssumption, IInv, NEW c \in Viewers, ReadClock(c)
  PROVE  IInv'
<1> USE DEF IInv
<1>1. /\ pc[c] = "idle" /\ pc' = [pc EXCEPT ![c] = "members"]
      /\ call' = [call EXCEPT ![c].now = clock]
      /\ steady' = [steady EXCEPT ![c] = Reachable(alive, clock)]
      /\ UNCHANGED <<meshVars, viewNodes, view, unbroken>>
  BY DEF ReadClock, Goto
<1>2. Reachable(alive, clock) \subseteq Names
  BY DEF Reachable, TypeOK, MeshTypeOK
<1>3. MeshTypeOK'
  BY <1>1 DEF TypeOK, MeshTypeOK, meshVars
<1>4. call' \in [Viewers -> Call]
  <2>1. call[c] \in Call /\ clock \in Nat
    BY DEF TypeOK, MeshTypeOK
  <2>2. [now |-> clock, members |-> call[c].members, answer |-> call[c].answer] \in Call
    BY <2>1 DEF Call
  <2>3. [call[c] EXCEPT !.now = clock] \in Call
    BY <2>1, <2>2, CallFields
  <2> QED
    BY <1>1, <2>3 DEF TypeOK
<1>5. steady' \in [Viewers -> SUBSET Names]
  BY <1>1, <1>2 DEF TypeOK
<1>6. TypeOK'
  BY <1>1, <1>3, <1>4, <1>5 DEF TypeOK
<1>7. \A d \in Viewers : /\ call'[d].now = IF d = c THEN clock ELSE call[d].now
                         /\ call'[d].members = call[d].members
                         /\ call'[d].answer = call[d].answer
  BY <1>1 DEF TypeOK, Call
<1>8. ReadingsPast'
  BY <1>1, <1>7 DEF ReadingsPast, meshVars, TypeOK, MeshTypeOK
<1>9. SteadyEligible'
  BY <1>1, <1>7 DEF SteadyEligible, meshVars, TypeOK, Reachable
<1>10. AnswersListed'
  BY <1>1, <1>7 DEF AnswersListed, Listed
<1>11. PreferenceHolds'
  BY <1>1, <1>7 DEF PreferenceHolds, TypeOK
<1> QED
  BY <1>6, <1>8, <1>9, <1>10, <1>11

LEMMA ReadMembersStep ==
  ASSUME MeshAssumption, IInv, NEW c \in Viewers, ReadMembers(c)
  PROVE  IInv'
<1> USE DEF IInv
<1>1. /\ pc[c] = "members" /\ pc' = [pc EXCEPT ![c] = "lock"]
      /\ call' = [call EXCEPT ![c].members = alive]
      /\ UNCHANGED <<meshVars, viewNodes, view, steady, unbroken>>
  BY DEF ReadMembers, Goto
<1>2. MeshTypeOK'
  BY <1>1 DEF TypeOK, MeshTypeOK, meshVars
<1>3. call' \in [Viewers -> Call]
  <2>1. call[c] \in Call /\ alive \subseteq Names
    BY DEF TypeOK, MeshTypeOK
  <2>2. [now |-> call[c].now, members |-> alive, answer |-> call[c].answer] \in Call
    BY <2>1 DEF Call
  <2>3. [call[c] EXCEPT !.members = alive] \in Call
    BY <2>1, <2>2, CallFields
  <2> QED
    BY <1>1, <2>3 DEF TypeOK
<1>4. TypeOK'
  BY <1>1, <1>2, <1>3 DEF TypeOK
<1>5. \A d \in Viewers : /\ call'[d].now = call[d].now
                         /\ call'[d].members = IF d = c THEN alive ELSE call[d].members
                         /\ call'[d].answer = call[d].answer
  BY <1>1 DEF TypeOK, Call
<1>6. ReadingsPast'
  BY <1>1, <1>5 DEF ReadingsPast, meshVars
<1>7. SteadyEligible'
  BY <1>1, <1>5 DEF SteadyEligible, meshVars, TypeOK, Reachable, Routable
<1>8. AnswersListed'
  BY <1>1, <1>5 DEF AnswersListed, Listed
<1>9. PreferenceHolds'
  BY <1>1, <1>5 DEF PreferenceHolds, TypeOK
<1> QED
  BY <1>4, <1>6, <1>7, <1>8, <1>9

LEMMA ReturnStep ==
  ASSUME MeshAssumption, IInv, NEW c \in Viewers, Return(c)
  PROVE  IInv'
<1> USE DEF IInv
<1>1. /\ pc' = [pc EXCEPT ![c] = "idle"]
      /\ call' = [call EXCEPT ![c] = NoCall]
      /\ steady' = [steady EXCEPT ![c] = {}]
      /\ UNCHANGED <<meshVars, viewNodes, view, unbroken>>
  BY DEF Return, Goto
<1>2. MeshTypeOK'
  BY <1>1 DEF TypeOK, MeshTypeOK, meshVars
<1>3. NoCall \in Call
  BY DEF NoCall, Call, Views
<1>4. TypeOK'
  BY <1>1, <1>2, <1>3 DEF TypeOK
<1>5. \A d \in Viewers : call'[d] = IF d = c THEN NoCall ELSE call[d]
  BY <1>1 DEF TypeOK
<1>6. ReadingsPast'
  BY <1>1, <1>5 DEF ReadingsPast, meshVars, NoCall, TypeOK, MeshTypeOK
<1>7. SteadyEligible'
  BY <1>1, <1>5 DEF SteadyEligible, meshVars, TypeOK, Reachable
<1>8. AnswersListed'
  BY <1>1, <1>5 DEF AnswersListed, Listed, NoCall
<1>9. PreferenceHolds'
  BY <1>1, <1>5 DEF PreferenceHolds, TypeOK
<1> QED
  BY <1>4, <1>6, <1>7, <1>8, <1>9

LEMMA MeshStepInv ==
  ASSUME MeshAssumption, IInv, MeshStep
  PROVE  IInv'
<1> USE DEF IInv
<1>1. /\ MeshNext
      /\ steady' = [c \in Viewers |-> steady[c] \cap Reachable(alive, clock)']
      /\ unbroken' \in BOOLEAN
      /\ UNCHANGED <<viewNodes, view, pc, call>>
  BY DEF MeshStep, TypeOK
<1>2. MeshTypeOK' /\ clock <= clock'
  BY <1>1, MeshTyped, ClockGrows DEF TypeOK
<1>3. TypeOK'
  BY <1>1, <1>2 DEF TypeOK
<1>4. ReadingsPast'
  BY <1>1, <1>2 DEF ReadingsPast, TypeOK, MeshTypeOK, Call
<1>5. SteadyEligible'
  BY <1>1 DEF SteadyEligible
<1>6. AnswersListed'
  BY <1>1 DEF AnswersListed, Listed
<1>7. PreferenceHolds'
  BY <1>1 DEF PreferenceHolds
<1> QED
  BY <1>3, <1>4, <1>5, <1>6, <1>7

LEMMA IInvStep ==
  ASSUME MeshAssumption, ViewAssumption, IInv, [Next]_vars
  PROVE  IInv'
<1>1. CASE MeshStep
  BY <1>1, MeshStepInv
<1>2. ASSUME NEW c \in Viewers, Step(c) PROVE IInv'
  BY <1>2, ReadClockStep, ReadMembersStep, ViewStep, ReturnStep DEF Step
<1>3. CASE UNCHANGED vars
  <2> USE <1>3 DEF vars, viewVars, meshVars, IInv
  <2>1. TypeOK'
    BY DEF TypeOK, MeshTypeOK
  <2>2. ReadingsPast' /\ SteadyEligible'
    BY DEF ReadingsPast, SteadyEligible, Reachable
  <2>3. AnswersListed' /\ PreferenceHolds'
    BY DEF AnswersListed, Listed, PreferenceHolds
  <2> QED
    BY <2>1, <2>2, <2>3
<1> QED
  BY <1>1, <1>2, <1>3 DEF Next

(* The inductive invariant holds. *)
THEOREM Invariance == Spec => []IInv
<1>1. Init => IInv
  BY IInvInit, MeshAssumption, ViewAssumption
<1>2. IInv /\ [Next]_vars => IInv'
  BY IInvStep, MeshAssumption, ViewAssumption
<1> QED
  BY <1>1, <1>2, PTL DEF Spec

-----------------------------------------------------------------------------
(* Type correctness; in particular the view is never a gateway, and never  *)
(* this one (picker.go:197-201).                                           *)
THEOREM Typing == Spec => []TypeOK
BY Invariance, PTL DEF IInv

(* Whoever joins the mesh, with an allowlist only its nodes are ever the   *)
(* view (picker.go:227-238).                                               *)
THEOREM OnlyListed == Spec => []AllowlistAuthoritative
<1>1. IInv => AllowlistAuthoritative
  BY DEF IInv, AnswersListed, AllowlistAuthoritative
<1> QED
  BY <1>1, Invariance, PTL

(* No call answers with a node while one the operator named earlier was    *)
(* eligible throughout, although it rests on a clock and a member table    *)
(* read before the lock (picker.go:209-238).                               *)
THEOREM OrderKept == Spec => []PreferenceHolds
BY Invariance, PTL DEF IInv

(* Without an allowlist the view stays on a node that was eligible for the *)
(* whole of the call (picker.go:63-65, 240-244).                           *)
THEOREM StaysPut == Spec => StickyWhileSteady
<1>1. IInv /\ [Next]_vars =>
        \A c \in Viewers :
          viewNodes = <<>> /\ pc[c] = "lock" /\ pc'[c] = "answered" /\ view \in steady[c]
            => view' = view
  <2> SUFFICES ASSUME IInv, [Next]_vars, NEW c \in Viewers,
                      viewNodes = <<>>, pc[c] = "lock", pc'[c] = "answered", view \in steady[c]
               PROVE  view' = view
    OBVIOUS
  <2>1. View(c)
    BY DEF IInv, TypeOK, Next, MeshStep, Step, ReadClock, ReadMembers, View, Return, Goto, vars,
           viewVars
  <2>2. view \in Eligible(c)
    BY MeshAssumption, SteadyIsEligible
  <2>3. PICK n : Chooses(n, Eligible(c)) /\ view' = n
    BY <2>1 DEF View
  <2> QED
    BY <2>2, <2>3 DEF Chooses
<1> QED
  BY <1>1, Invariance, PTL DEF Spec, StickyWhileSteady
=============================================================================
