---------------------------- MODULE RouterProofs ----------------------------
(***************************************************************************)
(* Proofs about Router, for any number of requests and nodes, any capacity *)
(* of the semaphore and any bound on the transport's resends.              *)
(***************************************************************************)
EXTENDS Router, FiniteSetTheorems, TLAPS

(* Where nothing has been written to the client yet. *)
Unanswered == {"arrived", "limit", "acquire", "view", "read", "reading", "pick", "fallback",
               "dial", "sent", "await", "unreached", "repick", "unavailable"}

(* Where a request cannot have reached a node, however often the transport *)
(* sends it, and where it cannot unless the transport has sent it twice.   *)
Unsent == {"arrived", "limit", "acquire", "view", "read", "reading", "pick", "fallback"}
UnsentOnce == Unsent \cup {"dial", "sent", "unreached", "repick", "unavailable"}

(* Only a handler that has read the body to its cap keeps it. *)
BodyInside(r) == body[r] => pc[r] \in Holding

DeadlineInRead(r) == deadline[r] => pc[r] = "reading"

AnswersCount(r) ==
  /\ pc[r] \in Unanswered => answers[r] = 0
  /\ pc[r] \in {"stream", "panicking"} => answers[r] = 1
  /\ pc[r] \in {"ended", "return", "done"} =>
       answers[r] \in {0, 1} /\ (gone[r] \/ answers[r] = 1)

SendsCount(r) ==
  /\ pc[r] \in Unsent => delivered[r] = 0
  /\ r \notin Replayable /\ pc[r] \in UnsentOnce => delivered[r] = 0
  /\ r \notin Replayable => delivered[r] \in {0, 1}

Reserves(r) ==
  /\ reservation[r] # NoNode => pc[r] \in Forwarding /\ reservation[r] = node[r]
  /\ excluded[r] # NoNode => pc[r] \in Forwarding \cup {"repick", "unavailable", "return"}
  /\ excluded[r] # NoNode /\ pc[r] \in Forwarding =>
       reservation[r] \notin {NoNode, excluded[r]}
  /\ pc[r] = "repick" => excluded[r] # NoNode

(* What is true of one request, whatever the others do. *)
RequestInv(r) ==
  /\ BodyInside(r)
  /\ DeadlineInRead(r)
  /\ AnswersCount(r)
  /\ SendsCount(r)
  /\ Reserves(r)

IInv ==
  /\ TypeOK
  /\ TokenConservation
  /\ \A r \in Requests : RequestInv(r)

-----------------------------------------------------------------------------
(* Every step of a request keeps the types. *)
LEMMA TypeOKStep ==
  ASSUME RouterAssumption, TypeOK, NEW r \in Requests, Step(r) \/ ClientLeaves(r),
         pc[r] = "return" => tokens > 0
  PROVE  TypeOK'
<1> USE DEF TypeOK, PCs, Holding, Kinds, request, reading, forward
<1>1. CASE Deny(r) \/ RouteByModel(r) \/ RouteToView(r) \/ Throttle(r) \/ Allow(r)
           \/ OverCapacity(r) \/ Acquire(r)
  <2>1. CASE Deny(r)
    BY <2>1 DEF Deny, Goto, Answer
  <2>2. CASE RouteByModel(r)
    BY <2>2 DEF RouteByModel, Goto
  <2>3. CASE RouteToView(r)
    BY <2>3 DEF RouteToView, Goto
  <2>4. CASE Throttle(r)
    BY <2>4 DEF Throttle, Goto, Answer
  <2>5. CASE Allow(r)
    BY <2>5 DEF Allow, Goto
  <2>6. CASE OverCapacity(r)
    BY <2>6 DEF OverCapacity, Goto, Answer, CapReached
  <2>7. CASE Acquire(r)
    BY <2>7 DEF Acquire, Goto, CapReached
  <2> QED
    BY <1>1, <2>1, <2>2, <2>3, <2>4, <2>5, <2>6, <2>7
<1>2. CASE ViewFound(r) \/ NoView(r) \/ StartRead(r) \/ BodyRead(r) \/ BodyRefused(r)
           \/ BodyTimeout(r)
  <2>1. CASE ViewFound(r)
    BY <2>1 DEF ViewFound, Goto
  <2>2. CASE NoView(r)
    BY <2>2 DEF NoView, Goto, Answer
  <2>3. CASE StartRead(r)
    BY <2>3 DEF StartRead, Goto, SetDeadline
  <2>4. CASE BodyRead(r)
    BY <2>4 DEF BodyRead, Goto, ClearDeadline
  <2>5. CASE BodyRefused(r)
    BY <2>5 DEF BodyRefused, Goto, Answer, ClearDeadline
  <2>6. CASE BodyTimeout(r)
    BY <2>6 DEF BodyTimeout, Goto, Answer, ClearDeadline, BodyRefused
  <2> QED
    BY <1>2, <2>1, <2>2, <2>3, <2>4, <2>5, <2>6
<1>3. CASE Pick(r) \/ PickNone(r) \/ FallbackView(r) \/ FallbackNone(r) \/ PickAgain(r)
           \/ PickAgainNone(r) \/ AnswerUnreachable(r)
  <2>1. CASE Pick(r)
    BY <2>1 DEF Pick, Goto
  <2>2. CASE PickNone(r)
    BY <2>2 DEF PickNone, Goto
  <2>3. CASE FallbackView(r)
    BY <2>3 DEF FallbackView, Goto
  <2>4. CASE FallbackNone(r)
    BY <2>4 DEF FallbackNone, Goto, Answer
  <2>5. CASE PickAgain(r)
    BY <2>5 DEF PickAgain, Goto
  <2>6. CASE PickAgainNone(r)
    BY <2>6 DEF PickAgainNone, Goto
  <2>7. CASE AnswerUnreachable(r)
    BY <2>7 DEF AnswerUnreachable, Goto, Answer
  <2> QED
    BY <1>3, <2>1, <2>2, <2>3, <2>4, <2>5, <2>6, <2>7
<1>4. CASE Connect(r) \/ DialFails(r) \/ NodeReceives(r) \/ ConnectionLost(r)
           \/ Resend(r)
  <2>1. CASE Connect(r)
    BY <2>1 DEF Connect, Goto
  <2>2. CASE DialFails(r)
    BY <2>2 DEF DialFails, Goto
  <2>3. CASE NodeReceives(r)
    BY <2>3 DEF NodeReceives, Goto
  <2>4. CASE ConnectionLost(r)
    BY <2>4 DEF ConnectionLost, Goto, Answer, AfterLoss
  <2>5. CASE Resend(r)
    BY <2>5 DEF Resend, Goto
  <2> QED
    BY <1>4, <2>1, <2>2, <2>3, <2>4, <2>5
<1>5. CASE ResponseStarts(r) \/ ResponseEnds(r) \/ StreamBreaks(r) \/ Cancelled(r)
           \/ ClientLeaves(r)
  <2>1. CASE ResponseStarts(r)
    BY <2>1 DEF ResponseStarts, Goto, Answer
  <2>2. CASE ResponseEnds(r)
    BY <2>2 DEF ResponseEnds, Goto
  <2>3. CASE StreamBreaks(r)
    BY <2>3 DEF StreamBreaks, Goto
  <2>4. CASE Cancelled(r)
    BY <2>4 DEF Cancelled, Goto
  <2>5. CASE ClientLeaves(r)
    BY <2>5 DEF ClientLeaves, Goto
  <2> QED
    BY <1>5, <2>1, <2>2, <2>3, <2>4, <2>5
<1>6. CASE Release(r) \/ ReleaseInPanic(r) \/ ReleaseUnreached(r) \/ ReturnToken(r)
  <2>1. CASE Release(r)
    BY <2>1 DEF Release, Goto, GiveBack
  <2>2. CASE ReleaseInPanic(r)
    BY <2>2 DEF ReleaseInPanic, Goto, GiveBack
  <2>3. CASE ReleaseUnreached(r)
    BY <2>3 DEF ReleaseUnreached, Goto, GiveBack, MayRetry
  <2>4. CASE ReturnToken(r)
    BY <2>4 DEF ReturnToken, Goto
  <2> QED
    BY <1>6, <2>1, <2>2, <2>3, <2>4
<1> QED
  BY <1>1, <1>2, <1>3, <1>4, <1>5, <1>6 DEF Step, Handler, Awaited

(* A step of one request leaves the others alone. *)
LEMMA OthersAlone ==
  ASSUME TypeOK, NEW r \in Requests, Step(r) \/ ClientLeaves(r), NEW q \in Requests, q # r
  PROVE  /\ pc'[q] = pc[q] /\ kind'[q] = kind[q] /\ gone'[q] = gone[q] /\ body'[q] = body[q]
         /\ deadline'[q] = deadline[q] /\ node'[q] = node[q] /\ excluded'[q] = excluded[q]
         /\ reservation'[q] = reservation[q] /\ delivered'[q] = delivered[q]
         /\ answers'[q] = answers[q]
<1> USE DEF TypeOK, request, reading, forward
<1>1. CASE Deny(r) \/ RouteByModel(r) \/ RouteToView(r) \/ Throttle(r) \/ Allow(r)
           \/ OverCapacity(r) \/ Acquire(r)
  BY <1>1 DEF Deny, Goto, Answer, RouteByModel, RouteToView, Throttle, Allow, OverCapacity,
              CapReached, Acquire
<1>2. CASE ViewFound(r) \/ NoView(r) \/ StartRead(r) \/ BodyRead(r) \/ BodyRefused(r)
           \/ BodyTimeout(r)
  BY <1>2 DEF ViewFound, Goto, NoView, Answer, StartRead, SetDeadline, BodyRead,
              ClearDeadline, BodyRefused, BodyTimeout
<1>3. CASE Pick(r) \/ PickNone(r) \/ FallbackView(r) \/ FallbackNone(r) \/ PickAgain(r)
           \/ PickAgainNone(r) \/ AnswerUnreachable(r)
  BY <1>3 DEF Pick, Goto, PickNone, FallbackView, FallbackNone, Answer, PickAgain,
              PickAgainNone, AnswerUnreachable
<1>4. CASE Connect(r) \/ DialFails(r) \/ NodeReceives(r) \/ ConnectionLost(r)
           \/ Resend(r)
  BY <1>4 DEF Connect, Goto, DialFails, NodeReceives, ConnectionLost, Answer, AfterLoss,
              Resend
<1>5. CASE ResponseStarts(r) \/ ResponseEnds(r) \/ StreamBreaks(r) \/ Cancelled(r)
           \/ ClientLeaves(r)
  BY <1>5 DEF ResponseStarts, Goto, Answer, ResponseEnds, StreamBreaks, Cancelled,
              ClientLeaves
<1>6. CASE Release(r) \/ ReleaseInPanic(r) \/ ReleaseUnreached(r) \/ ReturnToken(r)
  BY <1>6 DEF Release, Goto, GiveBack, ReleaseInPanic, ReleaseUnreached, MayRetry,
              ReturnToken
<1> QED
  BY <1>1, <1>2, <1>3, <1>4, <1>5, <1>6 DEF Step, Handler, Awaited

(* A step of a request keeps what is true of that request. *)
LEMMA RequestInvStep ==
  ASSUME RouterAssumption, TypeOK, NEW r \in Requests, RequestInv(r),
         Step(r) \/ ClientLeaves(r)
  PROVE  RequestInv(r)'
<1> USE DEF TypeOK, Kinds, request, reading, forward, RequestInv
<1> USE DEF BodyInside, DeadlineInRead, AnswersCount, SendsCount, Reserves
<1> USE DEF Holding, Forwarding, Unanswered, Unsent, UnsentOnce
<1>1. CASE Deny(r) \/ RouteByModel(r) \/ RouteToView(r) \/ Throttle(r) \/ Allow(r)
           \/ OverCapacity(r) \/ Acquire(r)
  <2>1. CASE Deny(r)
    BY <2>1 DEF Deny, Goto, Answer
  <2>2. CASE RouteByModel(r)
    BY <2>2 DEF RouteByModel, Goto
  <2>3. CASE RouteToView(r)
    BY <2>3 DEF RouteToView, Goto
  <2>4. CASE Throttle(r)
    BY <2>4 DEF Throttle, Goto, Answer
  <2>5. CASE Allow(r)
    BY <2>5 DEF Allow, Goto
  <2>6. CASE OverCapacity(r)
    BY <2>6 DEF OverCapacity, Goto, Answer, CapReached
  <2>7. CASE Acquire(r)
    BY <2>7 DEF Acquire, Goto, CapReached
  <2> QED
    BY <1>1, <2>1, <2>2, <2>3, <2>4, <2>5, <2>6, <2>7
<1>2. CASE ViewFound(r) \/ NoView(r) \/ StartRead(r) \/ BodyRead(r) \/ BodyRefused(r)
           \/ BodyTimeout(r)
  <2>1. CASE ViewFound(r)
    BY <2>1 DEF ViewFound, Goto
  <2>2. CASE NoView(r)
    BY <2>2 DEF NoView, Goto, Answer
  <2>3. CASE StartRead(r)
    BY <2>3 DEF StartRead, Goto, SetDeadline
  <2>4. CASE BodyRead(r)
    BY <2>4 DEF BodyRead, Goto, ClearDeadline
  <2>5. CASE BodyRefused(r)
    BY <2>5 DEF BodyRefused, Goto, Answer, ClearDeadline
  <2>6. CASE BodyTimeout(r)
    BY <2>6 DEF BodyTimeout, Goto, Answer, ClearDeadline, BodyRefused
  <2> QED
    BY <1>2, <2>1, <2>2, <2>3, <2>4, <2>5, <2>6
<1>3. CASE Pick(r) \/ PickNone(r) \/ FallbackView(r) \/ FallbackNone(r) \/ PickAgain(r)
           \/ PickAgainNone(r) \/ AnswerUnreachable(r)
  <2>1. CASE Pick(r)
    BY <2>1 DEF Pick, Goto
  <2>2. CASE PickNone(r)
    BY <2>2 DEF PickNone, Goto
  <2>3. CASE FallbackView(r)
    BY <2>3 DEF FallbackView, Goto
  <2>4. CASE FallbackNone(r)
    BY <2>4 DEF FallbackNone, Goto, Answer
  <2>5. CASE PickAgain(r)
    BY <2>5 DEF PickAgain, Goto
  <2>6. CASE PickAgainNone(r)
    BY <2>6 DEF PickAgainNone, Goto
  <2>7. CASE AnswerUnreachable(r)
    BY <2>7 DEF AnswerUnreachable, Goto, Answer
  <2> QED
    BY <1>3, <2>1, <2>2, <2>3, <2>4, <2>5, <2>6, <2>7
<1>4. CASE Connect(r) \/ DialFails(r) \/ NodeReceives(r) \/ ConnectionLost(r)
           \/ Resend(r)
  <2>1. CASE Connect(r)
    BY <2>1 DEF Connect, Goto
  <2>2. CASE DialFails(r)
    BY <2>2 DEF DialFails, Goto
  <2>3. CASE NodeReceives(r)
    BY <2>3 DEF NodeReceives, Goto
  <2>4. CASE ConnectionLost(r)
    BY <2>4 DEF ConnectionLost, Goto, Answer, AfterLoss
  <2>5. CASE Resend(r)
    BY <2>5 DEF Resend, Goto
  <2> QED
    BY <1>4, <2>1, <2>2, <2>3, <2>4, <2>5
<1>5. CASE ResponseStarts(r) \/ ResponseEnds(r) \/ StreamBreaks(r) \/ Cancelled(r)
           \/ ClientLeaves(r)
  <2>1. CASE ResponseStarts(r)
    BY <2>1 DEF ResponseStarts, Goto, Answer
  <2>2. CASE ResponseEnds(r)
    BY <2>2 DEF ResponseEnds, Goto
  <2>3. CASE StreamBreaks(r)
    BY <2>3 DEF StreamBreaks, Goto
  <2>4. CASE Cancelled(r)
    BY <2>4 DEF Cancelled, Goto
  <2>5. CASE ClientLeaves(r)
    BY <2>5 DEF ClientLeaves, Goto
  <2> QED
    BY <1>5, <2>1, <2>2, <2>3, <2>4, <2>5
<1>6. CASE Release(r) \/ ReleaseInPanic(r) \/ ReleaseUnreached(r) \/ ReturnToken(r)
  <2>1. CASE Release(r)
    BY <2>1 DEF Release, Goto, GiveBack
  <2>2. CASE ReleaseInPanic(r)
    BY <2>2 DEF ReleaseInPanic, Goto, GiveBack
  <2>3. CASE ReleaseUnreached(r)
    BY <2>3 DEF ReleaseUnreached, Goto, GiveBack, MayRetry
  <2>4. CASE ReturnToken(r)
    BY <2>4 DEF ReturnToken, Goto
  <2> QED
    BY <1>6, <2>1, <2>2, <2>3, <2>4
<1> QED
  BY <1>1, <1>2, <1>3, <1>4, <1>5, <1>6 DEF Step, Handler, Awaited

(* Acquire lets a request in, ReturnToken lets one out, and no other step  *)
(* moves a request across the cap or touches the semaphore.                *)
LEMMA AcrossTheCap ==
  ASSUME TypeOK, NEW r \in Requests, Step(r) \/ ClientLeaves(r), ~Acquire(r), ~ReturnToken(r)
  PROVE  tokens' = tokens /\ (pc'[r] \in Holding <=> pc[r] \in Holding)
<1> USE DEF TypeOK, PCs, Holding, Kinds
<1>1. CASE Deny(r) \/ RouteByModel(r) \/ RouteToView(r) \/ Throttle(r) \/ Allow(r)
           \/ OverCapacity(r)
  BY <1>1 DEF Deny, Goto, Answer, RouteByModel, RouteToView, Throttle, Allow, OverCapacity,
              CapReached
<1>2. CASE ViewFound(r) \/ NoView(r) \/ StartRead(r) \/ BodyRead(r) \/ BodyRefused(r)
           \/ BodyTimeout(r)
  BY <1>2 DEF ViewFound, Goto, NoView, Answer, StartRead, SetDeadline, BodyRead,
              ClearDeadline, BodyRefused, BodyTimeout
<1>3. CASE Pick(r) \/ PickNone(r) \/ FallbackView(r) \/ FallbackNone(r) \/ PickAgain(r)
           \/ PickAgainNone(r) \/ AnswerUnreachable(r)
  BY <1>3 DEF Pick, Goto, PickNone, FallbackView, FallbackNone, Answer, PickAgain,
              PickAgainNone, AnswerUnreachable
<1>4. CASE Connect(r) \/ DialFails(r) \/ NodeReceives(r) \/ ConnectionLost(r)
           \/ Resend(r)
  BY <1>4 DEF Connect, Goto, DialFails, NodeReceives, ConnectionLost, Answer, AfterLoss,
              Resend
<1>5. CASE ResponseStarts(r) \/ ResponseEnds(r) \/ StreamBreaks(r) \/ Cancelled(r)
           \/ ClientLeaves(r)
  BY <1>5 DEF ResponseStarts, Goto, Answer, ResponseEnds, StreamBreaks, Cancelled,
              ClientLeaves
<1>6. CASE Release(r) \/ ReleaseInPanic(r) \/ ReleaseUnreached(r)
  BY <1>6 DEF Release, Goto, GiveBack, ReleaseInPanic, ReleaseUnreached, MayRetry
<1> QED
  BY <1>1, <1>2, <1>3, <1>4, <1>5, <1>6 DEF Step, Handler, Awaited

(* The semaphore keeps counting the requests past the cap. *)
LEMMA TokensStep ==
  ASSUME RouterAssumption, TypeOK, TokenConservation,
         NEW r \in Requests, Step(r) \/ ClientLeaves(r)
  PROVE  TokenConservation'
<1> DEFINE Held == {q \in Requests : pc[q] \in Holding}
<1>1. IsFiniteSet(Held) /\ tokens = Cardinality(Held)
  BY FS_Subset DEF RouterAssumption, TokenConservation
<1>2. \A q \in Requests \ {r} : pc'[q] = pc[q]
  BY OthersAlone
<1>3. CASE Acquire(r)
  <2>1. r \notin Held /\ Held' = Held \cup {r} /\ tokens' = tokens + 1
    BY <1>2, <1>3 DEF Acquire, Goto, Holding, TypeOK
  <2>2. Cardinality(Held \cup {r}) = Cardinality(Held) + 1
    BY <1>1, <2>1, FS_AddElement
  <2> QED
    BY <1>1, <2>1, <2>2 DEF TokenConservation
<1>4. CASE ReturnToken(r)
  <2>1. r \in Held /\ Held' = Held \ {r} /\ tokens' = tokens - 1
    BY <1>2, <1>4 DEF ReturnToken, Goto, Holding, TypeOK
  <2> QED
    BY <1>1, <2>1, FS_RemoveElement DEF TokenConservation
<1>5. CASE ~Acquire(r) /\ ~ReturnToken(r)
  <2>1. tokens' = tokens /\ (pc'[r] \in Holding <=> pc[r] \in Holding)
    BY <1>5, AcrossTheCap
  <2>2. Held' = Held
    BY <1>2, <2>1
  <2> QED
    BY <1>1, <2>1, <2>2 DEF TokenConservation
<1> QED
  BY <1>3, <1>4, <1>5

(* The handler that returns a token has one. *)
LEMMA TokenToReturn ==
  ASSUME RouterAssumption, TypeOK, TokenConservation, NEW r \in Requests, pc[r] = "return"
  PROVE  tokens > 0
<1> DEFINE Held == {q \in Requests : pc[q] \in Holding}
<1>1. IsFiniteSet(Held) /\ r \in Held
  BY FS_Subset DEF RouterAssumption, Holding
<1>2. Cardinality(Held) \in Nat /\ Cardinality(Held) # 0
  BY <1>1, FS_CardinalityType, FS_EmptySet
<1> QED
  BY <1>2 DEF TokenConservation

(* Every step keeps the inductive invariant. *)
LEMMA IInvStep ==
  ASSUME RouterAssumption, IInv, [Next]_vars
  PROVE  IInv'
<1>1. ASSUME NEW r \in Requests, Step(r) \/ ClientLeaves(r) PROVE IInv'
  <2>1. TypeOK'
    BY <1>1, TypeOKStep, TokenToReturn DEF IInv
  <2>2. TokenConservation'
    BY <1>1, TokensStep DEF IInv
  <2>3. ASSUME NEW q \in Requests PROVE RequestInv(q)'
    <3>1. CASE q = r
      BY <1>1, <3>1, RequestInvStep DEF IInv
    <3>2. CASE q # r
      BY <1>1, <3>2, OthersAlone
         DEF IInv, RequestInv, BodyInside, DeadlineInRead, AnswersCount, SendsCount, Reserves
    <3> QED
      BY <3>1, <3>2
  <2> QED
    BY <2>1, <2>2, <2>3 DEF IInv
<1>2. CASE UNCHANGED vars
  BY <1>2 DEF vars, IInv, TypeOK, TokenConservation, RequestInv, BodyInside, DeadlineInRead,
              AnswersCount, SendsCount, Reserves
<1> QED
  BY <1>1, <1>2 DEF Next

(* The inductive invariant holds of the initial state. *)
LEMMA IInvInit ==
  ASSUME RouterAssumption, Init
  PROVE  IInv
<1>1. TypeOK
  BY DEF RouterAssumption, Init, TypeOK, PCs, Kinds
<1>2. TokenConservation
  <2>1. {r \in Requests : pc[r] \in Holding} = {}
    BY DEF Init, Holding
  <2> QED
    BY <2>1, FS_EmptySet DEF Init, TokenConservation
<1>3. \A r \in Requests : RequestInv(r)
  BY DEF Init, RequestInv, BodyInside, DeadlineInRead, AnswersCount, SendsCount, Reserves,
         Unanswered, Unsent, UnsentOnce, Forwarding
<1> QED
  BY <1>1, <1>2, <1>3 DEF IInv

(* The inductive invariant holds in every reachable state. *)
THEOREM Invariance == Spec => []IInv
<1>1. Init => IInv
  BY IInvInit, RouterAssumption
<1>2. IInv /\ [Next]_vars => IInv'
  BY IInvStep, RouterAssumption
<1> QED
  BY <1>1, <1>2, PTL DEF Spec

-----------------------------------------------------------------------------
(* Type correctness; in particular the semaphore is never over its         *)
(* capacity and never below zero (router.go:72-79, 133-140).               *)
THEOREM Typing == Spec => []TypeOK
<1>1. IInv => TypeOK
  BY DEF IInv
<1> QED
  BY <1>1, Invariance, PTL

(* For any number of requests and any capacity, on every way out of a      *)
(* handler - refused body, no node, 502, broken stream, client gone -      *)
(* exactly one token is returned for each one taken (router.go:129-140,    *)
(* 315-320).                                                               *)
THEOREM TokensConserved == Spec => []TokenConservation
<1>1. IInv => TokenConservation
  BY DEF IInv
<1> QED
  BY <1>1, Invariance, PTL

(* However many requests arrive, no more than MaxInFlight bodies are in    *)
(* memory, and none of a request that was turned away (router.go:290-295,  *)
(* 312-314).                                                               *)
THEOREM BoundedBuffers == Spec => []BuffersBounded
<1>1. RouterAssumption /\ IInv => BuffersBounded
  <2> SUFFICES ASSUME RouterAssumption, IInv PROVE BuffersBounded
    OBVIOUS
  <2> DEFINE Buffered == {r \in Requests : body[r]}
             Held == {r \in Requests : pc[r] \in Holding}
  <2>1. Buffered \subseteq Held
    BY DEF IInv, RequestInv, BodyInside
  <2>2. IsFiniteSet(Held)
    BY FS_Subset DEF RouterAssumption
  <2>3. IsFiniteSet(Buffered) /\ Cardinality(Buffered) <= Cardinality(Held)
    BY <2>1, <2>2, FS_Subset
  <2>4. Cardinality(Held) <= MaxInFlight /\ Cardinality(Held) \in Nat
    BY RouterAssumption DEF IInv, TypeOK, TokenConservation, RouterAssumption
  <2>5. Cardinality(Buffered) <= MaxInFlight
    BY <2>2, <2>3, <2>4, FS_CardinalityType, RouterAssumption DEF RouterAssumption
  <2> QED
    BY <2>5 DEF IInv, RequestInv, BodyInside, BuffersBounded
<1> QED
  BY <1>1, Invariance, RouterAssumption, PTL

(* A request that did not ask for it is never sent twice: a retry follows  *)
(* only a forward no node received (forward.go:24-28, 156-159,             *)
(* router.go:378-388).                                                     *)
THEOREM NeverSentTwice == Spec => []SentOnce
<1>1. IInv => SentOnce
  BY DEF IInv, RequestInv, SendsCount, SentOnce
<1> QED
  BY <1>1, Invariance, PTL

(* The picker is asked to hold a slot exactly while a forward it chose is  *)
(* under way, on the node it goes to, and the retry goes to another node   *)
(* than the one that could not be dialled (router.go:117-127, 386-400).    *)
THEOREM ReservedExactly == Spec => []ReservedWhileForwarding
<1>1. IInv => ReservedWhileForwarding
  BY DEF IInv, RequestInv, Reserves, ReservedWhileForwarding
<1> QED
  BY <1>1, Invariance, PTL

(* ErrorHandler, writeUnreachable and the early returns between them give  *)
(* every client that stays exactly one response (forward.go:128-149,       *)
(* router.go:370-403).                                                     *)
THEOREM OneAnswer == Spec => []AnsweredOnce
<1>1. IInv => AnsweredOnce
  <2> SUFFICES ASSUME IInv, NEW r \in Requests
               PROVE  answers[r] <= 1 /\ (pc[r] = "done" /\ ~gone[r] => answers[r] = 1)
    BY DEF AnsweredOnce
  <2>1. pc[r] \in PCs
    BY DEF IInv, TypeOK
  <2>2. AnswersCount(r)
    BY DEF IInv, RequestInv
  <2> QED
    BY <2>1, <2>2 DEF AnswersCount, PCs, Holding, Unanswered
<1> QED
  BY <1>1, Invariance, PTL

(* The deadline readBody sets is gone before anything else happens to the  *)
(* connection (router.go:479-512).                                         *)
THEOREM NoLingeringDeadline == Spec => []DeadlineOnlyWhileReading
<1>1. IInv => DeadlineOnlyWhileReading
  BY DEF IInv, RequestInv, DeadlineInRead, DeadlineOnlyWhileReading
<1> QED
  BY <1>1, Invariance, PTL

-----------------------------------------------------------------------------
(* Router implements Gate.                                                 *)

(* What Gate sees of the requests past the cap. *)
LEMMA InIsHeld == Promise!In = {r \in Requests : pc[r] \in Holding}
  BY DEF Promise!In, Stage, Holding

(* The steps in which a request crosses from one stage of Gate to another, *)
(* or is sent to a node.                                                   *)
LEMMA StagesKept ==
  ASSUME TypeOK, NEW r \in Requests, Step(r) \/ ClientLeaves(r),
         ~Acquire(r), ~NodeReceives(r), ~ReturnToken(r),
         ~Deny(r), ~Throttle(r), ~OverCapacity(r)
  PROVE  Stage(r)' = Stage(r) /\ delivered' = delivered
<1> USE DEF TypeOK, PCs, Holding, Kinds, Stage, forward
<1>1. CASE RouteByModel(r) \/ RouteToView(r) \/ Allow(r)
  BY <1>1 DEF RouteByModel, Goto, RouteToView, Allow
<1>2. CASE ViewFound(r) \/ NoView(r) \/ StartRead(r) \/ BodyRead(r) \/ BodyRefused(r)
           \/ BodyTimeout(r)
  BY <1>2 DEF ViewFound, Goto, NoView, Answer, StartRead, SetDeadline, BodyRead,
              ClearDeadline, BodyRefused, BodyTimeout
<1>3. CASE Pick(r) \/ PickNone(r) \/ FallbackView(r) \/ FallbackNone(r) \/ PickAgain(r)
           \/ PickAgainNone(r) \/ AnswerUnreachable(r)
  BY <1>3 DEF Pick, Goto, PickNone, FallbackView, FallbackNone, Answer, PickAgain,
              PickAgainNone, AnswerUnreachable
<1>4. CASE Connect(r) \/ DialFails(r) \/ ConnectionLost(r) \/ Resend(r)
  BY <1>4 DEF Connect, Goto, DialFails, ConnectionLost, Answer, AfterLoss, Resend
<1>5. CASE ResponseStarts(r) \/ ResponseEnds(r) \/ StreamBreaks(r) \/ Cancelled(r)
           \/ ClientLeaves(r)
  BY <1>5 DEF ResponseStarts, Goto, Answer, ResponseEnds, StreamBreaks, Cancelled,
              ClientLeaves
<1>6. CASE Release(r) \/ ReleaseInPanic(r) \/ ReleaseUnreached(r)
  BY <1>6 DEF Release, Goto, GiveBack, ReleaseInPanic, ReleaseUnreached, MayRetry
<1> QED
  BY <1>1, <1>2, <1>3, <1>4, <1>5, <1>6 DEF Step, Handler, Awaited

(* A step of Router is a step of Gate, or changes nothing Gate sees. *)
LEMMA StepImplements ==
  ASSUME RouterAssumption, IInv, [Next]_vars
  PROVE  [Promise!Next]_(Promise!vars)
<1> DEFINE stage == [q \in Requests |-> Stage(q)]
<1>1. ASSUME NEW r \in Requests, Step(r) \/ ClientLeaves(r)
      PROVE  Promise!Next \/ UNCHANGED Promise!vars
  <2>0. TypeOK /\ TokenConservation /\ RequestInv(r)
    BY DEF IInv
  <2>1. ASSUME NEW q \in Requests, q # r PROVE Stage(q)' = Stage(q)
    BY <1>1, <2>0, <2>1, OthersAlone DEF Stage
  <2>2. CASE Acquire(r)
    <3>1. Cardinality(Promise!In) < MaxInFlight
      BY <2>0, <2>2, InIsHeld, RouterAssumption
         DEF Acquire, CapReached, TypeOK, TokenConservation, RouterAssumption
    <3>2. Stage(r) = "outside" /\ Stage(r)' = "inside" /\ delivered' = delivered
      BY <2>0, <2>2
         DEF Acquire, Goto, Stage, Holding, TypeOK, forward, RequestInv, SendsCount, Unsent
    <3>3. stage' = [stage EXCEPT ![r] = "inside"]
      BY <2>1, <3>2
    <3>4. Promise!Cardinality(Promise!In) = Cardinality(Promise!In)
      BY DEF Promise!Cardinality, Cardinality
    <3> QED
      BY <3>1, <3>2, <3>3, <3>4 DEF Promise!Next, Promise!Admit
  <2>3. CASE Deny(r) \/ Throttle(r) \/ OverCapacity(r)
    <3>1. Stage(r) = "outside" /\ Stage(r)' = "closed" /\ delivered' = delivered
      BY <2>0, <2>3 DEF Deny, Throttle, OverCapacity, Goto, Stage, Holding, TypeOK, forward
    <3>2. stage' = [stage EXCEPT ![r] = "closed"]
      BY <2>1, <3>1
    <3> QED
      BY <3>1, <3>2 DEF Promise!Next, Promise!TurnAway
  <2>4. CASE NodeReceives(r) /\ delivered[r] = 0
    <3>1. Stage(r) = "inside" /\ Stage(r)' = "sent" /\ delivered' = [delivered EXCEPT ![r] = 1]
      BY <2>0, <2>4 DEF NodeReceives, Goto, Stage, Holding, TypeOK
    <3>2. stage' = [stage EXCEPT ![r] = "sent"]
      BY <2>1, <3>1
    <3> QED
      BY <3>1, <3>2 DEF Promise!Next, Promise!Send
  <2>5. CASE NodeReceives(r) /\ delivered[r] # 0
    <3>1. r \in Replayable
      BY <2>0, <2>5 DEF NodeReceives, Goto, RequestInv, SendsCount, UnsentOnce
    <3>2. /\ Stage(r) = "sent" /\ Stage(r)' = "sent"
          /\ delivered' = [delivered EXCEPT ![r] = @ + 1]
      BY <2>0, <2>5 DEF NodeReceives, Goto, Stage, Holding, TypeOK
    <3>3. stage' = stage
      BY <2>1, <3>2
    <3> QED
      BY <3>1, <3>2, <3>3 DEF Promise!Next, Promise!SendAgain
  <2>6. CASE ReturnToken(r)
    <3>1. Stage(r) \in {"inside", "sent"} /\ Stage(r)' = "closed" /\ delivered' = delivered
      BY <2>0, <2>6 DEF ReturnToken, Goto, Stage, Holding, TypeOK
    <3>2. stage' = [stage EXCEPT ![r] = "closed"]
      BY <2>1, <3>1
    <3> QED
      BY <3>1, <3>2 DEF Promise!Next, Promise!Close
  <2>7. CASE ~Acquire(r) /\ ~NodeReceives(r) /\ ~ReturnToken(r) /\ ~Deny(r) /\ ~Throttle(r)
             /\ ~OverCapacity(r)
    <3>1. Stage(r)' = Stage(r) /\ delivered' = delivered
      BY <1>1, <2>0, <2>7, StagesKept
    <3>2. stage' = stage
      BY <2>1, <3>1
    <3> QED
      BY <3>1, <3>2 DEF Promise!vars
  <2> QED
    BY <2>2, <2>3, <2>4, <2>5, <2>6, <2>7
<1>2. CASE UNCHANGED vars
  BY <1>2 DEF vars, Promise!vars, Stage
<1> QED
  BY <1>1, <1>2 DEF Next

(* Router implements Gate, whatever the clients, nodes and network do: no  *)
(* request is sent from outside the cap, after it was turned away, or, if  *)
(* it is not replayable, a second time (router.go:133-140, 312-320,        *)
(* forward.go:24-28).                                                      *)
THEOREM ImplementsGate == Spec => KeepsPromise
<1>1. Init => Promise!Init
  BY DEF Init, Promise!Init, Stage, Holding
<1>2. IInv /\ [Next]_vars => [Promise!Next]_(Promise!vars)
  BY StepImplements, RouterAssumption
<1> QED
  BY <1>1, <1>2, Invariance, PTL DEF Spec, KeepsPromise, Promise!Spec

(* What a step of Gate does to the stages and to the sends, one request at *)
(* a time.                                                                 *)
MovesOnly(r, to) == \A q \in Requests : Stage(q)' = IF q = r THEN to ELSE Stage(q)

LEMMA GateStep ==
  ASSUME [Promise!Next]_(Promise!vars)
  PROVE  \/ \E r \in Requests : /\ Stage(r) = "outside"
                                /\ Cardinality(Promise!In) < MaxInFlight
                                /\ MovesOnly(r, "inside")
                                /\ delivered' = delivered
         \/ \E r \in Requests : MovesOnly(r, "closed") /\ delivered' = delivered
         \/ \E r \in Requests : /\ Stage(r) = "inside"
                                /\ MovesOnly(r, "sent")
                                /\ delivered' = [delivered EXCEPT ![r] = 1]
         \/ \E r \in Replayable : /\ r \in Requests
                                  /\ Stage(r) = "sent"
                                  /\ MovesOnly(r, "sent")
                                  /\ delivered' = [delivered EXCEPT ![r] = @ + 1]
         \/ (\A q \in Requests : Stage(q)' = Stage(q)) /\ delivered' = delivered
<1> DEFINE stage == [q \in Requests |-> Stage(q)]
<1>1. /\ \A q \in Requests : stage[q] = Stage(q) /\ stage'[q] = Stage(q)'
      /\ stage \in [Requests -> {Stage(q) : q \in Requests}]
  OBVIOUS
<1>2. Promise!Cardinality(Promise!In) = Cardinality(Promise!In)
  BY DEF Promise!Cardinality, Cardinality
<1>3. ASSUME NEW r \in Requests, NEW to, stage' = [stage EXCEPT ![r] = to]
      PROVE  MovesOnly(r, to)
  <2> HIDE DEF stage
  <2> QED
    BY <1>1, <1>3 DEF MovesOnly
<1>4. ASSUME stage' = stage
      PROVE  \A q \in Requests : Stage(q)' = Stage(q)
  <2> HIDE DEF stage
  <2> QED
    BY <1>1, <1>4
<1>5. ASSUME NEW r \in Requests, Promise!Admit(r)
      PROVE  /\ Stage(r) = "outside"
             /\ Cardinality(Promise!In) < MaxInFlight
             /\ MovesOnly(r, "inside")
             /\ delivered' = delivered
  BY <1>1, <1>2, <1>3, <1>5 DEF Promise!Admit
<1>6. ASSUME NEW r \in Requests, Promise!TurnAway(r) \/ Promise!Close(r)
      PROVE  MovesOnly(r, "closed") /\ delivered' = delivered
  BY <1>3, <1>6 DEF Promise!TurnAway, Promise!Close
<1>7. ASSUME NEW r \in Requests, Promise!Send(r)
      PROVE  /\ Stage(r) = "inside"
             /\ MovesOnly(r, "sent")
             /\ delivered' = [delivered EXCEPT ![r] = 1]
  BY <1>1, <1>3, <1>7 DEF Promise!Send
<1>8. ASSUME NEW r \in Requests, Promise!SendAgain(r)
      PROVE  /\ r \in Replayable
             /\ Stage(r) = "sent"
             /\ MovesOnly(r, "sent")
             /\ delivered' = [delivered EXCEPT ![r] = @ + 1]
  <2>1. Stage(r) = "sent"
    BY <1>1, <1>8 DEF Promise!SendAgain
  <2>2. MovesOnly(r, "sent")
    BY <1>4, <1>8, <2>1 DEF Promise!SendAgain, MovesOnly
  <2> QED
    BY <1>8, <2>1, <2>2 DEF Promise!SendAgain
<1>9. ASSUME UNCHANGED Promise!vars
      PROVE  (\A q \in Requests : Stage(q)' = Stage(q)) /\ delivered' = delivered
  BY <1>4, <1>9 DEF Promise!vars
<1> QED
  BY <1>5, <1>6, <1>7, <1>8, <1>9 DEF Promise!Next

(* One more element. *)
LEMMA OneMore ==
  ASSUME NEW S, IsFiniteSet(S), NEW x
  PROVE  IsFiniteSet(S \cup {x}) /\ Cardinality(S \cup {x}) <= Cardinality(S) + 1
<1>1. Cardinality(S) \in Nat
  BY FS_CardinalityType
<1>2. CASE x \in S
  <2>1. S \cup {x} = S
    BY <1>2
  <2>2. Cardinality(S \cup {x}) = Cardinality(S) /\ IsFiniteSet(S \cup {x})
    BY <2>1, Zenon
  <2> QED
    BY <1>1, <2>2
<1>3. CASE x \notin S
  BY <1>1, <1>3, FS_AddElement
<1> QED
  BY <1>2, <1>3

(* A step lets in one request at most, and that below the limit. *)
LEMMA LimitStep ==
  ASSUME RouterAssumption, Cardinality(Promise!In) <= MaxInFlight, [Promise!Next]_(Promise!vars)
  PROVE  Cardinality(Promise!In') <= MaxInFlight
<1> DEFINE In == {r \in Requests : Stage(r) \in {"inside", "sent"}}
<1>1. Promise!In = In /\ Promise!In' = In'
  BY DEF Promise!In
<1>2. IsFiniteSet(In) /\ Cardinality(In) \in Nat /\ MaxInFlight \in Nat
  BY FS_Subset, FS_CardinalityType DEF RouterAssumption
<1>3. CASE In' \subseteq In
  <2>1. Cardinality(In') <= Cardinality(In) /\ Cardinality(In') \in Nat
    BY <1>2, <1>3, FS_Subset, FS_CardinalityType
  <2> HIDE DEF In
  <2> QED
    BY <1>1, <1>2, <2>1
<1>4. ASSUME NEW r \in Requests, Cardinality(Promise!In) < MaxInFlight, In' \subseteq In \cup {r}
      PROVE  Cardinality(In') <= MaxInFlight
  <2> HIDE DEF In
  <2>1. IsFiniteSet(In \cup {r}) /\ Cardinality(In \cup {r}) <= Cardinality(In) + 1
    BY <1>2, OneMore
  <2>2. Cardinality(In') <= Cardinality(In \cup {r}) /\ Cardinality(In') \in Nat
    BY <1>4, <2>1, FS_Subset, FS_CardinalityType
  <2>3. Cardinality(In \cup {r}) \in Nat
    BY <2>1, FS_CardinalityType
  <2> QED
    BY <1>1, <1>2, <1>4, <2>1, <2>2, <2>3
<1>5. \/ \E r \in Requests : Cardinality(Promise!In) < MaxInFlight /\ MovesOnly(r, "inside")
      \/ \E r \in Requests : MovesOnly(r, "closed")
      \/ \E r \in Requests : Stage(r) \in {"inside", "sent"} /\ MovesOnly(r, "sent")
      \/ \A q \in Requests : Stage(q)' = Stage(q)
  BY GateStep, RouterAssumption DEF RouterAssumption
<1>6. CASE \E r \in Requests : Cardinality(Promise!In) < MaxInFlight /\ MovesOnly(r, "inside")
  <2>1. PICK r \in Requests : Cardinality(Promise!In) < MaxInFlight /\ MovesOnly(r, "inside")
    BY <1>6
  <2>2. In' \subseteq In \cup {r}
    BY <2>1 DEF MovesOnly
  <2> QED
    BY <1>1, <1>4, <2>1, <2>2
<1>7. CASE \/ \E r \in Requests : MovesOnly(r, "closed")
           \/ \E r \in Requests : Stage(r) \in {"inside", "sent"} /\ MovesOnly(r, "sent")
           \/ \A q \in Requests : Stage(q)' = Stage(q)
  <2>1. In' \subseteq In
    BY <1>7 DEF MovesOnly
  <2> QED
    BY <1>3, <2>1
<1> QED
  BY <1>5, <1>6, <1>7

(* A step sends a request from inside, and again only a repeatable one. *)
SendsBounded ==
  /\ \A r \in Requests : Stage(r) \in {"outside", "inside"} => delivered[r] = 0
  /\ \A r \in Requests \ Replayable : delivered[r] <= 1

LEMMA SendsStep ==
  ASSUME RouterAssumption, SendsBounded, delivered \in [Requests -> Nat],
         [Promise!Next]_(Promise!vars)
  PROVE  SendsBounded' /\ delivered' \in [Requests -> Nat]
<1> USE DEF SendsBounded, MovesOnly
<1>1. CASE \E r \in Requests : /\ Stage(r) = "outside"
                               /\ MovesOnly(r, "inside")
                               /\ delivered' = delivered
  BY <1>1
<1>2. CASE \E r \in Requests : MovesOnly(r, "closed") /\ delivered' = delivered
  BY <1>2
<1>3. CASE \E r \in Requests : /\ Stage(r) = "inside"
                               /\ MovesOnly(r, "sent")
                               /\ delivered' = [delivered EXCEPT ![r] = 1]
  BY <1>3
<1>4. CASE \E r \in Replayable : /\ r \in Requests
                                 /\ MovesOnly(r, "sent")
                                 /\ delivered' = [delivered EXCEPT ![r] = @ + 1]
  BY <1>4
<1>5. CASE (\A q \in Requests : Stage(q)' = Stage(q)) /\ delivered' = delivered
  BY <1>5
<1> HIDE DEF SendsBounded, MovesOnly
<1> QED
  BY <1>1, <1>2, <1>3, <1>4, <1>5, GateStep

(* Gate is worth implementing: whatever keeps it lets in no more requests  *)
(* than the limit, sends none that is outside, and sends again only those  *)
(* that are replayable (router.go:133-140, forward.go:24-28).              *)
THEOREM PromiseBounds ==
  KeepsPromise => [](Cardinality(Promise!In) <= MaxInFlight /\ SendsBounded)
<1> DEFINE Bounded == Cardinality(Promise!In) <= MaxInFlight
           J == Bounded /\ SendsBounded /\ delivered \in [Requests -> Nat]
<1>1. ASSUME Promise!Init
      PROVE  J
  <2>1. \A r \in Requests : Stage(r) = "outside" /\ delivered[r] = 0
    <3>1. \A r \in Requests : [q \in Requests |-> Stage(q)][r] = "outside"
      BY <1>1 DEF Promise!Init
    <3> QED
      BY <1>1, <3>1 DEF Promise!Init
  <2>2. Promise!In = {}
    BY <2>1 DEF Promise!In
  <2>3. Bounded
    BY <2>2, FS_EmptySet, RouterAssumption DEF RouterAssumption
  <2>4. delivered \in [Requests -> Nat]
    BY <1>1 DEF Promise!Init
  <2> QED
    BY <2>1, <2>3, <2>4 DEF SendsBounded
<1>2. ASSUME J, [Promise!Next]_(Promise!vars)
      PROVE  J'
  BY <1>2, LimitStep, SendsStep, RouterAssumption
<1>3. Promise!Init => J
  BY <1>1
<1>4. J /\ [Promise!Next]_(Promise!vars) => J'
  BY <1>2
<1>5. J => Cardinality(Promise!In) <= MaxInFlight /\ SendsBounded
  OBVIOUS
<1> HIDE DEF J
<1> QED
  BY <1>3, <1>4, <1>5, PTL DEF KeepsPromise, Promise!Spec

-----------------------------------------------------------------------------
(* Each step of a handler is a step of Reserve, or none, for its request. *)
LEMMA ReservingStep ==
  ASSUME RouterAssumption, TypeOK, NEW r \in Requests, Reserves(r), Step(r) \/ ClientLeaves(r)
  PROVE  Reserving(r)!Step
<1> USE DEF TypeOK, Reserves, Forwarding, Goto, reading, forward
<1> DEFINE Stays == UNCHANGED <<reservation[r], Spent(r)>>
<1>1. Stays => Reserving(r)!Step
  BY DEF Reserving!Step, Reserving!vars
<1>2. Reserving(r)!Next => Reserving(r)!Step
  BY DEF Reserving!Step
<1> HIDE DEF Stays
<1>3. CASE \/ Deny(r) \/ RouteByModel(r) \/ RouteToView(r) \/ Throttle(r) \/ Allow(r)
           \/ Acquire(r) \/ OverCapacity(r) \/ ViewFound(r) \/ NoView(r) \/ StartRead(r)
  <2>1. Stays
    BY <1>3 DEF Deny, RouteByModel, RouteToView, Throttle, Allow, Acquire, OverCapacity,
                ViewFound, NoView, StartRead, Stays, Spent
  <2> QED
    BY <1>1, <2>1
<1>4. CASE \/ BodyRead(r) \/ BodyRefused(r) \/ BodyTimeout(r) \/ PickNone(r)
           \/ FallbackView(r) \/ FallbackNone(r) \/ AnswerUnreachable(r) \/ ReturnToken(r)
  <2>1. Stays
    BY <1>4 DEF BodyRead, BodyRefused, BodyTimeout, PickNone, FallbackView, FallbackNone,
                AnswerUnreachable, ReturnToken, Stays, Spent
  <2> QED
    BY <1>1, <2>1
<1>5. CASE \/ Connect(r) \/ DialFails(r) \/ NodeReceives(r) \/ ConnectionLost(r) \/ Resend(r)
           \/ ResponseStarts(r) \/ ResponseEnds(r) \/ StreamBreaks(r) \/ Cancelled(r)
           \/ ClientLeaves(r)
  <2>1. Stays
    BY <1>5 DEF Connect, DialFails, NodeReceives, ConnectionLost, AfterLoss, Resend,
                ResponseStarts, ResponseEnds, StreamBreaks, Cancelled, ClientLeaves, Stays, Spent
  <2> QED
    BY <1>1, <2>1
<1>6. CASE Pick(r)
  <2>1. PICK n \in Nodes : reservation' = [reservation EXCEPT ![r] = n]
    BY <1>6 DEF Pick
  <2>2. reservation[r] = NoNode /\ Spent(r) = NoNode /\ Spent(r)' = NoNode
    BY <1>6 DEF Pick, Spent
  <2>3. Reserving(r)!Take(n)
    BY <2>1, <2>2, RouterAssumption DEF RouterAssumption, Reserving!Take
  <2> QED
    BY <1>2, <2>3 DEF Reserving!Next
<1>7. CASE PickAgain(r)
  <2>1. PICK n \in Nodes \ {excluded[r]} : reservation' = [reservation EXCEPT ![r] = n]
    BY <1>7 DEF PickAgain
  <2>2. reservation[r] = NoNode /\ Spent(r) = excluded[r] /\ Spent(r)' = excluded[r]
    BY <1>7 DEF PickAgain, Spent
  <2>3. Reserving(r)!Take(n)
    BY <2>1, <2>2 DEF Reserving!Take
  <2> QED
    BY <1>2, <2>1, <2>3 DEF Reserving!Next
<1>8. CASE PickAgainNone(r)
  <2>1. reservation[r] = NoNode /\ reservation' = reservation
    BY <1>8 DEF PickAgainNone
  <2>2. Spent(r) # NoNode /\ Spent(r)' = NoNode
    BY <1>8 DEF PickAgainNone, Spent
  <2>3. Reserving(r)!GiveUp
    BY <2>1, <2>2 DEF Reserving!GiveUp
  <2> QED
    BY <1>2, <2>3 DEF Reserving!Next
<1>9. CASE Release(r) \/ ReleaseInPanic(r) \/ (ReleaseUnreached(r) /\ ~MayRetry(r))
  <2>1. reservation'[r] = NoNode /\ Spent(r)' = NoNode
    BY <1>9 DEF Release, ReleaseInPanic, ReleaseUnreached, GiveBack, Spent
  <2>2. CASE reservation[r] = NoNode
    <3>1. Spent(r) = NoNode
      BY <1>9, <2>2 DEF Release, ReleaseInPanic, ReleaseUnreached, Spent
    <3> QED
      BY <1>1, <2>1, <2>2, <3>1 DEF Stays
  <2>3. CASE reservation[r] # NoNode
    BY <1>2, <2>1, <2>3 DEF Reserving!Next, Reserving!Return
  <2> QED
    BY <2>2, <2>3
<1>10. CASE ReleaseUnreached(r) /\ MayRetry(r)
  <2>1. reservation[r] # NoNode /\ Spent(r) = NoNode /\ node[r] = reservation[r]
    BY <1>10 DEF ReleaseUnreached, MayRetry, Spent
  <2>2. reservation'[r] = NoNode /\ Spent(r)' = reservation[r]
    BY <1>10, <2>1 DEF ReleaseUnreached, GiveBack, Spent
  <2> QED
    BY <1>2, <2>1, <2>2 DEF Reserving!Next, Reserving!ReturnUnreached
<1> QED
  BY <1>3, <1>4, <1>5, <1>6, <1>7, <1>8, <1>9, <1>10 DEF Step, Handler, Awaited

(* The router implements its side of Reserve, whatever Pick and View       *)
(* answer, for any requests and nodes (router.go:117-127, 376-403).        *)
THEOREM ImplementsReserve == Spec => KeepsReserve
<1>1. ASSUME Init, NEW r \in Requests
      PROVE  Reserving(r)!Init
  BY <1>1 DEF Init, Spent, Forwarding, Reserving!Init
<1>2. ASSUME IInv, [Next]_vars, NEW r \in Requests
      PROVE  Reserving(r)!Step
  <2>1. CASE Step(r) \/ ClientLeaves(r)
    BY <1>2, <2>1, ReservingStep, RouterAssumption DEF IInv, RequestInv
  <2>2. CASE ~(Step(r) \/ ClientLeaves(r))
    <3>1. pc'[r] = pc[r] /\ reservation'[r] = reservation[r] /\ excluded'[r] = excluded[r]
      <4>1. CASE Next
        <5>1. PICK q \in Requests : Step(q) \/ ClientLeaves(q)
          BY <4>1 DEF Next
        <5> QED
          BY <1>2, <2>2, <5>1, OthersAlone DEF IInv
      <4>2. CASE UNCHANGED vars
        BY <4>2 DEF vars
      <4> QED
        BY <1>2, <4>1, <4>2
    <3> QED
      BY <3>1 DEF Spent, Reserving!Step, Reserving!vars
  <2> QED
    BY <2>1, <2>2
<1>3. Init => \A r \in Requests : Reserving(r)!Init
  BY <1>1
<1>4. IInv /\ [Next]_vars => [\A r \in Requests : Reserving(r)!Step]_vars
  BY <1>2
<1> QED
  BY <1>3, <1>4, Invariance, PTL DEF Spec, KeepsReserve

-----------------------------------------------------------------------------
(* Each step of the handler leaves it fewer steps, and no other step more. *)
LEMMA StepsLeftStep ==
  ASSUME RouterAssumption, TypeOK, NEW r \in Requests, RequestInv(r), Step(r) \/ ClientLeaves(r)
  PROVE  StepsLeft(r)' <= StepsLeft(r) /\ (Handler(r) => StepsLeft(r)' < StepsLeft(r))
<1> USE DEF TypeOK, PCs, Holding, Kinds, request, reading, forward, StepsLeft, MayRetry
<1> USE DEF Goto
<1>1. ASSUME Handler(r)
      PROVE  StepsLeft(r)' <= StepsLeft(r) /\ StepsLeft(r)' < StepsLeft(r)
  <2>1. CASE Deny(r) \/ RouteByModel(r) \/ RouteToView(r) \/ Throttle(r) \/ Allow(r)
    BY <2>1 DEF Deny, RouteByModel, RouteToView, Throttle, Allow
  <2>2. CASE Acquire(r) \/ OverCapacity(r)
    BY <2>2 DEF Acquire, OverCapacity
  <2>3. CASE ViewFound(r) \/ NoView(r) \/ StartRead(r)
    BY <2>3 DEF ViewFound, NoView, StartRead
  <2>4. CASE Pick(r) \/ PickNone(r)
    BY <2>4 DEF Pick, PickNone
  <2>5. CASE FallbackView(r) \/ FallbackNone(r)
    BY <2>5 DEF FallbackView, FallbackNone, RequestInv, Reserves, Forwarding
  <2>6. CASE Release(r) \/ ReleaseInPanic(r)
    BY <2>6 DEF Release, ReleaseInPanic
  <2>7. CASE ReleaseUnreached(r)
    BY <2>7 DEF ReleaseUnreached
  <2>8. CASE PickAgain(r) \/ PickAgainNone(r)
    BY <2>8 DEF PickAgain, PickAgainNone, RequestInv, Reserves
  <2>9. CASE AnswerUnreachable(r) \/ ReturnToken(r)
    BY <2>9 DEF AnswerUnreachable, ReturnToken
  <2> QED
    BY <1>1, <2>1, <2>2, <2>3, <2>4, <2>5, <2>6, <2>7, <2>8, <2>9 DEF Handler
<1>2. CASE BodyRead(r) \/ BodyRefused(r) \/ BodyTimeout(r)
  <2>1. StepsLeft(r)' <= StepsLeft(r)
    BY <1>2 DEF BodyRead, BodyRefused, BodyTimeout, RequestInv, Reserves, Forwarding
  <2> QED
    BY <1>1, <2>1
<1>3. CASE Connect(r) \/ DialFails(r) \/ NodeReceives(r) \/ ConnectionLost(r) \/ Resend(r)
  <2>1. StepsLeft(r)' <= StepsLeft(r)
    BY <1>3 DEF Connect, DialFails, NodeReceives, ConnectionLost, AfterLoss, Resend
  <2> QED
    BY <1>1, <2>1
<1>4. CASE ResponseStarts(r) \/ ResponseEnds(r) \/ StreamBreaks(r) \/ Cancelled(r)
           \/ ClientLeaves(r)
  <2>1. StepsLeft(r)' <= StepsLeft(r)
    BY <1>4 DEF ResponseStarts, ResponseEnds, StreamBreaks, Cancelled, ClientLeaves
  <2> QED
    BY <1>1, <2>1
<1>5. CASE Handler(r)
  BY <1>1, <1>5
<1> QED
  BY <1>2, <1>3, <1>4, <1>5 DEF Step, Awaited

(* For any picker, transport, nodes and clients, a handler takes a bounded *)
(* number of steps of its own: it cannot loop, and it retries once         *)
(* (router.go:376-403).                                                    *)
THEOREM NeverLoops == Spec => ComesToAnEnd
<1>1. ASSUME RouterAssumption, IInv, Next, NEW r \in Requests
      PROVE  StepsLeft(r)' <= StepsLeft(r) /\ (Handler(r) => StepsLeft(r)' < StepsLeft(r))
  <2>1. CASE Step(r) \/ ClientLeaves(r)
    BY <1>1, <2>1, StepsLeftStep DEF IInv
  <2>2. CASE ~(Step(r) \/ ClientLeaves(r))
    <3>1. PICK q \in Requests : Step(q) \/ ClientLeaves(q)
      BY <1>1 DEF Next
    <3>2. pc'[r] = pc[r] /\ reservation'[r] = reservation[r] /\ excluded'[r] = excluded[r]
      BY <1>1, <2>2, <3>1, OthersAlone DEF IInv
    <3>3. StepsLeft(r)' = StepsLeft(r) /\ StepsLeft(r) \in Int
      BY <1>1, <3>2 DEF IInv, TypeOK, PCs, Holding, StepsLeft, MayRetry
    <3> QED
      BY <2>2, <3>3 DEF Step
  <2> QED
    BY <2>1, <2>2
<1>2. IInv /\ [Next]_vars =>
        [\A r \in Requests : /\ StepsLeft(r)' <= StepsLeft(r)
                             /\ Handler(r) => StepsLeft(r)' < StepsLeft(r)]_vars
  BY <1>1, RouterAssumption
<1> QED
  BY <1>2, Invariance, PTL DEF Spec, ComesToAnEnd

(* What forward.go:24-28 says of ErrUpstreamUnreachable is so of every     *)
(* request the transport may not send again by itself: it can safely be    *)
(* sent somewhere else.  UnreachedNotStarted fails for the others alone.   *)
THEOREM UnreachedUnsent ==
  Spec => [](\A r \in Requests \ Replayable : pc[r] = "unreached" => delivered[r] = 0)
<1>1. IInv => \A r \in Requests \ Replayable : pc[r] = "unreached" => delivered[r] = 0
  BY DEF IInv, RequestInv, SendsCount, UnsentOnce
<1> QED
  BY <1>1, Invariance, PTL
=============================================================================
