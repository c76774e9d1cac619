------------------------------- MODULE Router -------------------------------
(***************************************************************************)
(* proxy.Router and proxy.Forwarder: the life of a request, from the deny  *)
(* rules to the last deferred release.                                     *)
(*                                                                         *)
(* Each request runs on a goroutine of its own; they share the in-flight   *)
(* tokens.  The fleet (Pick and View), the limiter, the client and the     *)
(* nodes may answer anything their interfaces allow; Picker, ViewNode and  *)
(* RateLimit model what they do answer.                                    *)
(*                                                                         *)
(* The HTTP transport is net/http's, modelled from how forward.go uses it. *)
(* It may take an idle connection from its pool, and when such a           *)
(* connection dies before a response it goes on with a new one: with any   *)
(* request nothing of which was written, and with a replayable one         *)
(* whatever was.  A request is replayable when its method or an            *)
(* Idempotency-Key header says so.  Either needs a body that can be        *)
(* rewound, which readBody's GetBody makes of every one.                   *)
(***************************************************************************)
EXTENDS Integers, FiniteSets

CONSTANTS
  Requests,
  Nodes,
  NoNode,
  MaxInFlight,    \* the capacity of the channel rt.tokens
  Replayable,     \* the requests the transport may send again by itself
  MaxResends      \* bound on the deliveries after which it still does

ASSUME RouterAssumption ==
  /\ IsFiniteSet(Requests)
  /\ NoNode \notin Nodes
  /\ MaxInFlight \in Nat \ {0}
  /\ Replayable \subseteq Requests
  /\ MaxResends \in Nat

VARIABLES
  pc,
  kind,           \* which arm of ServeHTTP's switch the request takes
  gone,           \* the client has hung up: the request's context is cancelled
  tokens,         \* len(rt.tokens)
  body,           \* the request's body is buffered, or being buffered
  deadline,       \* a read deadline is set on the client's connection
  node,           \* the node the request is forwarded to
  excluded,       \* the node that could not be dialled, on the retry
  reservation,    \* the node the picker holds a reservation on for the request
  pooled,         \* the forward uses an idle connection of the pool
  delivered,      \* history: how often a node received the request
  answers         \* history: how many responses were started

vars == <<pc, kind, gone, tokens, body, deadline, node, excluded, reservation, pooled,
          delivered, answers>>

Kinds == {"unrouted", "denied", "model", "view"}

(* The points at which a request holds an in-flight token. *)
Holding == {"view", "read", "reading", "pick", "fallback", "dial", "sent", "await", "stream",
            "ended", "panicking", "unreached", "repick", "unavailable", "return"}

(* A forward is under way, or has ended and its deferred release has not run. *)
Forwarding == {"dial", "sent", "await", "stream", "ended", "panicking", "unreached"}

PCs == {"arrived", "limit", "acquire", "done"} \cup Holding

(* Every variable has its type, and the semaphore its capacity. *)
TypeOK ==
  /\ pc \in [Requests -> PCs]
  /\ kind \in [Requests -> Kinds]
  /\ gone \in [Requests -> BOOLEAN]
  /\ tokens \in 0 .. MaxInFlight
  /\ body \in [Requests -> BOOLEAN]
  /\ deadline \in [Requests -> BOOLEAN]
  /\ node \in [Requests -> Nodes \cup {NoNode}]
  /\ excluded \in [Requests -> Nodes \cup {NoNode}]
  /\ reservation \in [Requests -> Nodes \cup {NoNode}]
  /\ pooled \in [Requests -> BOOLEAN]
  /\ delivered \in [Requests -> Nat]
  /\ answers \in [Requests -> Nat]

-----------------------------------------------------------------------------
Init ==
  /\ pc = [r \in Requests |-> "arrived"]
  /\ kind = [r \in Requests |-> "unrouted"]
  /\ gone = [r \in Requests |-> FALSE]
  /\ tokens = 0
  /\ body = [r \in Requests |-> FALSE]
  /\ deadline = [r \in Requests |-> FALSE]
  /\ node = [r \in Requests |-> NoNode]
  /\ excluded = [r \in Requests |-> NoNode]
  /\ reservation = [r \in Requests |-> NoNode]
  /\ pooled = [r \in Requests |-> FALSE]
  /\ delivered = [r \in Requests |-> 0]
  /\ answers = [r \in Requests |-> 0]

Goto(r, from, to) == pc[r] = from /\ pc' = [pc EXCEPT ![r] = to]

(* secureError, or the upstream's own response. *)
Answer(r) == answers' = [answers EXCEPT ![r] = @ + 1]

(* The variables a group of steps leaves alone. *)
request == <<kind, gone>>
reading == <<body, deadline>>
forward == <<node, excluded, reservation, pooled, delivered>>

-----------------------------------------------------------------------------
(* The way in: ServeHTTP's switch, the limiter, the in-flight cap. *)

Deny(r) ==
  /\ Goto(r, "arrived", "done")
  /\ kind' = [kind EXCEPT ![r] = "denied"]
  /\ Answer(r)
  /\ UNCHANGED <<gone, tokens, reading, forward>>

RouteByModel(r) ==
  /\ Goto(r, "arrived", "limit")
  /\ kind' = [kind EXCEPT ![r] = "model"]
  /\ UNCHANGED <<gone, tokens, reading, forward, answers>>

RouteToView(r) ==
  /\ Goto(r, "arrived", "acquire")
  /\ kind' = [kind EXCEPT ![r] = "view"]
  /\ UNCHANGED <<gone, tokens, reading, forward, answers>>

Throttle(r) ==
  /\ Goto(r, "limit", "done")
  /\ Answer(r)
  /\ UNCHANGED <<request, tokens, reading, forward>>

Allow(r) ==
  /\ Goto(r, "limit", "acquire")
  /\ UNCHANGED <<request, tokens, reading, forward, answers>>

CapReachedLate == tokens > MaxInFlight
CapReachedNever == FALSE
CapReached == tokens = MaxInFlight

Acquire(r) ==
  /\ ~CapReached
  /\ Goto(r, "acquire", IF kind[r] = "model" THEN "read" ELSE "view")
  /\ tokens' = tokens + 1
  /\ UNCHANGED <<request, reading, forward, answers>>

OverCapacity(r) ==
  /\ CapReached
  /\ Goto(r, "acquire", "done")
  /\ Answer(r)
  /\ UNCHANGED <<request, tokens, reading, forward>>

-----------------------------------------------------------------------------
(* routeToView's View, before the body is read. *)

ViewFound(r) ==
  /\ Goto(r, "view", "read")
  /\ \E n \in Nodes : node' = [node EXCEPT ![r] = n]
  /\ UNCHANGED <<request, tokens, reading, excluded, reservation, pooled, delivered, answers>>

NoView(r) ==
  /\ Goto(r, "view", "return")
  /\ Answer(r)
  /\ UNCHANGED <<request, tokens, reading, forward>>

-----------------------------------------------------------------------------
(* readBody. *)

SetDeadlineNever(r) == deadline' = deadline
SetDeadline(r) == deadline' = [deadline EXCEPT ![r] = TRUE]
ClearDeadlineNever(r) == deadline' = deadline
ClearDeadline(r) == deadline' = [deadline EXCEPT ![r] = FALSE]

StartRead(r) ==
  /\ Goto(r, "read", "reading")
  /\ SetDeadline(r)
  /\ body' = [body EXCEPT ![r] = TRUE]
  /\ UNCHANGED <<request, tokens, forward, answers>>

BodyRead(r) ==
  /\ Goto(r, "reading", IF kind[r] = "model" THEN "pick" ELSE "dial")
  /\ ClearDeadline(r)
  /\ UNCHANGED <<request, tokens, body, forward, answers>>

BodyRefusedLeaks(r) ==
  /\ Goto(r, "reading", "done")
  /\ ClearDeadline(r)
  /\ body' = [body EXCEPT ![r] = FALSE]
  /\ Answer(r)
  /\ UNCHANGED <<request, tokens, forward>>
(* Too large (413), or the client stopped sending it (400). *)
BodyRefused(r) ==
  /\ Goto(r, "reading", "return")
  /\ ClearDeadline(r)
  /\ body' = [body EXCEPT ![r] = FALSE]
  /\ Answer(r)
  /\ UNCHANGED <<request, tokens, forward>>

(* The deadline fires: 408. *)
BodyTimeout(r) == deadline[r] /\ BodyRefused(r)

-----------------------------------------------------------------------------
(* routeByModel's Pick, and its fallback to the view node. *)

Pick(r) ==
  /\ Goto(r, "pick", "dial")
  /\ \E n \in Nodes : /\ node' = [node EXCEPT ![r] = n]
                      /\ reservation' = [reservation EXCEPT ![r] = n]
  /\ UNCHANGED <<request, tokens, reading, excluded, pooled, delivered, answers>>

PickNone(r) ==
  /\ Goto(r, "pick", "fallback")
  /\ UNCHANGED <<request, tokens, reading, forward, answers>>

FallbackView(r) ==
  /\ Goto(r, "fallback", "dial")
  /\ \E n \in Nodes : node' = [node EXCEPT ![r] = n]
  /\ UNCHANGED <<request, tokens, reading, excluded, reservation, pooled, delivered, answers>>

FallbackNone(r) ==
  /\ Goto(r, "fallback", "return")
  /\ Answer(r)
  /\ UNCHANGED <<request, tokens, reading, forward>>

-----------------------------------------------------------------------------
(* Forwarder.To: one run of the reverse proxy. *)

(* A connection, from the pool or dialled. *)
Connect(r) ==
  /\ Goto(r, "dial", "sent")
  /\ \E b \in BOOLEAN : pooled' = [pooled EXCEPT ![r] = b]
  /\ UNCHANGED <<request, tokens, reading, node, excluded, reservation, delivered, answers>>

(* isDialError: ErrorHandler writes nothing, To returns ErrUpstreamUnreachable. *)
DialFails(r) ==
  /\ ~gone[r]
  /\ Goto(r, "dial", "unreached")
  /\ UNCHANGED <<request, tokens, reading, forward, answers>>

NodeReceives(r) ==
  /\ Goto(r, "sent", "await")
  /\ delivered' = [delivered EXCEPT ![r] = @ + 1]
  /\ UNCHANGED <<request, tokens, reading, node, excluded, reservation, pooled, answers>>

(* The connection is lost before a response: ErrorHandler writes a 502,    *)
(* whether or not the node had the request.                                *)
AfterLossRetried == "unreached"
AfterLoss == "ended"

ConnectionLost(r) ==
  /\ ~gone[r]
  /\ Goto(r, "sent", AfterLoss) \/ Goto(r, "await", AfterLoss)
  /\ Answer(r)
  /\ UNCHANGED <<request, tokens, reading, forward>>

(* The transport gives up a stale connection and takes another.  What a    *)
(* node has received it sends again only when it is replayable.            *)
Resend(r) ==
  /\ pooled[r]
  /\ delivered[r] <= MaxResends
  /\ Goto(r, "sent", "dial") \/ (r \in Replayable /\ Goto(r, "await", "dial"))
  /\ pooled' = [pooled EXCEPT ![r] = FALSE]
  /\ UNCHANGED <<request, tokens, reading, node, excluded, reservation, delivered, answers>>

ResponseStarts(r) ==
  /\ Goto(r, "await", "stream")
  /\ Answer(r)
  /\ UNCHANGED <<request, tokens, reading, forward>>

ResponseEnds(r) ==
  /\ Goto(r, "stream", "ended")
  /\ UNCHANGED <<request, tokens, reading, forward, answers>>

(* The stream fails after its first byte: panic(http.ErrAbortHandler). *)
StreamBreaks(r) ==
  /\ Goto(r, "stream", "panicking")
  /\ UNCHANGED <<request, tokens, reading, forward, answers>>

CancelledLate(r) ==
  /\ gone[r]
  /\ Goto(r, "stream", "panicking")
  /\ UNCHANGED <<request, tokens, reading, forward, answers>>
(* The context is cancelled: the round trip fails and ErrorHandler writes  *)
(* nothing; a stream aborts as above.                                      *)
Cancelled(r) ==
  /\ gone[r]
  /\ \/ \E from \in {"dial", "sent", "await"} : Goto(r, from, "ended")
     \/ Goto(r, "stream", "panicking")
  /\ UNCHANGED <<request, tokens, reading, forward, answers>>

-----------------------------------------------------------------------------
(* The way out. *)

GiveBack(r) == reservation' = [reservation EXCEPT ![r] = NoNode]

(* forwardHolding's deferred release; a forward to the view node holds no  *)
(* reservation.                                                            *)
Release(r) ==
  /\ Goto(r, "ended", "return")
  /\ GiveBack(r)
  /\ UNCHANGED <<request, tokens, reading, node, excluded, pooled, delivered, answers>>

ReleaseInPanicSkipped(r) ==
  /\ Goto(r, "panicking", "return")
  /\ UNCHANGED <<request, tokens, reading, forward, answers>>
ReleaseInPanic(r) ==
  /\ Goto(r, "panicking", "return")
  /\ GiveBack(r)
  /\ UNCHANGED <<request, tokens, reading, node, excluded, pooled, delivered, answers>>

MayRetryAlways(r) == reservation[r] # NoNode
(* Only a forward Pick chose is retried, and only once. *)
MayRetry(r) == reservation[r] # NoNode /\ excluded[r] = NoNode

ReleaseUnreachedHeld(r) ==
  /\ Goto(r, "unreached", IF MayRetry(r) THEN "repick" ELSE "unavailable")
  /\ excluded' = [excluded EXCEPT ![r] = IF MayRetry(r) THEN node[r] ELSE @]
  /\ UNCHANGED <<request, tokens, reading, node, reservation, pooled, delivered, answers>>
ReleaseUnreached(r) ==
  /\ Goto(r, "unreached", IF MayRetry(r) THEN "repick" ELSE "unavailable")
  /\ excluded' = [excluded EXCEPT ![r] = IF MayRetry(r) THEN node[r] ELSE @]
  /\ GiveBack(r)
  /\ UNCHANGED <<request, tokens, reading, node, pooled, delivered, answers>>

(* resetBody, then Pick with the first node excluded. *)
PickAgain(r) ==
  /\ Goto(r, "repick", "dial")
  /\ \E n \in Nodes \ {excluded[r]} :
       /\ node' = [node EXCEPT ![r] = n]
       /\ reservation' = [reservation EXCEPT ![r] = n]
  /\ UNCHANGED <<request, tokens, reading, excluded, pooled, delivered, answers>>

PickAgainNoneSilent(r) ==
  /\ Goto(r, "repick", "return")
  /\ UNCHANGED <<request, tokens, reading, forward, answers>>
PickAgainNone(r) ==
  /\ Goto(r, "repick", "unavailable")
  /\ UNCHANGED <<request, tokens, reading, forward, answers>>

(* writeUnreachable *)
AnswerUnreachable(r) ==
  /\ Goto(r, "unavailable", "return")
  /\ Answer(r)
  /\ UNCHANGED <<request, tokens, reading, forward>>

(* The deferred release of the token; the body's buffer and the locals go  *)
(* with the frame.                                                         *)
ReturnToken(r) ==
  /\ Goto(r, "return", "done")
  /\ tokens' = tokens - 1
  /\ body' = [body EXCEPT ![r] = FALSE]
  /\ node' = [node EXCEPT ![r] = NoNode]
  /\ excluded' = [excluded EXCEPT ![r] = NoNode]
  /\ pooled' = [pooled EXCEPT ![r] = FALSE]
  /\ UNCHANGED <<request, deadline, reservation, delivered, answers>>

-----------------------------------------------------------------------------
ClientLeaves(r) ==
  /\ pc[r] # "done"
  /\ ~gone[r]
  /\ gone' = [gone EXCEPT ![r] = TRUE]
  /\ UNCHANGED <<pc, kind, tokens, reading, forward, answers>>

(* Steps the handler takes by itself. *)
Handler(r) ==
  \/ Deny(r) \/ RouteByModel(r) \/ RouteToView(r) \/ Throttle(r) \/ Allow(r)
  \/ Acquire(r) \/ OverCapacity(r)
  \/ ViewFound(r) \/ NoView(r) \/ StartRead(r)
  \/ Pick(r) \/ PickNone(r) \/ FallbackView(r) \/ FallbackNone(r)
  \/ Release(r) \/ ReleaseInPanic(r) \/ ReleaseUnreached(r)
  \/ PickAgain(r) \/ PickAgainNone(r) \/ AnswerUnreachable(r) \/ ReturnToken(r)

(* Steps that wait for the client or a node. *)
Awaited(r) ==
  \/ BodyRead(r) \/ BodyRefused(r)
  \/ Connect(r) \/ DialFails(r) \/ NodeReceives(r) \/ ConnectionLost(r) \/ Resend(r)
  \/ ResponseStarts(r) \/ ResponseEnds(r) \/ StreamBreaks(r)

Step(r) == Handler(r) \/ Awaited(r) \/ BodyTimeout(r) \/ Cancelled(r)

Next == \E r \in Requests : Step(r) \/ ClientLeaves(r)

Spec == Init /\ [][Next]_vars

(* A goroutine that can go on by itself does; a deadline that is set fires; *)
(* a cancelled context is noticed.  Nothing is promised of clients, nodes   *)
(* and the network.                                                         *)
Fairness ==
  \A r \in Requests :
    WF_vars(Handler(r)) /\ WF_vars(BodyTimeout(r)) /\ WF_vars(Cancelled(r))

FairSpec == Spec /\ Fairness

-----------------------------------------------------------------------------
(* The semaphore counts exactly the requests between tryAcquire and their  *)
(* deferred release: no early return, refused body, retry or panic leaks a *)
(* token or returns one twice (router.go:72-79, 129-140, 315-320).         *)
TokenConservation == tokens = Cardinality({r \in Requests : pc[r] \in Holding})

(* The bodies buffered at once are bounded by the cap, and a request that  *)
(* was denied, throttled or over the cap never buffers one                 *)
(* (router.go:290-295, 312-314).                                           *)
BuffersBounded ==
  /\ Cardinality({r \in Requests : body[r]}) <= MaxInFlight
  /\ \A r \in Requests : body[r] => pc[r] \in Holding

(* A request a node may have started on is never sent again by the router: *)
(* not after a lost connection, not after a first byte, not by the retry   *)
(* (forward.go:24-28, 156-159, router.go:378-388).                         *)
SentOnce == \A r \in Requests \ Replayable : delivered[r] <= 1

(* The picker holds a reservation for exactly the forwards Pick chose that *)
(* are under way, on the node they go to; a panic does not leak it and the *)
(* retry's Pick does not see it (router.go:117-127).                       *)
ReservedWhileForwarding ==
  \A r \in Requests :
    /\ reservation[r] # NoNode => pc[r] \in Forwarding /\ reservation[r] = node[r]
    /\ excluded[r] # NoNode /\ pc[r] \in Forwarding => reservation[r] \notin {NoNode, excluded[r]}

(* A response is started at most once, and a handler that returns has      *)
(* started one unless the client had gone: the router's 502 and            *)
(* ErrorHandler's never both, never neither (forward.go:128-149,           *)
(* router.go:370-403).                                                     *)
AnsweredOnce ==
  \A r \in Requests :
    /\ answers[r] <= 1
    /\ pc[r] = "done" /\ ~gone[r] => answers[r] = 1

(* The read deadline is off whenever the body is not being read, so it     *)
(* cannot cut a response short (router.go:479-488).                        *)
DeadlineOnlyWhileReading == \A r \in Requests : deadline[r] => pc[r] = "reading"

(* The steps the handler of r has left to take by itself, at most.         *)
StepsLeft(r) ==
  LET another == IF MayRetry(r) THEN 3 ELSE 0
  IN  CASE pc[r] = "arrived" -> 14
        [] pc[r] = "limit" -> 13
        [] pc[r] = "acquire" -> 12
        [] pc[r] = "view" -> 11
        [] pc[r] = "read" -> 10
        [] pc[r] = "reading" -> 9
        [] pc[r] = "pick" -> 8
        [] pc[r] = "fallback" -> 5
        [] pc[r] \in {"dial", "sent", "await", "stream"} -> 4 + another
        [] pc[r] = "unreached" -> 3 + another
        [] pc[r] = "repick" -> 5
        [] pc[r] \in {"ended", "panicking", "unavailable"} -> 2
        [] pc[r] = "return" -> 1
        [] pc[r] = "done" -> 0

(* A handler cannot loop: whatever the picker, the transport, the nodes    *)
(* and the client do, each step it takes by itself leaves it fewer, and no *)
(* other step leaves it more.  A node that cannot be dialled is retried    *)
(* once (router.go:376-403).                                               *)
ComesToAnEnd ==
  [][\A r \in Requests : /\ StepsLeft(r)' <= StepsLeft(r)
                         /\ Handler(r) => StepsLeft(r)' < StepsLeft(r)]_vars

(* A client that sends its body slowly, or never, does not keep its token  *)
(* (router.go:61-70, 479-484).                                             *)
BodyPhaseEnds == \A r \in Requests : pc[r] = "reading" ~> pc[r] # "reading"

(* Once the client has gone, its token, buffer and reservation come back,  *)
(* however slow the node is (forward.go:63-66, router.go:117-127).         *)
GoneIsDone == \A r \in Requests : gone[r] ~> pc[r] = "done"

(* The stage a request has reached. *)
Stage(r) ==
  IF pc[r] = "done" THEN "closed"
  ELSE IF pc[r] \notin Holding THEN "outside"
  ELSE IF delivered[r] = 0 THEN "inside" ELSE "sent"

Promise == INSTANCE Gate WITH Limit <- MaxInFlight, Repeatable <- Replayable,
                              stage <- [r \in Requests |-> Stage(r)], sends <- delivered

(* The router keeps what Gate promises: at most MaxInFlight requests past  *)
(* the cap, none sent from outside it or after it was turned away, none    *)
(* sent again unless it is replayable (router.go:133-140, 312-320,         *)
(* forward.go:24-28).                                                      *)
KeepsPromise == Promise!Spec

(* The node that r could not reach, while r may still try another.         *)
Spent(r) == IF pc[r] \in Forwarding \cup {"repick"} THEN excluded[r] ELSE NoNode

Reserving(r) == INSTANCE Reserve WITH None <- NoNode, has <- reservation[r], spent <- Spent(r)

(* The router's side of what Reserve says of a reservation: whatever the   *)
(* ways out of a handler, it is given back before another is asked for,    *)
(* and another is asked for once, after a dial failure and on another node *)
(* (router.go:117-127, 376-403).                                           *)
KeepsReserve ==
  /\ \A r \in Requests : Reserving(r)!Init
  /\ [][\A r \in Requests : Reserving(r)!Step]_vars

(* What forward.go:24-28 says of ErrUpstreamUnreachable: the request may   *)
(* safely be sent somewhere else, for the generation cannot have started.  *)
UnreachedNotStarted == \A r \in Requests : pc[r] = "unreached" => delivered[r] = 0
=============================================================================
