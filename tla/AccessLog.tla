----------------------------- MODULE AccessLog ------------------------------
(***************************************************************************)
(* accesslog.Wrap around proxy.Router: what each step of a request writes  *)
(* to the recorder and to the RequestInfo the two share, and the line      *)
(* logged from a defer when the handler returns or panics.                 *)
(*                                                                         *)
(* Router models the request; here each of its steps is taken together     *)
(* with its writes, and ServeHTTP's switch is decided by the call.         *)
(***************************************************************************)
EXTENDS Router, Paths

CONSTANTS
  Asks,       \* Asks[r]: the calls request r may be
  Informs     \* the requests whose node sends an informational response first

ASSUME AccessLogAssumption ==
  \A r \in Requests : \A c \in Asks[r] : c.path \in Seq(STRING)

VARIABLES
  asked,      \* the call on the wire
  url,        \* the path of the inbound request, which the log reads at the end
  out,        \* the path of the request that is forwarded
  rec,        \* rec[r]: the recorder's status, 0 until one is written
  info,       \* info[r]: RequestInfo.Node
  aborted,    \* ~completed: the handler panicked
  line,       \* the line logged
  sent,       \* history: the final statuses written to the client
  interim,    \* history: an informational status was written to the client
  tried,      \* history: the node of the last forward
  whole       \* history: a response was sent to its end

logging == <<url, out, rec, info, aborted, line>>
history == <<sent, interim, tried, whole>>

logVars == <<vars, asked, logging, history>>

NoLine == [path |-> <<>>, status |-> 0, node |-> NoNode, aborted |-> FALSE]

LogInit ==
  /\ Init
  /\ asked \in {f \in [Requests -> UNION {Asks[r] : r \in Requests}] :
                  \A r \in Requests : f[r] \in Asks[r]}
  /\ url = [r \in Requests |-> asked[r].path]
  /\ out = [r \in Requests |-> asked[r].path]
  /\ rec = [r \in Requests |-> 0]
  /\ info = [r \in Requests |-> NoNode]
  /\ aborted = [r \in Requests |-> FALSE]
  /\ line = [r \in Requests |-> NoLine]
  /\ sent = [r \in Requests |-> <<>>]
  /\ interim = [r \in Requests |-> FALSE]
  /\ tried = [r \in Requests |-> NoNode]
  /\ whole = [r \in Requests |-> FALSE]

-----------------------------------------------------------------------------
(* recorder.WriteHeader and Write keep the first status. *)
Record(r, s) == rec' = [rec EXCEPT ![r] = IF @ = 0 THEN s ELSE @]

(* A final response with this status begins. *)
Writes(r, s) ==
  /\ Record(r, s)
  /\ sent' = [sent EXCEPT ![r] = Append(@, s)]
  /\ UNCHANGED <<asked, url, out, info, aborted, line, interim, tried, whole>>

setNode(r) == info' = [info EXCEPT ![r] = node'[r]]

Names(r) ==
  /\ setNode(r)
  /\ UNCHANGED <<asked, url, out, rec, aborted, line, history>>

NamesAgainNever(r) == UNCHANGED <<asked, logging, history>>
NamesAgain(r) == Names(r)

(* rewritePath: the copy's path, and not the inbound request's. *)
rewritePath(r) ==
  /\ out' = [out EXCEPT ![r] = Rewritten(asked[r])]
  /\ url' = url

-----------------------------------------------------------------------------
(* Router's steps, by what they write. *)

Decides(r) ==
  \/ Deny(r) /\ Denies(asked[r]) /\ Writes(r, 403)
  \/ RouteByModel(r) /\ ByModel(asked[r]) /\ UNCHANGED <<asked, logging, history>>
  \/ /\ RouteToView(r) /\ ToView(asked[r])
     /\ rewritePath(r)
     /\ UNCHANGED <<asked, rec, info, aborted, line, history>>

Refuses(r) ==
  \/ Throttle(r) /\ Writes(r, 429)
  \/ OverCapacity(r) /\ Writes(r, 503)
  \/ (NoView(r) \/ FallbackNone(r)) /\ Writes(r, 503)
  \/ AnswerUnreachable(r) /\ Writes(r, 502)

Chooses(r) == (Pick(r) \/ FallbackView(r)) /\ Names(r)

ChoosesAgain(r) == PickAgain(r) /\ NamesAgain(r)

(* A forward has ended: which node it was to is history's. *)
Forwarded(r) ==
  /\ Release(r) \/ ReleaseUnreached(r)
  /\ tried' = [tried EXCEPT ![r] = node[r]]
  /\ UNCHANGED <<asked, logging, sent, interim, whole>>

(* The panic goes through Wrap's frame without completed having been set. *)
Panics(r) ==
  /\ ReleaseInPanic(r)
  /\ aborted' = [aborted EXCEPT ![r] = TRUE]
  /\ tried' = [tried EXCEPT ![r] = node[r]]
  /\ UNCHANGED <<asked, url, out, rec, info, line, sent, interim, whole>>

Silent(r) ==
  /\ \/ Allow(r) \/ Acquire(r) \/ ViewFound(r) \/ StartRead(r) \/ PickNone(r)
     \/ PickAgainNone(r) \/ ReturnToken(r)
  /\ UNCHANGED <<asked, logging, history>>

(* The deferred logRequest. *)
Status(r) == IF rec[r] = 0 THEN 200 ELSE rec[r]

LogCompleted(r) ==
  /\ pc[r] = "done"
  /\ ~aborted[r]
  /\ line[r] = NoLine
  /\ line' = [line EXCEPT ![r] = [path |-> url[r], status |-> Status(r), node |-> info[r],
                                  aborted |-> FALSE]]
  /\ UNCHANGED <<vars, asked, url, out, rec, info, aborted, history>>
Log(r) ==
  /\ pc[r] = "done"
  /\ line[r] = NoLine
  /\ line' = [line EXCEPT ![r] = [path |-> url[r], status |-> Status(r), node |-> info[r],
                                  aborted |-> aborted[r]]]
  /\ UNCHANGED <<vars, asked, url, out, rec, info, aborted, history>>

(* The body is read; a request for the view node has its node named now. *)
Reads(r) ==
  /\ BodyRead(r)
  /\ IF kind[r] = "view" THEN Names(r) ELSE UNCHANGED <<asked, logging, history>>

(* 400, or 413. *)
RefusesBody(r) == BodyRefused(r) /\ Writes(r, 400)
TimesOut(r) == BodyTimeout(r) /\ Writes(r, 408)

LosesNode(r) == ConnectionLost(r) /\ Writes(r, 502)

(* The node answers, with a status of its own. *)
Upstream == 429
Answers(r) == ResponseStarts(r) /\ Writes(r, Upstream)

(* The reverse proxy passes an informational response on before the final  *)
(* one, by the same WriteHeader.                                           *)
Informational(r) ==
  /\ r \in Informs
  /\ pc[r] = "await"
  /\ ~interim[r]
  /\ Record(r, 100)
  /\ interim' = [interim EXCEPT ![r] = TRUE]
  /\ UNCHANGED <<vars, asked, url, out, info, aborted, line, sent, tried, whole>>

Ends(r) ==
  /\ ResponseEnds(r)
  /\ whole' = [whole EXCEPT ![r] = TRUE]
  /\ UNCHANGED <<asked, logging, sent, interim, tried>>

(* After an informational response the transport does not send again. *)
Passes(r) ==
  /\ \/ Connect(r) \/ DialFails(r) \/ NodeReceives(r) \/ (Resend(r) /\ ~interim[r])
     \/ StreamBreaks(r)
  /\ UNCHANGED <<asked, logging, history>>

Cancels(r) == Cancelled(r) /\ UNCHANGED <<asked, logging, history>>

Leaves(r) == ClientLeaves(r) /\ UNCHANGED <<asked, logging, history>>

(* Steps the goroutine takes by itself. *)
Goes(r) ==
  \/ Decides(r) \/ Refuses(r) \/ Chooses(r) \/ ChoosesAgain(r) \/ Forwarded(r) \/ Panics(r)
  \/ Silent(r) \/ Log(r)

LogNext ==
  \E r \in Requests :
    \/ Goes(r) \/ Reads(r) \/ RefusesBody(r) \/ TimesOut(r) \/ LosesNode(r) \/ Answers(r)
    \/ Informational(r) \/ Ends(r) \/ Passes(r) \/ Cancels(r) \/ Leaves(r)

(* As in Router. *)
LogFairness ==
  \A r \in Requests : WF_logVars(Goes(r)) /\ WF_logVars(TimesOut(r)) /\ WF_logVars(Cancels(r))

LogSpec == LogInit /\ [][LogNext]_logVars /\ LogFairness

-----------------------------------------------------------------------------
(* The line says what happened: the path asked for, the status the client  *)
(* was sent - 200 when it left before one was -, the node that answered or *)
(* was last tried, and aborted for exactly the responses that began and    *)
(* were not sent to their end.  The status of a request whose node sent an *)
(* informational one first is left to StatusIsFinal                        *)
(* (accesslog.go:70-121, router.go:279-287, 405-411).                      *)
LineTellsTruth ==
  \A r \in Requests : line[r] # NoLine =>
    /\ line[r].path = asked[r].path
    /\ ~interim[r] => line[r].status = IF sent[r] = <<>> THEN 200 ELSE Last(sent[r])
    /\ line[r].node = tried[r]
    /\ line[r].aborted <=> ~whole[r] /\ Last(<<0>> \o sent[r]) = Upstream /\ tried[r] # NoNode

(* A call is denied exactly when something a node may make of its path is  *)
(* chassis power or, with a method that is not a read, the alias table     *)
(* (router.go:169-188, 214-263).                                           *)
ForbiddenCalls == {c \in UNION {Asks[r] : r \in Requests} : Forbidden(c)}
DeniedExactly ==
  \A r \in Requests : kind[r] # "unrouted" => (kind[r] = "denied" <=> asked[r] \in ForbiddenCalls)

(* A request whose client hangs up is logged, whether its handler returned *)
(* or panicked (accesslog.go:79-89).                                       *)
GoneIsLogged == \A r \in Requests : gone[r] ~> line[r] # NoLine

(* What accesslog.go:92-95 says of a line: its status is what was sent.    *)
StatusIsFinal ==
  \A r \in Requests : line[r] # NoLine /\ sent[r] # <<>> => line[r].status = Last(sent[r])
=============================================================================
