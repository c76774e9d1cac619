# viiwork-gateway: a verification project

TLA+ models of the gateway in this repository, the TLC configurations that check
them on small instances, and theorems about them that the TLA+ proof system
checks for every value of the constants. Line numbers are those of the source
the models were translated from.

## The system

viiwork-gateway is one process. It joins a mesh of viiwork nodes, keeps their
capacity reports fresh with a poller, and serves HTTP on one port: inference
requests go to the node with the most free slots for their model, pages and
everything else to one node at a time, the view node.

A request goes through `auth` -> `accesslog` -> `proxy.Router` ->
`fleet.Picker` -> `proxy.Forwarder` -> a node, each in a goroutine of its own
(`main.go:141-154`: authentication is outermost, and the access log inside it).
The goroutines share the picker's two maps (under `p.mu`), the limiter's buckets
(under `l.mu`), and the channel of in-flight tokens. The mesh and the poller
change what the picker reads at any time, between any two of its steps.

### Inventory

| Component | State | Operations | What is hard | What makes it correct |
|---|---|---|---|---|
| picker (`internal/fleet/picker.go`, `Pick`) | `held` (reservations), `nextID`, `rotate` | `Pick(model, exclude)`, the `release` it returns, `reservedLocked` | The clock and the member table are read before the lock; reports describe the past; a release may come at any time, or out of a panic | Reservations are exactly the forwards in flight; none is charged twice; a burst spreads |
| view (`picker.go`, `View`) | `view` | `View()` | As above; a stored choice may rest on a member table older than the previous one | The allowlist and its order decide; without one the choice sticks |
| router (`internal/proxy/router.go`) | `tokens`; per request its body, deadline, node, token | `ServeHTTP`, `routeByModel`, `routeToView`, `readBody`, `forwardHolding`, `tryAcquire` | Some twenty ways out of a handler, among them a panic; the retry; clients that hang up or send nothing | Tokens conserved, bodies bounded, one answer, no request sent twice, nothing held for ever |
| forwarder (`internal/proxy/forward.go`) | none of its own; the transport's pool of connections | `To`, `ErrorHandler`, the header rewriting | Telling a request that was not sent from one that was; who writes the response | A dial error is the only retryable one; one response |
| rate limiter (`internal/ratelimit`) | `buckets` | `Allow` | Clock read before the lock; rounding of Retry-After | A key gets burst + rate; a client that waits as told is served |
| fleet membership (`internal/fleet/fleet.go`) | the mesh, the poller and its cancellation, `pollerRef` | `Start`, `OnChange`, `Close` | The poller is started after the mesh and stopped before it; events come before there is a poller | The poller never runs on a mesh that is down; it catches up with peers whose events came too early or too late |
| process lifecycle (`cmd/viiwork-gateway/main.go`) | the server, the signal context | `main`, `serve` | Signals, fatal mesh errors, a failing listener and streams that never end, in any order | Drain before leaving; leave on every path; stop when told |
| authentication (`internal/auth`) | none in the process; cookies are at the clients | `Wrap`, `Mint`, `Verify` | Cookies outlive the process and the key set; expiry in whole seconds | A cookie is good for its key, until it expires or the key is gone |
| keys (`internal/keys`) | an immutable set, read at start | `Load`, `Lookup`, `Secret` | Secrets shared by labels | Deleting a label shuts its holder out |
| configuration (`internal/config`) | none | `Load`, `ParseSize` | Settings that are legal one by one and not together; overflow | No open mesh without an allowlist; limits are what was written |
| access log (`internal/accesslog`, `proxy/requestinfo.go`) | one record per request | `Wrap`, the recorder, `setNode` | A handler that panics or writes nothing; the retry; what the handlers below do to the request | Each request is logged, as what it was |
| response headers, client address | none | pure functions | - | - |
| deployment (`scripts/deploy.sh`, `caddy/`) | - | - | order of installation steps | not part of the program |

`PROJECT.json` lists the hazards of this code, each at its line, with the
property that would catch it.

## The modules

| Module | Models | Composes |
|---|---|---|
| `Mesh` | What the gateway sees of the mesh and of the poller: the clock, membership, polls under way, reports; and the tests `routable` and freshness the picker applies to them | |
| `Picker` | `Picker.Pick` and its reservations, called by concurrent requests with the router's retry | extends `Mesh`, implements `Reserve` |
| `ViewNode` | `Picker.View`, called concurrently | extends `Mesh` |
| `RateLimit` | `Limiter.Allow` and the Retry-After that `writeRateLimited` sends | |
| `Gate` | The abstract promise: a bounded number of requests let in, each sent at most once | |
| `Reserve` | What one request and the picker rely on from each other: one reservation at a time, given back before the next, which is on another node | |
| `Router` | `Router` and `Forwarder`: the whole life of a request | implements `Gate` and `Reserve` |
| `Paths` | The switch of `ServeHTTP`: `isPowerPath`, `isAliasWrite`, `isInferencePath`, `rewritePath`, and a reference definition of what they are to deny | |
| `AccessLog` | `accesslog.Wrap`, its recorder and line, over every step of a request | extends `Router` and `Paths` |
| `Session` | `auth.Middleware`, `Mint`, `Verify` and `keys.Set`, over restarts with edited keys | |
| `Config` | `config.Load` and `ParseSize`, as operators on environments | |
| `Lifecycle` | `main`, `serve`, `fleet.Start`, `OnChange`, `Fleet.Close` | extends `Config` |
| `MeshProofs`, `PickerProofs`, `ViewNodeProofs`, `RateLimitProofs`, `RouterProofs`, `AccessLogProofs`, `SessionProofs`, `LifecycleProofs` | Theorems | extend the module they are about |
| `MC...` | Instances for TLC: small sets and symmetry | extend the module they check |

### Mesh: the environment of the picker

`mesh` and `mesh/capacity` are a library outside this repository; `Mesh` is
modelled from how `picker.go` and `fleet.go` use them. A node answers a poll
with the requests it is working on at that moment (`Sample`); the answer is
recorded some time later and stamped with the gateway's clock (`Deliver`), or
lost (`LosePoll`). The distance between the two is what makes the picker's
arithmetic interesting. Only requests of this gateway are modelled as work of a
node. Work a node has from elsewhere would lower its free slots in every report alike;
it is taken to be constant and part of `Slots`, which is any function of nodes and
models. Work is a set of
request identities rather than a number, so that "counted" has a meaning.
Names are naturals because `picker.go` compares names with `<`; a node's API
address is identified with the node. A member may leave and join again
(`Leavers`); a member that has left still runs what it was given.

### Picker

A call of `Pick` is three steps, because the code takes `p.mu` only after
`now := p.now()` and `members := p.members.Members()` (lines 105-106):
`ReadClock` (or `ReadClockAgain`, the retry of `routeByModel`), `ReadMembers`,
and the critical section, `PickNode` or `PickNone`. The reports the critical
section reads one by one are taken to be read at one instant: nothing in it
compares the report of one node at one time with that of another at another,
beyond the ranking. `held`, `nextID` and `rotate` are the fields of the same
name. The forward that follows is reduced to what the picker sees: the request
arrives at its node or not (`Arrive`), the dial fails (`DialFails`), the forward
ends otherwise (`ForwardEnds`), and the deferred `Release` runs. A node
may go on with a request the gateway has given up on (`NodeFinishes` is
independent of `ForwardEnds`).

The sort of lines 138-147 is modelled by its outcome: `Leaders` is the set of
candidates tied for the lead, and `IsRanked` says which of them, in order of
name, `rotate` selects; that there always is one, and only one, is the theorem
`Decides`.

### ViewNode

The same three steps for `View`. `viewNodes`, the allowlist, is chosen in
`Init` and never changes, so one run covers a gateway with and without one.
`steady` and `unbroken` are history: which nodes were eligible throughout a
call, and whether the stored choice has been ever since it was stored.

### RateLimit

`Allow` is two steps, the reading of the clock (line 84) and the critical
section, `Grant` or `Refuse`. Tokens are counted in fractions, `Whole` of them
to a token and `Rate` per tick, so that the refill is exact: floating-point
rounding is not modelled. Each concurrent call is for one label, chosen in
`Init`. A tick is the resolution of `time.Duration`: `Wait` is cut to whole ticks
(`ratelimit.go:121`) before `RetryAfter` rounds it up to whole seconds, so the token may be
missing by less than a tick when exactly the told time has passed, and
`RetryAfterKept` speaks of a key that comes back later than that. A limiter that is off (rate 0, or nil) returns before it touches any
state and is left out. `slip` is history: how much time `b.last` was moved
backwards.

### Router and Gate

One value of `pc[r]` for each point at which another goroutine, the client or a
node can come in between. `ServeHTTP`'s switch is `Deny`, `RouteByModel` and
`RouteToView`; which path takes which arm is a choice here, and decided by the
call in `AccessLog`. `routeByModel` is `Throttle`/`Allow`, `Acquire`/`OverCapacity`,
`StartRead` ... `BodyTimeout`, `Pick`/`PickNone` and the fallback to the view node,
the forward, and the retry; `routeToView` shares the middle of it. The body is
buffered from `StartRead` on and let go when the handler returns, or is refused.
The forward is one run of `httputil.ReverseProxy` on net/http's transport,
modelled from how `forward.go` uses it, the transport's own second attempt on a new
connection included (`Resend`): of any request while no node has received it, and
of a replayable one after that. A broken stream
panics with `http.ErrAbortHandler`; the deferred release of the reservation and
that of the token run as they do in Go (`ReleaseInPanic`, `ReturnToken`).
What `Pick`, `View` and `Allow` answer is left open: `Router` must be correct
whatever they say. The retry's `Pick` never answers with the excluded node, as
`Picker` guarantees.

`Gate` says what a caller of the gateway may rely on, in four stages: outside, inside,
sent, closed. `Promise` in `Router` is the refinement mapping: a request is
inside while it holds a token, and sent once a node has received it.

### Reserve: where Router and Picker meet

`routeByModel` and the picker are modelled apart, and each leaves the other open: `Router`
takes any answer of `Pick`, `Picker` any way a forward may end. `Reserve` is
what the two assume of each other, for one request: `has` is the node it holds a
reservation on, `spent` the node it could not reach while it may still try another.
A request takes a reservation only with empty hands and not on the node it has
spent, and comes round only once. `Reserving(r)` in `Router` maps `has` to
`reservation[r]`, and `spent` to what the retry excludes (lines 376-403). `Reserving(c)` in `Picker` maps `has` to
the node that `p.held` has under the caller's id, so that it is the picker's own map,
changed by every caller, that must keep each caller's promise. Each is a property of
its own run and a theorem of its own. The two are compared with one contract and
not composed: nothing is claimed of the product of their states.

### Paths and AccessLog

A path is the sequence of its segments, so `path.Clean` is a fold over them
(`Kept`, segment by segment, as a recursive function) and `strings.EqualFold` a
table of spellings. `Denies`, `ByModel` and `ToView` are the arms of the switch.
The reference they are compared with does not mention `path.Clean`: `Resolutions`
are the single steps in which a node may make something simpler of a path, by
dropping an empty or a dot segment or by resolving a dot-dot with what is before it,
`Resolved` whatever can come of them in any order, and `Meanings` the results
on which nothing is left to resolve, whatever their case. Only those count:
`/v1/aliases/../x` is never served as the alias table, although one who stops
half-way sees it there. A call is `Forbidden` when one of its meanings is a
power path, or the alias table or below with a method that writes.
`DeniedExactly` compares the two inside the run of the request path, and the theorem
`DeniesForbidden` for every path. Spellings are ASCII: `hasPrefixFold` cuts a path by bytes
before it compares (`router.go:260-263`), which is the same only where a letter and what it
folds to are of one length.

`AccessLog` takes each step of `Router` together with what it writes:
`Record` is the recorder, which keeps the first status; `Names` is
`rt.setNode`, at the points the code calls it; `rewritePath` changes the copy's
path and not that of the inbound request; `Panics` unwinds through `Wrap` with
`completed` unset; `Log` is the deferred line. A node's answer has a status of its own, and
so has the informational response that may come first (`Informs`): the reverse
proxy hands both to `WriteHeader`. `sent`, `interim`, `tried` and `whole` are history, what
really happened, and the line is compared with them. When the client goes
before any status is written, the recorder's zero is logged as 200
(`accesslog.go:97-99`); the property states that.

### Session

The process keeps nothing of a session. `env` is the operator's `.env`, `keys`
the set of the run that is up, `before` that of the run before it, and `cookies` what
browsers hold, through any number of stops, edits and starts. A request carries
a bearer key, or a cookie or a key in its query, or both; the arms of `Wrap`
are `BearerAccepted`, `BearerRejected`, `CookieAccepted`, `KeyAccepted` (which
mints and redirects) and `Rejected`. `Second` ticks make a second, so that the
expiry is cut as `exp.Unix()` cuts it and compared with a finer clock. HMAC is
ideal: a signature is what was signed and with what. A bearer that is present
decides alone, with its surrounding space trimmed (`Trim`), which a key in the URL is not. `Load` also refuses a variable whose name holds no label
(`keys.go:45-47`); the labels of the model are real ones.

### Config and Lifecycle

An environment maps each variable to what its text parses to: `Unset`, `Bad`, or
a value. `Accepts` is `config.Load`, one conjunct for each group of variables,
and `Loaded` what it returns as far as anything later tells it apart. A list is refused for
a blank or repeated entry (`ListReads`); only a seed must also parse. Sizes are
computed in integers of bounded width (`Wrap`).

`Lifecycle` is `main`'s goroutine as a program counter, from the environment to
the exit, `serve`'s goroutine for `srv.Serve`, the poller's, that of the mesh's
events, and the connections'. `mesh.Start` is two steps, `BeginJoin` and
`MeshStarted`, because events begin before it returns; `StorePoller` and
`RunPoller` come after, and `OnChange` looks at `poller` at any time. Peers join, leave
and fail at any time too, and their events are handled in any order; an update of a peer
changes nothing modelled and is left out. A signal
before `signal.NotifyContext` kills the process (`Killed`); after it, SIGINT and SIGTERM are
the signals there are. Once used, the
settings are forgotten, so that they do not multiply the states of what
follows. A connection and its requests are told apart: one that is up is idle or has
a request served on it, and is kept for another request only until Shutdown
begins. `http.Server.Shutdown` is what its documentation says: it closes the
listener at once, closes the idle connections, and returns when none is left or its
context is done. A connection that was accepted before it may still get its first
request served while it drains. `TypeOK` includes which parts are up at which point. Only one deadline is
modelled, the 15 seconds of the drain: the leave's own timeout bounds a step
that is one action here, and a join that fails leaves nothing behind, which is
the library's part.

## The runs

Deadlock is checked in `session`, which never stops. It is not in the others
(`CHECK_DEADLOCK FALSE`): their clocks and ids are bounded, requests finish and processes
exit.

| Run | Question | Bounds |
|---|---|---|
| `picker` | Do reservations stay exactly the forwards in flight, uncharged twice, does a burst spread, do tied nodes take turns, and does every caller find its reservation as `Reserve` says? | two callers, two nodes (one full from the start for one of two models) and this gateway, two reservations in all, clock 0..1, freshness 1, two round-trip times |
| `picker_uncounted` (violation) | Is a reservation older than a report always counted in it, as line 181 says? | as `picker` |
| `view` | Is the allowlist authoritative, its order kept, and the choice sticky while the node was eligible throughout the call? | two callers, two nodes that come and go, another gateway, no allowlist, `<2>` or `<2, 1>`, clock 0..1, freshness 0 |
| `view_kept` (violation) | Is the choice kept while it stays eligible, as line 63 says? | as `view` |
| `rate` | Is time counted twice the only way past the limit, and is Retry-After enough? | two calls, two keys, burst 1, a token every three and a half ticks, 2 ticks to a second, clock 0..6 |
| `rate_rewind` (violation) | Does a key get no more than burst and refill, as line 53 says? | two calls of one key, burst 2 |
| `router_cap` | The safety of the whole request path | three requests, one of them replayable with one resend, two tokens, two nodes |
| `router_live` | Inside the access log: does the router implement `Gate` and, for each request, `Reserve`, does every handler run out of steps, does a silent client lose its token, does a client that leaves free everything and get logged, is every line true, is exactly the forbidden denied? | a chat completion whose node may send an informational response first, beside one of eight calls after those of the repository's tests, which the transport may resend once; one token, two nodes |
| `log_interim` (violation) | Is the status logged the one that was sent, as `accesslog.go:92-95` says? | as `router_live` |
| `router_unreached` (violation) | Is a request reported unreachable always unsent, as `forward.go:24` says? | two requests, one of them replayable, one token, two nodes, one resend |
| `session` | Who is let in, who is turned away, and what does revoking a key do? | two labels, four secrets (one short, one with a space around it), a TTL of 3 ticks with 2 ticks to a second, clock 0..5, one cookie out at a time, any number of restarts |
| `lifecycle` | From the environment to the exit: is what is accepted sound, does the poller catch up with peers that come and go, do drain, leave and stop come in order on every path, and is the way down taken once, whatever else happens? | 344 environments, two peers, two connections with any number of requests on each, integers up to 127 |

Why the bounds are enough. Two calls of `Pick` are enough for one to overtake
the other between reading the clock and locking; two reservations let a dial
failure, its release and the retry's second reservation happen beside
another call, and a third id would only repeat that. The clock needs two values for a
reading to be older than a report, equal to it, or newer, and the freshness
bound is on either side of that in `view`. Two nodes with slots 0 and 1 make a
full node, a free one and a tie. They tie only two at a time: for ties that change in size,
`TakesTurns` rests on the theorem `Rotates`, since a third node takes the run out of
TLC's reach. In `rate` the clock is long enough for a
refill and a wait, and a wait is not a whole number of ticks. Three requests for two tokens put one at the cap while two are at
any pair of steps of their handlers; one token is enough for liveness, since the requests
meet only at the cap. One cookie at a time suffices in `session` because no property
relates two of them, and it may be dropped and replaced at any time; a TTL that is not a
whole number of seconds is what makes rounding visible, and two runs with one edit between
are what makes a cookie outlive its key. The environments are every one that differs from
a minimal secured or open gateway in one variable, or in two of those the
mesh's mode is made of; integers up to 127 put both sides of an overflow
within reach. Every mutant in `PROJECT.json` is a small bug in a mapped definition
that the instance of its run is large enough to expose.

Symmetry is used where callers, labels, requests and router nodes are interchangeable, and
not in the runs with liveness properties. The picker's names are ordered and never symmetric.

### Fairness

- `AccessLog!LogSpec`: a handler that can take a step by itself does (goroutines are scheduled), the deferred line included; a read deadline that is set fires; a cancelled request context is noticed by whatever waits on it. Nothing is assumed of clients, of nodes or of the network: no response need come, no body need be sent. `BodyPhaseEnds`, `GoneIsDone` and `GoneIsLogged` hold under that.
- `Lifecycle!Spec`: main's goroutine goes on when it can, the drain's deadline passes, the poller ticks, and it notices that its context is cancelled. No request is assumed to end, no connection to close, and no event to be handled: `PeersPolled` rests on the tick alone. `Leave` and `Shutdown` of the mesh are taken to return.
- `Picker`, `ViewNode`, `RateLimit` and `Session` state no fairness and have only safety properties.

### What the violations show

- `picker_uncounted`: `reservedLocked` treats every reservation that is not later than the report's `Received` as counted in it. The report was counted when the node answered, not when it was received, so a forward started in between is in neither number until the next poll. The node looks one slot freer than it is. `SpreadsBurst` says what is left: apart from this window a full node is picked only when every candidate is full.
- `view_kept`: a call that read the member table before the view node joined takes the lock after another call has chosen it, does not find it, and moves the view away.
- `rate_rewind`: two calls of a key take the lock in the opposite order of their readings; `b.last` moves back and the next refill counts that time again. `OnlySlipExceedsRate` bounds the effect exactly.
- `router_unreached`: for a request with an Idempotency-Key the transport's own second attempt may fail to dial after a node received the first; the router is told that the node could not be reached. What it does then is `MayRetry`: a model-routed request goes to another node. For every other request `SentOnce` holds, and the theorem `UnreachedUnsent` says that what `forward.go:24` promises is kept.
- `log_interim`: the recorder keeps the first status it is given. A node that sends an informational response first, as any does for an upload with `Expect: 100-continue`, has its request logged as 100. `LineTellsTruth` states what holds for the rest, and the theorem `FinalStatus` that only requests of such nodes are affected.

## The theorems

All are checked by `tlapm`, from the named assumptions of the modules
(`MeshAssumption`, `PickerAssumption`, `ViewAssumption`, `RouterAssumption`, `RateAssumption`,
`AccessLogAssumption`, `SessionAssumption`, `ConfigAssumption`, `LifecycleAssumption`) and nothing else.
TLC evaluates those assumptions in the runs. They say that constants have their
type, that `Names` and `Requests` are finite (cardinalities are taken of sets of them), and that
capacities, rates, lifetimes and units of sizes are positive.
Every safety and action property that a passing run checks is also a theorem.

**PickerProofs**, for any number of callers, nodes and models.
`HeldExactlyInFlight` and `NoDoubleCharge` are not inductive alone. `IInv` adds:
forwards have reservations of their own and reservations have forwards
(`ForwardsHold`, `HeldForForward`); ids at the nodes, in polls and in reports were handed
out (`IdsUsed`); readings are of the past (`ReadingsPast`); and, the heart of it, a held
reservation that a report counts is no later than the report (`CountedIsOlder`). The last is kept by
`Deliver` because a report is stamped at delivery, after whatever it counts was
reserved, and by `PickNode` because a new id is in no report yet. `NoDoubleCharge`
follows: what `Reserved` counts is strictly later.

For `SpreadsBurst` that is half of the argument: what the report counts and what
`reservedLocked` counts are disjoint parts of what is known of a node
(`ChargeBounded`), and all of it when nothing went uncounted. So a node whose slots are all
known to be taken ranks with nothing free, and if it leads then every candidate has
nothing free, hence at least as much known work as slots (`FullLeader`).
`ImplementsReserve` needs one more invariant, `ExcludesOne`: a retry leaves out one node, and no
other call any. Beside it the proof is about the sharing of `p.held`: a release deletes one id,
a pick adds a new one, and since forwards have ids of their own (`ForwardsHold`) the
entry of every other caller stays what it was (`HoldsGiven`).

`Decides` shows that the ranking is a decision: among finitely many candidates some
lead (`Greatest`, `Least`), and one element of a finite set and no other has a
given rank (`OneRanked`). `Rotates` adds the arithmetic of the rotation (`NextTurn`).
Results: `Typing`, `HeldExactly`, `NeverChargedTwice`, `BurstSpreads`, `Decides`, `Rotates`,
`ImplementsReserve`.

**RouterProofs**, for any number of requests and nodes and any capacity. `RequestInv(r)`
says, for each point of a handler, how many responses have been started, how
often the request may have been sent, and when the body, the deadline, the reservation and the
excluded node are set. It is about one request, is kept by that request's steps
(`RequestInvStep`) and untouched by the others' (`OthersAlone`). The requests meet
in `TokenConservation`, where the argument is over cardinalities: `Acquire` adds a
request to the set past the cap, `ReturnToken` removes one, and no other
step crosses it (`AcrossTheCap`). `ImplementsGate` is the refinement: each step of
`Router` is a step of `Gate` or leaves all that `Gate` sees alone. `PromiseBounds` says what that is
worth, from `Gate` alone: whatever behaves as it says has at most `MaxInFlight`
requests inside and sends none twice that may not be repeated. `ImplementsReserve`
takes each step of a handler to a step of `Reserve` for its request and to none for the others
(`ReservingStep`).
Results: `Typing`, `TokensConserved`, `BoundedBuffers`, `NeverSentTwice`, `ReservedExactly`,
`OneAnswer`, `NoLingeringDeadline`, `ImplementsGate`, `PromiseBounds`, `ImplementsReserve`,
`NeverLoops`, `UnreachedUnsent`.

`NeverLoops` is what a termination argument needs from safety: `StepsLeft`, a number read
off the state of one handler, falls with each of its steps and rises with nobody's. The only step
back in the handler is the retry, and it is taken with no node excluded and leads
to one that is; that a handler at the retry's pick has excluded a node is part
of `RequestInv`. Termination itself needs fairness and stays with TLC.

**AccessLogProofs**, for any calls, requests and nodes. The first half is about
paths of any length. The provers have no induction over data, so the proofs do
without: a claim that fails for some number fails for a least one (`Least`,
`UpTo`), which also gives the recursive functions of `Paths` their values
(`Recursion`, `CleanStepType`, `AfterBySteps`). One step of resolution
leaves what `path.Clean` keeps alone (`ResolutionCleans`), for which `WithoutSegments`
moves a prefix past the segments taken out. A path with nothing left to resolve
is what `path.Clean` keeps of it (`SettledIsClean`). And since each step
shortens the path, one can always be settled (`SomethingSettled`). So
whatever a node makes of a path, it is what the gateway looked at: `OneMeaning`,
and from it `DeniesForbidden`.

The second half is the log. Each step of `AccessLog` is one of `Router`
(`RunsRouter`), so `Router`'s invariant may be used, and `LogInv` adds what the
recorder and the request info have to do with what happened: one status sent
for the one response (`SentForAnswer`), the one recorded unless an
informational one came first (`Recorded`), the node named where the handler is
(`Named`), and how the response ended (`EndKept`). A line is compared with that
once, when it is written (`Logged`).
Results: `OneMeaning`, `DeniesForbidden`, `RunsRouter`, `LogImplementsGate`, `LogImplementsReserve`,
`LinesTrue`, `FinalStatus`, `DeniesExactly`.

**RateLimitProofs**, for any rate, burst, keys and concurrent calls. `RefillAccounted`
splits on whether the reading moved back (then `slip` takes up what `last` lost) or on
(then the refill is what `last` gained). `WaitAlmost` says that cutting the wait to ticks loses less than
one of them, `RoundedUp` that whole seconds do not shorten it, and `RetryAfterEnough` puts them together;
`PromiseFunded` says that a tick after the promised time the bucket holds a token.
Results: `Typing`, `RateHolds`, `PromiseKept`.

**ViewNodeProofs**, for any mesh, any allowlists and any number of calls. The
properties speak of `steady`, the nodes that were eligible throughout a call.
`SteadyEligible` connects it with what the code looks at: such a node is a
member in the table the call read, and reachable by now, hence also at the
call's older reading of the clock, since a report that is fresh at one time is fresh
at every earlier one (`FreshBefore` in `MeshProofs`). So it is in `Eligible`
when the choice is made (`SteadyIsEligible`), and the choice respects it.
Results: `Typing`, `OnlyListed`, `OrderKept`, `StaysPut`.

**SessionProofs**, for any labels, secrets, TTL and length of a second. The
invariant says that a cookie is what `Mint` made at its time, with a secret that was in
force then (so that the signature tells the secret), that `Distinct` holds of the
set in force, and what the last answer rests on. `Rounding` is the arithmetic
of whole seconds: an expiry cut down is at most TTL and more than TTL less a second away.
`RevokedIsOut` needs `Distinct`: a secret that is let in has one label, and
if that label had it before too, the label that lost it would have shared it.
Results: `Typing`, `OnlyCurrentKeys`, `CookiesLast`, `RevokedOut`.

**LifecycleProofs**, for any environments, peers and connections. The invariant
says for each place of main what is up (`mesh`, `poller`, `server`), that
a connection can be up only from the listener to the exit, and that one is up
after the drain only when the deadline has passed. `SizeExact` is the
arithmetic of `ParseSize`: a count no greater than the quotient multiplies out
without wrapping, for any width. `OneWayDown` is the safety half of
`StopsWhenTold`: from the drain on, a step of main, the drain's deadline and the
poller's return each lower `StepsDown`, which nothing raises, and no connection is accepted or kept for another request.
`PollerFirst` is the part of `DrainBeforeLeave` about the poller, and `EventsWait` one
that no run repeats.
Results: `Typing`, `DrainFirst`, `PollerFirst`, `AlwaysLeaves`, `OneWayDown`,
`EventsWait`, `SoundMode`, `ExactSizes`.

**Only model-checked.** Liveness under fairness (`BodyPhaseEnds`, `GoneIsDone`,
`GoneIsLogged`, `StopsWhenTold`, `PeersPolled`) is out of the prover's reach, as is ENABLED;
`NeverLoops` and `OneWayDown` prove the part of it that is safety. Induction over data is out of
reach as a rule of inference; where a proof needs it, it goes through the least
counterexample.

## Not modelled

- `Router` over `Picker` with real picks, as one state machine. What `Pick`, `View` and `Allow` answer is left open in `Router`, so its properties hold for whatever they answer, and the two meet in the reservation, where each implements its side of `Reserve`. The product of both is out of TLC's reach at bounds where anything new happens.
- The contents of bodies: alias resolution and the parsing of the model's name, which decide only what `Pick` is asked for.
- `stripCredentials`, `cleanURL`, header rewriting, response headers and the client address: values without control. The wording of errors and log lines.
- Deployment files: not part of the program.
- Floating-point rounding, overflow of `time.Duration`, and NaN in the limiter (`config.go:221-226` accepts it).
- HTTP/2, trailers, upgrades: the forward is one request and one response.
- Paths with letters outside ASCII, and signals other than SIGINT and SIGTERM.
- The constant time of `Lookup` and of the signature's comparison.

What a reader of the models may want to know of the code, although no run
states it:

- `README.md:57` says that deleting a key from `.env` invalidates its cookies "immediately". The process reads its keys once, so it happens at the next start; `RevokedIsOut` and `CurrentKeysOnly` speak of the set in force.
- A key with white space around it is accepted by `keys.Load` and cannot be presented as a bearer, which is trimmed.
- A body limit of the largest 64-bit integer makes the `maxBody+1` of `readBody` wrap, and every body then reads as empty. No property covers it: `SizesExact` is about the limit itself.
- `config.go:83-86` says that `StaleAfter` must comfortably exceed `CapacityPoll`; `Load` accepts any two positive durations.
- A client that goes before any status was written is logged as 200.

## What could come next

A theorem that relates `Picker` and `ViewNode` to one mesh, so that a model-routed
request that falls back to the view node is covered by both.
