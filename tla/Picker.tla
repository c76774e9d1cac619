------------------------------- MODULE Picker -------------------------------
(***************************************************************************)
(* fleet.Picker: which node serves an inference request, and the           *)
(* reservations that keep a burst inside one poll interval from landing    *)
(* on a single free slot.                                                  *)
(*                                                                         *)
(* Pick reads the clock and the member table BEFORE it takes p.mu; the     *)
(* rest of it is one critical section.  A call is therefore three steps,   *)
(* and other calls, polls and the clock move between them.  The callers    *)
(* are the requests of proxy.Router.routeByModel: each holds the           *)
(* reservation while it forwards, gives it back when the forward ends      *)
(* however it ends, and after a dial failure picks once more with the      *)
(* first node excluded.                                                    *)
(***************************************************************************)
EXTENDS Mesh

CONSTANTS
  Callers,
  NoModel,      \* the model of a caller that is not calling
  MaxPicks      \* bound on nextID

ASSUME PickerAssumption ==
  /\ MaxPicks \in Nat
  /\ NoModel \notin Models

VARIABLES
  held,     \* p.held: id -> reservation
  nextID,   \* p.nextID
  rotate,   \* p.rotate
  pc,       \* where each caller is
  call      \* the locals of each caller's call

pickerVars == <<held, nextID, rotate, pc, call>>
vars == <<meshVars, pickerVars>>

Reservation == [node : Names, model : Models, at : Nat]

(* now and members: what the call read before the lock.  exclude: its      *)
(* second argument.  id and node: the reservation it was given.            *)
Call == [model : Models \cup {NoModel}, exclude : SUBSET Names, now : Nat, members : SUBSET Names,
         id : Nat, node : Names \cup {0}]

Forwarding == {"sent", "served", "ended", "unreached"}

(* Every variable has its type, and every id in use was handed out.        *)
TypeOK ==
  /\ MeshTypeOK
  /\ DOMAIN held \subseteq 0 .. nextID - 1
  /\ held \in [DOMAIN held -> Reservation]
  /\ nextID \in Nat
  /\ rotate \in [Models -> Nat]
  /\ pc \in [Callers -> {"idle", "retry", "members", "lock"} \cup Forwarding]
  /\ call \in [Callers -> Call]

-----------------------------------------------------------------------------
(* reservedLocked: the forwards to (n, m) that n's report does not account *)
(* for already.                                                            *)
ReservedAnyModel(n, m) ==
  {i \in DOMAIN held : held[i].node = n /\ held[i].at > report[n].received}
ReservedAtOrAfter(n, m) ==
  {i \in DOMAIN held : /\ held[i].node = n /\ held[i].model = m
                       /\ held[i].at >= report[n].received}
Reserved(n, m) ==
  {i \in DOMAIN held : /\ held[i].node = n /\ held[i].model = m
                       /\ held[i].at > report[n].received}

ReportedBusy(n, m) == {q.id : q \in {r \in report[n].busy : r.model = m}}

(* The free slots Pick ranks a candidate by, never below zero. *)
Free(n, m) ==
  LET left == Slots[n][m] - Cardinality(ReportedBusy(n, m)) - Cardinality(Reserved(n, m))
  IN  IF left < 0 THEN 0 ELSE left

CandidatesUnexcluded(c) ==
  {n \in Reachable(call[c].members, call[c].now) : call[c].model \in report[n].healthy}
Candidates(c) ==
  {n \in Reachable(call[c].members, call[c].now) \ call[c].exclude :
     call[c].model \in report[n].healthy}

(* The candidates tied for the lead: most free slots, then least RTT. *)
Leaders(c) ==
  LET most == {n \in Candidates(c) :
                 \A k \in Candidates(c) : Free(n, call[c].model) >= Free(k, call[c].model)}
  IN  {n \in most : \A k \in most : report[n].rtt <= report[k].rtt}

(* cands[i] of the sorted slice, for i < tied. *)
IsRanked(n, S, i) == n \in S /\ Cardinality({k \in S : k < n}) = i

(* The id of a new reservation. *)
NewIDFromClock(c) == call[c].now
NewIDBefore(c) == nextID - 1
NewID(c) == nextID

TurnNever(m, tied) == rotate[m]
Turn(m, tied) == IF tied > 1 THEN (rotate[m] + 1) % tied ELSE rotate[m]

-----------------------------------------------------------------------------
NoCall == [model |-> NoModel, exclude |-> {}, now |-> 0, members |-> {}, id |-> 0, node |-> 0]

Init ==
  /\ MeshInit
  /\ held = [i \in {} |-> {}]
  /\ nextID = 0
  /\ rotate = [m \in Models |-> 0]
  /\ pc = [c \in Callers |-> "idle"]
  /\ call = [c \in Callers |-> NoCall]

Goto(c, from, to) == pc[c] = from /\ pc' = [pc EXCEPT ![c] = to]

(* Pick(m, exclude) reads the clock. *)
Begun(m, exclude) ==
  [model |-> m, exclude |-> exclude, now |-> clock, members |-> {}, id |-> 0, node |-> 0]

(* Pick returns node n and the release func of reservation i. *)
Given(r, i, n) ==
  [model |-> r.model, exclude |-> r.exclude, now |-> r.now, members |-> r.members,
   id |-> i, node |-> n]

(* The call is over: forget its locals. *)
Forget(c) == call' = [call EXCEPT ![c] = NoCall]

(* A request for some model calls Pick(model, nil): now := p.now(). *)
ReadClock(c) ==
  /\ nextID < MaxPicks
  /\ Goto(c, "idle", "members")
  /\ \E m \in Models : call' = [call EXCEPT ![c] = Begun(m, {})]
  /\ UNCHANGED <<meshVars, held, nextID, rotate>>

(* The retry calls Pick(model, {first node}). *)
ReadClockAgain(c) ==
  /\ nextID < MaxPicks
  /\ Goto(c, "retry", "members")
  /\ call' = [call EXCEPT ![c] = Begun(@.model, {@.node})]
  /\ UNCHANGED <<meshVars, held, nextID, rotate>>

(* members := p.members.Members() *)
ReadMembers(c) ==
  /\ Goto(c, "members", "lock")
  /\ call' = [call EXCEPT ![c].members = alive]
  /\ UNCHANGED <<meshVars, held, nextID, rotate>>

(* The critical section, when no member can serve the model. *)
PickNone(c) ==
  /\ Candidates(c) = {}
  /\ Goto(c, "lock", "idle")
  /\ Forget(c)
  /\ UNCHANGED <<meshVars, held, nextID, rotate>>

(* The critical section, when some can. *)
PickNode(c) ==
  LET m == call[c].model
      tied == Cardinality(Leaders(c))
  IN  /\ nextID < MaxPicks
      /\ Goto(c, "lock", "sent")
      /\ \E n \in Leaders(c) :
           /\ IsRanked(n, Leaders(c), rotate[m] % tied)
           /\ held' = Put(held, NewID(c), [node |-> n, model |-> m, at |-> call[c].now])
           /\ call' = [call EXCEPT ![c] = Given(@, NewID(c), n)]
      /\ nextID' = nextID + 1
      /\ rotate' = [rotate EXCEPT ![m] = Turn(m, tied)]
      /\ UNCHANGED meshVars

(* The request reaches the node it was forwarded to. *)
Arrive(c) ==
  /\ Goto(c, "sent", "served")
  /\ busy' = [busy EXCEPT ![call[c].node] = @ \cup {[id |-> call[c].id, model |-> call[c].model]}]
  /\ UNCHANGED <<clock, alive, poll, report, held, nextID, rotate, call>>

(* The node cannot be dialled: To returns ErrUpstreamUnreachable. *)
DialFails(c) ==
  /\ Goto(c, "sent", "unreached")
  /\ UNCHANGED <<meshVars, held, nextID, rotate, call>>

(* The forward ends in any other way: a response, a 502, a client gone. *)
ForwardEnds(c) ==
  /\ Goto(c, "sent", "ended") \/ Goto(c, "served", "ended")
  /\ UNCHANGED <<meshVars, held, nextID, rotate, call>>

(* forwardHolding's deferred release, which removes exactly its own id. *)
Release(c) ==
  /\ held' = Delete(held, call[c].id)
  /\ \/ Goto(c, "ended", "idle") /\ Forget(c)
     \/ /\ call[c].exclude = {}
        /\ Goto(c, "unreached", "retry")
        /\ UNCHANGED call
     \/ /\ call[c].exclude # {}
        /\ Goto(c, "unreached", "idle")
        /\ Forget(c)
  /\ UNCHANGED <<meshVars, nextID, rotate>>

Step(c) ==
  \/ ReadClock(c) \/ ReadClockAgain(c) \/ ReadMembers(c) \/ PickNone(c) \/ PickNode(c)
  \/ Arrive(c) \/ DialFails(c) \/ ForwardEnds(c) \/ Release(c)

Next ==
  \/ MeshNext /\ UNCHANGED pickerVars
  \/ \E c \in Callers : Step(c)

Spec == Init /\ [][Next]_vars

-----------------------------------------------------------------------------
(* The reservations are exactly the forwards in flight, one each, for the  *)
(* node and model the forward is for: none leaks past the end of its       *)
(* forward, none is dropped or overwritten by a call that ran in between,  *)
(* none is held across a retry's Pick (picker.go:163-174,                  *)
(* router.go:117-127).                                                     *)
HeldExactlyInFlight ==
  /\ DOMAIN held = {call[c].id : c \in {d \in Callers : pc[d] \in Forwarding}}
  /\ \A c \in Callers : pc[c] \in Forwarding =>
       /\ held[call[c].id].node = call[c].node
       /\ held[call[c].id].model = call[c].model
       /\ \A d \in Callers \ {c} : pc[d] \in Forwarding => call[d].id # call[c].id

(* A forward that reservedLocked subtracts from a node's free slots is not *)
(* one the node's report has subtracted already: no request is charged     *)
(* twice (picker.go:181-183).                                              *)
NoDoubleCharge ==
  \A n \in DOMAIN report, m \in Models : Reserved(n, m) \cap ReportedBusy(n, m) = {}

(* A forward started before the report was received that the report does   *)
(* not account for: neither Busy nor reservedLocked counts it.             *)
Uncounted(n, m) ==
  {i \in DOMAIN held : /\ held[i].node = n /\ held[i].model = m
                       /\ held[i].at <= report[n].received
                       /\ i \notin ReportedBusy(n, m)}

(* All the gateway knows of the work on node n for model m: what the node  *)
(* reported and its own forwards, each counted once.                       *)
Known(n, m) ==
  ReportedBusy(n, m) \cup {i \in DOMAIN held : held[i].node = n /\ held[i].model = m}

(* A burst spreads: Pick sends a request to a node all of whose slots are  *)
(* known to be taken only when every other candidate's are too, or when a  *)
(* forward to that node went uncounted (picker.go:33-38, 124-149).         *)
SpreadsBurst ==
  [][\A c \in Callers : pc[c] = "lock" /\ pc'[c] = "sent" =>
       LET n == call'[c].node
           m == call[c].model
       IN  \/ Cardinality(Known(n, m)) < Slots[n][m]
           \/ Uncounted(n, m) # {}
           \/ \A k \in Candidates(c) : Cardinality(Known(k, m)) >= Slots[k][m]]_vars

(* Ties take turns: as long as no other pick of the model comes between,   *)
(* the same nodes tied again would be given another one than the one given *)
(* now, whatever the rotation was left at by ties of other sizes           *)
(* (picker.go:150-159).  Two nodes only tie two at a time; the theorem     *)
(* Rotates is about ties of any size.                                      *)
TakesTurns ==
  [][\A c \in Callers : pc[c] = "lock" /\ pc'[c] = "sent" /\ Cardinality(Leaders(c)) > 1 =>
       LET next == rotate'[call[c].model] % Cardinality(Leaders(c))
       IN  ~IsRanked(call'[c].node, Leaders(c), next)]_vars

(* The node whose reservation c holds, and the one it could not reach. *)
Holds(c) == IF pc[c] \in Forwarding THEN held[call[c].id].node ELSE 0
Spent(c) ==
  IF pc[c] = "retry" THEN call[c].node
  ELSE IF call[c].exclude = {} THEN 0
  ELSE CHOOSE n \in Names : n \in call[c].exclude

Reserving(c) == INSTANCE Reserve WITH Nodes <- Names, None <- 0,
                                      has <- Holds(c), spent <- Spent(c)

(* The picker's side of what Reserve says of a reservation: p.held keeps   *)
(* the node of a caller as it was picked until that caller gives it back,  *)
(* whoever else calls in between, and the second pick is of another node   *)
(* (picker.go:92-104, 111-113, 163-174).                                   *)
KeepsReserve ==
  /\ \A c \in Callers : Reserving(c)!Init
  /\ [][\A c \in Callers : Reserving(c)!Step]_vars

(* What picker.go:181-182 says of the code: a reservation started before   *)
(* the report was received is already counted in that report's Busy.       *)
(* Only requests the node is working on are asked for.                     *)
ReservationCounted ==
  \A i \in DOMAIN held :
    LET n == held[i].node
        q == [id |-> i, model |-> held[i].model]
    IN  n \in DOMAIN report /\ q \in busy[n] /\ held[i].at < report[n].received
          => q \in report[n].busy
=============================================================================
