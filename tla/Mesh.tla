-------------------------------- MODULE Mesh --------------------------------
(***************************************************************************)
(* What the gateway sees of the viiwork mesh: the member table behind      *)
(* fleet.MemberSource and the capacity reports behind fleet.ReportSource.  *)
(* The mesh and the capacity poller are a library that is not under src/;  *)
(* they are modelled from how picker.go and fleet.go use them, and from    *)
(* the fakes of picker_test.go.  The two operators the gateway itself      *)
(* applies to this state, Routable and the freshness test, are here too.   *)
(*                                                                         *)
(* A node answers a poll with the requests it is working on at that        *)
(* moment (Sample), and the gateway records the answer, stamped with its   *)
(* own clock, some time later (Deliver): a report describes the past.      *)
(*                                                                         *)
(* Names are naturals because picker.go compares names with < .            *)
(***************************************************************************)
EXTENDS Integers, FiniteSets

CONSTANTS
  Names,        \* every member of the mesh, this gateway and other gateways included
  Self,         \* this process: Member.Local
  RoleNodes,    \* the members whose Meta.Role is RoleNode
  Models,
  Slots,        \* Slots[n][m]: the requests for model m node n can work on at once
  Healths,      \* the sets of models a node may report a healthy backend for
  RTTs,         \* the round-trip times a poll may measure
  StaleAfter,   \* VIIWORK_GW_STALE_AFTER
  Leavers,      \* the members that may leave and join again
  MaxClock      \* bound on the clock

ASSUME MeshAssumption ==
  /\ Names \subseteq Nat \ {0}
  /\ IsFiniteSet(Names)
  /\ Self \in Names
  /\ RoleNodes \subseteq Names
  /\ Slots \in [Names -> [Models -> Nat]]
  /\ Healths \subseteq SUBSET Models
  /\ RTTs \subseteq Nat
  /\ StaleAfter \in Nat
  /\ Leavers \subseteq Names \ {Self}
  /\ MaxClock \in Nat

VARIABLES
  clock,    \* time.Now
  alive,    \* the names whose Member.State is MemberAlive
  busy,     \* busy[n]: the requests of this gateway node n is working on
  poll,     \* poll[n]: the answer of n on its way to the poller, if n is in the domain
  report    \* report[n]: what ReportSource.Report(n) returns, if n is in the domain

meshVars == <<clock, alive, busy, poll, report>>

Request == [id : Nat, model : Models]

Answer == [busy : SUBSET Request, healthy : SUBSET Models]

Report == [received : Nat, busy : SUBSET Request, healthy : SUBSET Models, rtt : Nat]

MeshTypeOK ==
  /\ clock \in Nat
  /\ alive \subseteq Names
  /\ busy \in [Names -> SUBSET Request]
  /\ DOMAIN poll \subseteq Names
  /\ poll \in [DOMAIN poll -> Answer]
  /\ DOMAIN report \subseteq Names
  /\ report \in [DOMAIN report -> Report]

(* An assignment to a key of a Go map, and delete(m, k). *)
Put(f, k, v) == [x \in DOMAIN f \cup {k} |-> IF x = k THEN v ELSE f[x]]
Delete(f, k) == [x \in DOMAIN f \ {k} |-> f[x]]

-----------------------------------------------------------------------------
(* The tests the picker makes on a member and on its report. *)

(* picker.go routable: alive, a node rather than a gateway, and not this process. *)
RoutableAnyRole(members, n) == n \in members /\ n # Self
Routable(members, n) == n \in members /\ n # Self /\ n \in RoleNodes

(* capacity.Fresh(rep, now, staleAfter). *)
Fresh(rep, now) == now - rep.received <= StaleAfter

(* The members that are routable and have a fresh report. *)
Reachable(members, now) ==
  {n \in DOMAIN report : Routable(members, n) /\ Fresh(report[n], now)}

-----------------------------------------------------------------------------
MeshInit ==
  /\ clock = 0
  /\ alive = Names
  /\ busy = [n \in Names |-> {}]
  /\ poll = [n \in {} |-> {}]
  /\ report = [n \in {} |-> {}]

Tick ==
  /\ clock < MaxClock
  /\ clock' = clock + 1
  /\ UNCHANGED <<alive, busy, poll, report>>

Join(n) ==
  /\ n \in Leavers \ alive
  /\ alive' = alive \cup {n}
  /\ UNCHANGED <<clock, busy, poll, report>>

Leave(n) ==
  /\ n \in Leavers \cap alive
  /\ alive' = alive \ {n}
  /\ UNCHANGED <<clock, busy, poll, report>>

Sample(n) ==
  /\ n \in alive \ {Self}
  /\ n \notin DOMAIN poll
  /\ \E h \in Healths : poll' = Put(poll, n, [busy |-> busy[n], healthy |-> h])
  /\ UNCHANGED <<clock, alive, busy, report>>

Deliver(n) ==
  /\ n \in DOMAIN poll
  /\ \E rtt \in RTTs :
       report' = Put(report, n, [received |-> clock, busy |-> poll[n].busy,
                                 healthy |-> poll[n].healthy, rtt |-> rtt])
  /\ poll' = Delete(poll, n)
  /\ UNCHANGED <<clock, alive, busy>>

LosePoll(n) ==
  /\ n \in DOMAIN poll
  /\ poll' = Delete(poll, n)
  /\ UNCHANGED <<clock, alive, busy, report>>

(* A node finishes a request, whether or not the gateway still waits for it. *)
NodeFinishes(n) ==
  /\ \E q \in busy[n] : busy' = [busy EXCEPT ![n] = @ \ {q}]
  /\ UNCHANGED <<clock, alive, poll, report>>

MeshNext ==
  \/ Tick
  \/ \E n \in Names :
       Join(n) \/ Leave(n) \/ Sample(n) \/ Deliver(n) \/ LosePoll(n) \/ NodeFinishes(n)
=============================================================================
