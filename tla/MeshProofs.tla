----------------------------- MODULE MeshProofs -----------------------------
(* What Picker and ViewNode both need to know of the mesh. *)
EXTENDS Mesh, TLAPS

(* A node has so many slots for a model. *)
LEMMA SlotsTyped ==
  ASSUME MeshAssumption, NEW n \in Names, NEW m \in Models
  PROVE  Slots[n][m] \in Nat
<1>1. Slots \in [Names -> [Models -> Nat]]
  BY Zenon DEF MeshAssumption
<1> QED
  BY <1>1

(* What the mesh does by itself keeps its types. *)
LEMMA MeshTyped ==
  ASSUME MeshAssumption, MeshTypeOK, MeshNext
  PROVE  MeshTypeOK'
<1>1. CASE Tick
  BY <1>1 DEF Tick, MeshTypeOK
<1>2. ASSUME NEW n \in Names, Join(n) \/ Leave(n) PROVE MeshTypeOK'
  BY <1>2, MeshAssumption DEF Join, Leave, MeshTypeOK, MeshAssumption
<1>3. ASSUME NEW n \in Names, Sample(n) PROVE MeshTypeOK'
  <2>1. PICK h \in Healths : poll' = Put(poll, n, [busy |-> busy[n], healthy |-> h])
    BY <1>3 DEF Sample
  <2>2. [busy |-> busy[n], healthy |-> h] \in Answer
    BY MeshAssumption DEF MeshAssumption, MeshTypeOK, Answer
  <2>3. DOMAIN poll' \subseteq Names /\ poll' \in [DOMAIN poll' -> Answer]
    BY <2>1, <2>2 DEF Put, MeshTypeOK
  <2> QED
    BY <1>3, <2>3 DEF Sample, MeshTypeOK
<1>4. ASSUME NEW n \in Names, Deliver(n) PROVE MeshTypeOK'
  <2>1. PICK rtt \in RTTs :
          report' = Put(report, n, [received |-> clock, busy |-> poll[n].busy,
                                    healthy |-> poll[n].healthy, rtt |-> rtt])
    BY <1>4 DEF Deliver
  <2>2. [received |-> clock, busy |-> poll[n].busy, healthy |-> poll[n].healthy, rtt |-> rtt]
          \in Report
    BY <1>4, MeshAssumption DEF MeshAssumption, Deliver, MeshTypeOK, Answer, Report
  <2>3. DOMAIN report' \subseteq Names /\ report' \in [DOMAIN report' -> Report]
    BY <2>1, <2>2 DEF Put, MeshTypeOK
  <2>4. DOMAIN poll' \subseteq Names /\ poll' \in [DOMAIN poll' -> Answer]
    BY <1>4 DEF Deliver, Delete, MeshTypeOK
  <2> QED
    BY <1>4, <2>3, <2>4 DEF Deliver, MeshTypeOK
<1>5. ASSUME NEW n \in Names, LosePoll(n) PROVE MeshTypeOK'
  <2>1. DOMAIN poll' \subseteq Names /\ poll' \in [DOMAIN poll' -> Answer]
    BY <1>5 DEF LosePoll, Delete, MeshTypeOK
  <2> QED
    BY <1>5, <2>1 DEF LosePoll, MeshTypeOK
<1>6. ASSUME NEW n \in Names, NodeFinishes(n) PROVE MeshTypeOK'
  BY <1>6 DEF NodeFinishes, MeshTypeOK
<1> QED
  BY <1>1, <1>2, <1>3, <1>4, <1>5, <1>6 DEF MeshNext

(* A report that is fresh now was fresh at any earlier reading of the      *)
(* clock, a later report being newer.                                      *)
LEMMA FreshBefore ==
  ASSUME MeshAssumption, MeshTypeOK, NEW n \in Reachable(alive, clock),
         NEW members, n \in members, NEW now \in Nat, now <= clock
  PROVE  n \in Reachable(members, now)
<1>1. n \in DOMAIN report /\ n # Self /\ n \in RoleNodes /\ clock - report[n].received <= StaleAfter
  BY DEF Reachable, Routable, Fresh
<1>2. report[n].received \in Nat /\ clock \in Nat /\ StaleAfter \in Nat
  BY <1>1 DEF MeshTypeOK, Report, MeshAssumption
<1>3. now - report[n].received <= StaleAfter
  BY <1>1, <1>2
<1> QED
  BY <1>1, <1>3 DEF Reachable, Routable, Fresh

(* The clock does not go back. *)
LEMMA ClockGrows ==
  ASSUME MeshTypeOK, MeshNext
  PROVE  clock <= clock'
BY DEF MeshTypeOK, MeshNext, Tick, Join, Leave, Sample, Deliver, LosePoll, NodeFinishes
=============================================================================
