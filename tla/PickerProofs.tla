---------------------------- MODULE PickerProofs ----------------------------
(***************************************************************************)
(* Proofs about Picker, for any number of callers, nodes and models and    *)
(* any capacities, clocks and bounds.                                      *)
(***************************************************************************)
EXTENDS Picker, MeshProofs, FiniteSetTheorems, WellFoundedInduction

(* A call past its first step is for a model, and a forward has a node. *)
CallsKnown ==
  \A c \in Callers :
    /\ pc[c] # "idle" => call[c].model \in Models
    /\ pc[c] \in Forwarding \cup {"retry"} => call[c].node \in Names

(* A forward in flight holds a reservation of its own. *)
ForwardHolds(c) ==
  /\ call[c].id \in DOMAIN held
  /\ held[call[c].id].node = call[c].node
  /\ held[call[c].id].model = call[c].model

ForwardsHold ==
  \A c \in Callers : pc[c] \in Forwarding =>
    /\ ForwardHolds(c)
    /\ \A d \in Callers : d # c /\ pc[d] \in Forwarding => call[d].id # call[c].id

(* A reservation is held for a forward in flight. *)
HeldForForward ==
  \A i \in DOMAIN held : \E c \in Callers : pc[c] \in Forwarding /\ call[c].id = i

(* A node only ever sees ids that were handed out. *)
Used(S) == \A q \in S : q.id < nextID

IdsUsed ==
  /\ \A n \in Names : Used(busy[n])
  /\ \A n \in DOMAIN poll : Used(poll[n].busy)
  /\ \A n \in DOMAIN report : Used(report[n].busy)

(* Clock readings are of the past. *)
ReadingsPast ==
  /\ \A c \in Callers : call[c].now <= clock
  /\ \A i \in DOMAIN held : held[i].at <= clock

(* A held reservation that a report counts was started before the report *)
(* was received.                                                         *)
CountedIsOlder ==
  \A n \in DOMAIN report : \A q \in report[n].busy :
    q.id \in DOMAIN held => held[q.id].at <= report[n].received

IInv ==
  /\ TypeOK
  /\ CallsKnown
  /\ ForwardsHold
  /\ HeldForForward
  /\ IdsUsed
  /\ ReadingsPast
  /\ CountedIsOlder

-----------------------------------------------------------------------------
(* A leader is a candidate, a candidate a routable node with a report. *)
LEMMA LeadersReported ==
  ASSUME NEW c \in Callers, MeshTypeOK
  PROVE  Leaders(c) \subseteq DOMAIN report /\ Leaders(c) \subseteq Names
  BY DEF Leaders, Candidates, Reachable, MeshTypeOK

(* What PickNode does, with its choice and the new reservation named. *)
LEMMA PickNodeStep ==
  ASSUME TypeOK, NEW c \in Callers, PickNode(c)
  PROVE  \E n \in Names :
           /\ n \in DOMAIN report
           /\ pc[c] = "lock" /\ pc' = [pc EXCEPT ![c] = "sent"]
           /\ held' = Put(held, nextID, [node |-> n, model |-> call[c].model, at |-> call[c].now])
           /\ call' = [call EXCEPT ![c] = Given(call[c], nextID, n)]
           /\ nextID' = nextID + 1
           /\ UNCHANGED meshVars
<1>1. MeshTypeOK
  BY DEF TypeOK
<1> QED
  BY <1>1, LeadersReported DEF PickNode, IsRanked, Goto, NewID

(* The variables of the mesh keep their types in a step of a caller. *)
LEMMA MeshTypedInCall ==
  ASSUME TypeOK, CallsKnown, NEW c \in Callers, Step(c)
  PROVE  MeshTypeOK'
<1> USE DEF TypeOK
<1>1. CASE Arrive(c)
  <2>1. [id |-> call[c].id, model |-> call[c].model] \in Request
    BY <1>1 DEF Arrive, Goto, CallsKnown, Call, Request
  <2> QED
    BY <1>1, <2>1 DEF Arrive, MeshTypeOK
<1>2. CASE ~Arrive(c)
  <2>1. UNCHANGED meshVars
    BY <1>2 DEF Step, ReadClock, ReadClockAgain, ReadMembers, PickNone, PickNode, DialFails,
                ForwardEnds, Release
  <2> QED
    BY <2>1 DEF meshVars, MeshTypeOK
<1> QED
  BY <1>1, <1>2

(* The type invariant is preserved. *)
LEMMA TypeOKStep ==
  ASSUME MeshAssumption, PickerAssumption, IInv, [Next]_vars
  PROVE  TypeOK'
<1> USE DEF IInv
<1>1. CASE MeshNext /\ UNCHANGED pickerVars
  <2>1. MeshTypeOK'
    BY <1>1, MeshTyped DEF TypeOK
  <2> QED
    BY <1>1, <2>1 DEF TypeOK, pickerVars
<1>2. ASSUME NEW c \in Callers, Step(c) PROVE TypeOK'
  <2>m. MeshTypeOK'
    BY <1>2, MeshTypedInCall
  <2>c. call[c] \in Call /\ NoCall \in Call
    BY DEF TypeOK, NoCall, Call
  <2>1. CASE ReadClock(c)
    BY <2>1, <2>m, <2>c DEF ReadClock, Goto, Begun, TypeOK, Call, MeshTypeOK
  <2>2. CASE ReadClockAgain(c)
    BY <2>2, <2>m, <2>c DEF ReadClockAgain, Goto, Begun, TypeOK, Call, MeshTypeOK, CallsKnown
  <2>3. CASE ReadMembers(c)
    BY <2>3, <2>m, <2>c DEF ReadMembers, Goto, TypeOK, Call, MeshTypeOK
  <2>4. CASE PickNone(c)
    BY <2>4, <2>m, <2>c DEF PickNone, Goto, Forget, TypeOK
  <2>5. CASE PickNode(c)
    <3>1. PICK n \in Names :
            /\ pc[c] = "lock" /\ pc' = [pc EXCEPT ![c] = "sent"]
            /\ held' = Put(held, nextID, [node |-> n, model |-> call[c].model, at |-> call[c].now])
            /\ call' = [call EXCEPT ![c] = Given(call[c], nextID, n)]
            /\ nextID' = nextID + 1
      BY <2>5, PickNodeStep
    <3>2. [node |-> n, model |-> call[c].model, at |-> call[c].now] \in Reservation
      BY <3>1, <2>c DEF CallsKnown, Call, Reservation
    <3>3. DOMAIN held' \subseteq 0 .. nextID' - 1 /\ held' \in [DOMAIN held' -> Reservation]
      BY <3>1, <3>2 DEF TypeOK, Put
    <3>4. rotate' \in [Models -> Nat]
      <4>1. call[c].model \in Models
        BY <3>1 DEF CallsKnown
      <4>2. Cardinality(Leaders(c)) \in Nat
        BY LeadersReported, FS_Subset, FS_CardinalityType, MeshAssumption DEF MeshAssumption, TypeOK
      <4>3. Turn(call[c].model, Cardinality(Leaders(c))) \in Nat
        BY <4>1, <4>2 DEF Turn, TypeOK
      <4> QED
        BY <2>5, <4>1, <4>3 DEF PickNode, TypeOK
    <3> QED
      BY <3>1, <3>3, <3>4, <2>m, <2>c DEF Given, TypeOK, Call, Forwarding
  <2>6. CASE Arrive(c)
    BY <2>6, <2>m DEF Arrive, Goto, TypeOK, Forwarding
  <2>7. CASE DialFails(c)
    BY <2>7, <2>m DEF DialFails, Goto, TypeOK, Forwarding
  <2>8. CASE ForwardEnds(c)
    BY <2>8, <2>m DEF ForwardEnds, Goto, TypeOK, Forwarding
  <2>9. CASE Release(c)
    <3>1. DOMAIN held' \subseteq DOMAIN held /\ held' \in [DOMAIN held' -> Reservation]
      BY <2>9 DEF Release, Delete, TypeOK
    <3>2. pc' \in [Callers -> {"idle", "retry", "members", "lock"} \cup Forwarding]
      BY <2>9 DEF Release, Goto, TypeOK
    <3>3. call' \in [Callers -> Call]
      BY <2>9, <2>c DEF Release, Forget, TypeOK
    <3>4. UNCHANGED <<nextID, rotate>>
      BY <2>9 DEF Release
    <3> QED
      BY <3>1, <3>2, <3>3, <3>4, <2>m DEF TypeOK
  <2> QED
    BY <1>2, <2>1, <2>2, <2>3, <2>4, <2>5, <2>6, <2>7, <2>8, <2>9 DEF Step
<1>3. CASE UNCHANGED vars
  BY <1>3 DEF vars, meshVars, pickerVars, TypeOK, MeshTypeOK
<1> QED
  BY <1>1, <1>2, <1>3 DEF Next

-----------------------------------------------------------------------------
(* The rest of the inductive invariant, one part at a time. *)

(* A call keeps the model it was made for until it is over. *)
LEMMA CallsKnownStep ==
  ASSUME IInv, [Next]_vars
  PROVE  CallsKnown'
<1> USE DEF IInv
<1>1. CASE UNCHANGED pickerVars
  BY <1>1 DEF pickerVars, CallsKnown, Forwarding
<1>2. ASSUME NEW c \in Callers, Step(c) PROVE CallsKnown'
  <2>t. call \in [Callers -> Call] /\ pc \in [Callers -> {"idle", "retry", "members", "lock"} \cup Forwarding]
    BY DEF TypeOK
  <2>1. CASE ReadClock(c)
    BY <2>1, <2>t DEF ReadClock, Goto, Begun, CallsKnown, Forwarding
  <2>2. CASE ReadClockAgain(c)
    BY <2>2, <2>t DEF ReadClockAgain, Goto, Begun, CallsKnown, Forwarding
  <2>3. CASE ReadMembers(c)
    <3>1. call'[c].model = call[c].model /\ call'[c].node = call[c].node
      BY <2>3, <2>t DEF ReadMembers, Call
    <3> QED
      BY <2>3, <2>t, <3>1 DEF ReadMembers, Goto, CallsKnown, Forwarding
  <2>4. CASE PickNone(c)
    BY <2>4, <2>t DEF PickNone, Goto, Forget, CallsKnown, Forwarding
  <2>5. CASE PickNode(c)
    <3>1. PICK n \in Names :
            /\ pc[c] = "lock" /\ pc' = [pc EXCEPT ![c] = "sent"]
            /\ call' = [call EXCEPT ![c] = Given(call[c], nextID, n)]
      BY <2>5, PickNodeStep
    <3> QED
      BY <3>1, <2>t DEF Given, CallsKnown, Forwarding
  <2>6. CASE Arrive(c) \/ DialFails(c) \/ ForwardEnds(c)
    BY <2>6, <2>t DEF Arrive, DialFails, ForwardEnds, Goto, CallsKnown, Forwarding
  <2>7. CASE Release(c)
    BY <2>7, <2>t DEF Release, Goto, Forget, CallsKnown, Forwarding
  <2> QED
    BY <1>2, <2>1, <2>2, <2>3, <2>4, <2>5, <2>6, <2>7 DEF Step
<1> QED
  BY <1>1, <1>2 DEF Next, vars

(* Steps that change no reservation and no call of a forward in flight. *)
LEMMA ForwardsKept ==
  ASSUME ForwardsHold, HeldForForward, UNCHANGED held,
         \A c \in Callers : (pc'[c] \in Forwarding <=> pc[c] \in Forwarding),
         \A c \in Callers : pc[c] \in Forwarding => call'[c] = call[c]
  PROVE  ForwardsHold' /\ HeldForForward'
  BY DEF ForwardsHold, HeldForForward, ForwardHolds

(* Each forward keeps a reservation of its own, and each reservation its   *)
(* forward: PickNode adds one of each, Release removes one of each.        *)
LEMMA ForwardsStep ==
  ASSUME IInv, [Next]_vars
  PROVE  ForwardsHold' /\ HeldForForward'
<1> USE DEF IInv
<1>1. CASE UNCHANGED pickerVars
  BY <1>1, ForwardsKept DEF pickerVars
<1>2. ASSUME NEW c \in Callers, Step(c) PROVE ForwardsHold' /\ HeldForForward'
  <2>t. /\ call \in [Callers -> Call]
        /\ pc \in [Callers -> {"idle", "retry", "members", "lock"} \cup Forwarding]
        /\ nextID \in Nat /\ DOMAIN held \subseteq 0 .. nextID - 1
    BY DEF TypeOK
  <2>1. CASE ReadClock(c)
    BY <2>1, <2>t, ForwardsKept DEF ReadClock, Goto, Forwarding
  <2>2. CASE ReadClockAgain(c)
    BY <2>2, <2>t, ForwardsKept DEF ReadClockAgain, Goto, Forwarding
  <2>3. CASE ReadMembers(c)
    BY <2>3, <2>t, ForwardsKept DEF ReadMembers, Goto, Forwarding
  <2>4. CASE PickNone(c)
    BY <2>4, <2>t, ForwardsKept DEF PickNone, Goto, Forget, Forwarding
  <2>5. CASE PickNode(c)
    <3>1. PICK n \in Names :
            /\ pc[c] = "lock" /\ pc' = [pc EXCEPT ![c] = "sent"]
            /\ held' = Put(held, nextID, [node |-> n, model |-> call[c].model, at |-> call[c].now])
            /\ call' = [call EXCEPT ![c] = Given(call[c], nextID, n)]
      BY <2>5, PickNodeStep
    <3>2. nextID \notin DOMAIN held
      BY <2>t
    <3>3. /\ DOMAIN held' = DOMAIN held \cup {nextID}
          /\ held'[nextID] = [node |-> n, model |-> call[c].model, at |-> call[c].now]
          /\ \A i \in DOMAIN held : held'[i] = held[i]
      BY <3>1, <3>2 DEF Put
    <3>4. call'[c].id = nextID /\ call'[c].node = n /\ call'[c].model = call[c].model
      BY <3>1, <2>t DEF Given
    <3>5. \A d \in Callers \ {c} : call'[d] = call[d] /\ pc'[d] = pc[d]
      BY <3>1, <2>t
    <3>6. pc'[c] \in Forwarding /\ pc[c] \notin Forwarding
      BY <3>1, <2>t DEF Forwarding
    <3>7. ForwardsHold'
      BY <3>2, <3>3, <3>4, <3>5, <3>6 DEF ForwardsHold, ForwardHolds
    <3>8. HeldForForward'
      BY <3>3, <3>4, <3>5, <3>6 DEF HeldForForward
    <3> QED
      BY <3>7, <3>8
  <2>6. CASE Arrive(c) \/ DialFails(c) \/ ForwardEnds(c)
    BY <2>6, <2>t, ForwardsKept DEF Arrive, DialFails, ForwardEnds, Goto, Forwarding
  <2>7. CASE Release(c)
    <3>1. /\ DOMAIN held' = DOMAIN held \ {call[c].id}
          /\ \A i \in DOMAIN held' : held'[i] = held[i]
      BY <2>7 DEF Release, Delete
    <3>2. pc[c] \in Forwarding /\ pc'[c] \notin Forwarding
      BY <2>7, <2>t DEF Release, Goto, Forwarding
    <3>3. \A d \in Callers \ {c} : call'[d] = call[d] /\ pc'[d] = pc[d]
      BY <2>7, <2>t DEF Release, Goto, Forget
    <3>4. ForwardsHold'
      BY <3>1, <3>2, <3>3 DEF ForwardsHold, ForwardHolds
    <3>5. HeldForForward'
      BY <3>1, <3>2, <3>3 DEF HeldForForward, ForwardsHold
    <3> QED
      BY <3>4, <3>5
  <2> QED
    BY <1>2, <2>1, <2>2, <2>3, <2>4, <2>5, <2>6, <2>7 DEF Step
<1> QED
  BY <1>1, <1>2 DEF Next, vars

(* What a caller's step does to the ids handed out and to the readings. *)
LEMMA CallStepGrows ==
  ASSUME IInv, NEW c \in Callers, Step(c)
  PROVE  /\ nextID' \in Nat /\ nextID <= nextID'
         /\ UNCHANGED <<clock, poll, report>>
<1> USE DEF IInv
<1>0. nextID \in Nat
  BY DEF TypeOK
<1>1. CASE PickNode(c)
  <2>1. nextID' = nextID + 1 /\ UNCHANGED meshVars
    BY <1>1, PickNodeStep
  <2> QED
    BY <1>0, <2>1 DEF meshVars
<1>2. CASE ~PickNode(c)
  BY <1>0, <1>2 DEF Step, ReadClock, ReadClockAgain, ReadMembers, PickNone, Arrive, DialFails,
                    ForwardEnds, Release, meshVars
<1> QED
  BY <1>1, <1>2

(* Only a request that was given an id reaches a node, a poll or a report. *)
LEMMA IdsUsedStep ==
  ASSUME IInv, [Next]_vars
  PROVE  IdsUsed'
<1> USE DEF IInv
<1>t. MeshTypeOK /\ nextID \in Nat
  BY DEF TypeOK
<1>1. CASE MeshNext /\ UNCHANGED pickerVars
  <2>0. nextID' = nextID
    BY <1>1 DEF pickerVars
  <2>1. CASE Tick
    BY <2>0, <2>1 DEF Tick, IdsUsed, Used
  <2>2. ASSUME NEW n \in Names, Join(n) \/ Leave(n) PROVE IdsUsed'
    BY <2>0, <2>2 DEF Join, Leave, IdsUsed, Used
  <2>3. ASSUME NEW n \in Names, Sample(n) PROVE IdsUsed'
    BY <2>0, <2>3 DEF Sample, Put, IdsUsed, Used
  <2>4. ASSUME NEW n \in Names, Deliver(n) PROVE IdsUsed'
    BY <2>0, <2>4 DEF Deliver, Put, Delete, IdsUsed, Used
  <2>5. ASSUME NEW n \in Names, LosePoll(n) PROVE IdsUsed'
    BY <2>0, <2>5 DEF LosePoll, Delete, IdsUsed, Used
  <2>6. ASSUME NEW n \in Names, NodeFinishes(n) PROVE IdsUsed'
    BY <2>0, <2>6, <1>t DEF NodeFinishes, IdsUsed, Used, MeshTypeOK
  <2> QED
    BY <1>1, <2>1, <2>2, <2>3, <2>4, <2>5, <2>6 DEF MeshNext
<1>2. ASSUME NEW c \in Callers, Step(c) PROVE IdsUsed'
  <2>1. nextID' \in Nat /\ nextID <= nextID' /\ UNCHANGED <<poll, report>>
    BY <1>2, CallStepGrows
  <2>2. (\A n \in Names : Used(busy[n]))'
    <3>1. CASE Arrive(c)
      <4>1. call[c].id < nextID
        BY <3>1 DEF Arrive, Goto, Forwarding, ForwardsHold, ForwardHolds, TypeOK
      <4> QED
        BY <3>1, <4>1, <1>t DEF Arrive, IdsUsed, Used, MeshTypeOK
    <3>2. CASE ~Arrive(c)
      <4>1. busy' = busy
        BY <1>2, <3>2 DEF Step, ReadClock, ReadClockAgain, ReadMembers, PickNone, PickNode,
                          DialFails, ForwardEnds, Release, meshVars
      <4> QED
        BY <4>1, <2>1, <1>t DEF IdsUsed, Used, MeshTypeOK, Request
    <3> QED
      BY <3>1, <3>2
  <2>3. (\A n \in DOMAIN poll : Used(poll[n].busy))'
    BY <2>1, <1>t DEF IdsUsed, Used, MeshTypeOK, Answer, Request
  <2>4. (\A n \in DOMAIN report : Used(report[n].busy))'
    BY <2>1, <1>t DEF IdsUsed, Used, MeshTypeOK, Report, Request
  <2> QED
    BY <2>2, <2>3, <2>4 DEF IdsUsed
<1>3. CASE UNCHANGED vars
  BY <1>3 DEF vars, meshVars, pickerVars, IdsUsed, Used
<1> QED
  BY <1>1, <1>2, <1>3 DEF Next

(* The clock only moves forward, and now is read from it. *)
LEMMA ReadingsPastStep ==
  ASSUME IInv, [Next]_vars
  PROVE  ReadingsPast'
<1> USE DEF IInv
<1>t. /\ clock \in Nat
      /\ call \in [Callers -> Call]
      /\ \A i \in DOMAIN held : held[i].at \in Nat
      /\ \A c \in Callers : call[c].now \in Nat
  BY DEF TypeOK, MeshTypeOK, Reservation, Call
<1>1. CASE MeshNext /\ UNCHANGED pickerVars
  <2>1. clock' = clock \/ clock' = clock + 1
    BY <1>1 DEF MeshNext, Tick, Join, Leave, Sample, Deliver, LosePoll, NodeFinishes
  <2> QED
    BY <1>1, <2>1, <1>t DEF pickerVars, ReadingsPast
<1>2. ASSUME NEW c \in Callers, Step(c) PROVE ReadingsPast'
  <2>0. clock' = clock
    BY <1>2, CallStepGrows
  <2>1. CASE ReadClock(c) \/ ReadClockAgain(c)
    BY <2>0, <2>1, <1>t DEF ReadClock, ReadClockAgain, Begun, ReadingsPast
  <2>2. CASE ReadMembers(c)
    <3>1. call'[c].now = call[c].now
      BY <2>2, <1>t DEF ReadMembers, Call
    <3> QED
      BY <2>0, <2>2, <3>1, <1>t DEF ReadMembers, ReadingsPast
  <2>3. CASE PickNone(c)
    BY <2>0, <2>3, <1>t DEF PickNone, Forget, NoCall, ReadingsPast
  <2>4. CASE PickNode(c)
    <3>1. PICK n \in Names :
            /\ held' = Put(held, nextID, [node |-> n, model |-> call[c].model, at |-> call[c].now])
            /\ call' = [call EXCEPT ![c] = Given(call[c], nextID, n)]
      BY <2>4, PickNodeStep
    <3>2. \A d \in Callers : call'[d].now = call[d].now
      BY <3>1, <1>t DEF Given
    <3>3. \A i \in DOMAIN held' : held'[i].at <= clock
      BY <3>1, <1>t DEF Put, ReadingsPast
    <3> QED
      BY <2>0, <3>2, <3>3 DEF ReadingsPast
  <2>5. CASE Arrive(c) \/ DialFails(c) \/ ForwardEnds(c)
    BY <2>0, <2>5 DEF Arrive, DialFails, ForwardEnds, ReadingsPast
  <2>6. CASE Release(c)
    BY <2>0, <2>6, <1>t DEF Release, Delete, Forget, NoCall, ReadingsPast
  <2> QED
    BY <1>2, <2>1, <2>2, <2>3, <2>4, <2>5, <2>6 DEF Step
<1>3. CASE UNCHANGED vars
  BY <1>3 DEF vars, meshVars, pickerVars, ReadingsPast
<1> QED
  BY <1>1, <1>2, <1>3 DEF Next

(* A report is stamped when it is delivered, after everything it counts was *)
(* started; a new reservation is in no report yet.                         *)
LEMMA CountedIsOlderStep ==
  ASSUME IInv, [Next]_vars
  PROVE  CountedIsOlder'
<1> USE DEF IInv
<1>1. CASE MeshNext /\ UNCHANGED pickerVars
  <2>0. held' = held
    BY <1>1 DEF pickerVars
  <2>1. ASSUME NEW n \in Names, Deliver(n) PROVE CountedIsOlder'
    <3>1. report'[n].received = clock /\ report'[n].busy = poll[n].busy
      BY <2>1 DEF Deliver, Put
    <3>2. \A k \in DOMAIN report' : k # n => k \in DOMAIN report /\ report'[k] = report[k]
      BY <2>1 DEF Deliver, Put
    <3> QED
      BY <2>0, <3>1, <3>2 DEF CountedIsOlder, ReadingsPast
  <2>2. CASE ~\E n \in Names : Deliver(n)
    BY <1>1, <2>0, <2>2 DEF MeshNext, Tick, Join, Leave, Sample, LosePoll, NodeFinishes,
                            CountedIsOlder
  <2> QED
    BY <2>1, <2>2
<1>2. ASSUME NEW c \in Callers, Step(c) PROVE CountedIsOlder'
  <2>0. report' = report
    BY <1>2, CallStepGrows
  <2>1. CASE PickNode(c)
    <3>1. \A i \in DOMAIN held' : i = nextID \/ (i \in DOMAIN held /\ held'[i] = held[i])
      BY <2>1, PickNodeStep DEF Put
    <3>2. \A n \in DOMAIN report : \A q \in report[n].busy : q.id # nextID
      BY DEF IdsUsed, Used, TypeOK, MeshTypeOK, Report, Request
    <3> QED
      BY <2>0, <3>1, <3>2 DEF CountedIsOlder
  <2>2. CASE Release(c)
    BY <2>0, <2>2 DEF Release, Delete, CountedIsOlder
  <2>3. CASE ~PickNode(c) /\ ~Release(c)
    <3>1. held' = held
      BY <1>2, <2>3 DEF Step, ReadClock, ReadClockAgain, ReadMembers, PickNone, Arrive, DialFails,
                        ForwardEnds
    <3> QED
      BY <2>0, <3>1 DEF CountedIsOlder
  <2> QED
    BY <2>1, <2>2, <2>3
<1>3. CASE UNCHANGED vars
  BY <1>3 DEF vars, meshVars, pickerVars, CountedIsOlder
<1> QED
  BY <1>1, <1>2, <1>3 DEF Next

(* The inductive invariant holds of the initial state. *)
LEMMA IInvInit ==
  ASSUME MeshAssumption, PickerAssumption, Init
  PROVE  IInv
<1>1. MeshTypeOK
  BY DEF Init, MeshInit, MeshTypeOK, MeshAssumption
<1>2. TypeOK
  BY <1>1 DEF Init, TypeOK, NoCall, Call
<1>3. CallsKnown /\ ForwardsHold /\ HeldForForward
  BY DEF Init, CallsKnown, ForwardsHold, HeldForForward, Forwarding
<1>4. IdsUsed /\ ReadingsPast /\ CountedIsOlder
  BY DEF Init, MeshInit, NoCall, IdsUsed, Used, ReadingsPast, CountedIsOlder
<1> QED
  BY <1>2, <1>3, <1>4 DEF IInv

(* Every step keeps the inductive invariant. *)
LEMMA IInvStep ==
  ASSUME MeshAssumption, PickerAssumption, IInv, [Next]_vars
  PROVE  IInv'
BY TypeOKStep, CallsKnownStep, ForwardsStep, IdsUsedStep, ReadingsPastStep, CountedIsOlderStep
   DEF IInv

(* The inductive invariant holds in every reachable state. *)
THEOREM Invariance == Spec => []IInv
<1>1. Init => IInv
  BY IInvInit, MeshAssumption, PickerAssumption
<1>2. IInv /\ [Next]_vars => IInv'
  BY IInvStep, MeshAssumption, PickerAssumption
<1> QED
  BY <1>1, <1>2, PTL DEF Spec

-----------------------------------------------------------------------------
(* Type correctness, with every reservation's id below nextID: an id that  *)
(* Pick hands out was never in p.held before (picker.go:163-166).          *)
THEOREM Typing == Spec => []TypeOK
<1>1. IInv => TypeOK
  BY DEF IInv
<1> QED
  BY <1>1, Invariance, PTL

(* For any number of concurrent requests, p.held is exactly the forwards   *)
(* in flight: the deferred release gives back each reservation once, and   *)
(* only its own (picker.go:163-174, router.go:117-127).                    *)
THEOREM HeldExactly == Spec => []HeldExactlyInFlight
<1>1. IInv => HeldExactlyInFlight
  <2> SUFFICES ASSUME IInv PROVE HeldExactlyInFlight
    OBVIOUS
  <2>1. DOMAIN held = {call[c].id : c \in {d \in Callers : pc[d] \in Forwarding}}
    <3>1. \A c \in Callers : pc[c] \in Forwarding => call[c].id \in DOMAIN held
      BY DEF IInv, ForwardsHold, ForwardHolds
    <3>2. \A i \in DOMAIN held : \E c \in Callers : pc[c] \in Forwarding /\ call[c].id = i
      BY DEF IInv, HeldForForward
    <3> QED
      BY <3>1, <3>2, Zenon
  <2> QED
    BY <2>1 DEF IInv, ForwardsHold, ForwardHolds, HeldExactlyInFlight
<1> QED
  BY <1>1, Invariance, PTL

(* What a report counts was reserved no later than the report was          *)
(* received, and what reservedLocked counts later.                         *)
LEMMA ChargedOnce ==
  ASSUME IInv, NEW n \in DOMAIN report, NEW m \in Models
  PROVE  Reserved(n, m) \cap ReportedBusy(n, m) = {}
<1> SUFFICES ASSUME NEW i \in Reserved(n, m) \cap ReportedBusy(n, m)
             PROVE  FALSE
  OBVIOUS
<1>0. PICK q \in report[n].busy : q.id = i
  BY DEF ReportedBusy
<1>1. i \in DOMAIN held /\ held[i].at > report[n].received
  BY DEF Reserved
<1>2. held[i].at <= report[n].received
  BY <1>0, <1>1 DEF IInv, CountedIsOlder
<1>3. held[i].at \in Nat /\ report[n].received \in Nat
  BY <1>1 DEF IInv, TypeOK, MeshTypeOK, Reservation, Report
<1> QED
  BY <1>1, <1>2, <1>3

(* Whatever the clock, the polls and the reports do, a forward whose start *)
(* is after the report was received is not among the requests the report   *)
(* counts, so reservedLocked never charges it a second time                *)
(* (picker.go:181-190).                                                    *)
THEOREM NeverChargedTwice == Spec => []NoDoubleCharge
<1>1. IInv => NoDoubleCharge
  BY ChargedOnce DEF NoDoubleCharge
<1> QED
  BY <1>1, Invariance, PTL

-----------------------------------------------------------------------------
(* What is known of the work on a node is finite, and reservedLocked and   *)
(* the report add up to no more of it than there is.                       *)
LEMMA ChargeBounded ==
  ASSUME IInv, NEW n \in DOMAIN report, NEW m \in Models
  PROVE  /\ Cardinality(Known(n, m)) \in Nat
         /\ Cardinality(ReportedBusy(n, m)) \in Nat
         /\ Cardinality(Reserved(n, m)) \in Nat
         /\ Cardinality(ReportedBusy(n, m)) + Cardinality(Reserved(n, m))
              <= Cardinality(Known(n, m))
         /\ Uncounted(n, m) = {} =>
              Cardinality(ReportedBusy(n, m)) + Cardinality(Reserved(n, m))
                = Cardinality(Known(n, m))
<1> DEFINE reported == ReportedBusy(n, m)
           reserved == Reserved(n, m)
<1>1. Known(n, m) \subseteq 0 .. nextID - 1
  <2>1. report[n].busy \subseteq Request /\ Used(report[n].busy)
    BY DEF IInv, TypeOK, MeshTypeOK, Report, IdsUsed
  <2>2. reported \subseteq 0 .. nextID - 1
    BY <2>1 DEF ReportedBusy, Used, Request, IInv, TypeOK
  <2> QED
    BY <2>2 DEF Known, IInv, TypeOK
<1>2. IsFiniteSet(Known(n, m))
  <2>1. nextID - 1 \in Int
    BY DEF IInv, TypeOK
  <2>2. IsFiniteSet(0 .. nextID - 1)
    BY <2>1, FS_Interval
  <2> QED
    BY <1>1, <2>2, FS_Subset
<1>3. reported \cup reserved \subseteq Known(n, m)
  BY DEF Known, Reserved
<1>4. IsFiniteSet(reported) /\ IsFiniteSet(reserved)
  BY <1>2, <1>3, FS_Subset
<1>5. reported \cap reserved = {}
  BY ChargedOnce
<1>6. Cardinality(reported \cup reserved) = Cardinality(reported) + Cardinality(reserved)
  <2>1. Cardinality(reported \cap reserved) = 0
    BY <1>5, FS_EmptySet
  <2>2. Cardinality(reported) \in Nat /\ Cardinality(reserved) \in Nat
    BY <1>4, FS_CardinalityType
  <2> HIDE DEF reported, reserved
  <2>3. Cardinality(reported \cup reserved)
          = Cardinality(reported) + Cardinality(reserved) - Cardinality(reported \cap reserved)
    BY <1>4, FS_Union
  <2> QED
    BY <2>1, <2>2, <2>3
<1>7. Cardinality(reported \cup reserved) <= Cardinality(Known(n, m))
  BY <1>2, <1>3, FS_Subset
<1>8. Uncounted(n, m) = {} => reported \cup reserved = Known(n, m)
  <2> SUFFICES ASSUME Uncounted(n, m) = {},
                      NEW i \in DOMAIN held, held[i].node = n, held[i].model = m, i \notin reported
               PROVE  i \in reserved
    BY <1>3 DEF Known
  <2>1. ~(held[i].at <= report[n].received)
    BY DEF Uncounted
  <2>2. held[i].at \in Nat /\ report[n].received \in Nat
    BY DEF IInv, TypeOK, MeshTypeOK, Reservation, Report
  <2> QED
    BY <2>1, <2>2 DEF Reserved
<1> QED
  BY <1>2, <1>4, <1>6, <1>7, <1>8, FS_CardinalityType

(* A leader with nothing to spare means that no candidate has any.         *)
LEMMA FullLeader ==
  ASSUME MeshAssumption, IInv, NEW c \in Callers, call[c].model \in Models,
         NEW n \in Leaders(c), Free(n, call[c].model) = 0
  PROVE  \A k \in Candidates(c) :
           Cardinality(Known(k, call[c].model)) >= Slots[k][call[c].model]
<1> DEFINE m == call[c].model
<1> SUFFICES ASSUME NEW k \in Candidates(c)
             PROVE  Cardinality(Known(k, m)) >= Slots[k][m]
  OBVIOUS
<1>1. k \in DOMAIN report /\ k \in Names
  BY DEF Candidates, Reachable, IInv, TypeOK, MeshTypeOK
<1>2. /\ Cardinality(ReportedBusy(k, m)) \in Nat /\ Cardinality(Reserved(k, m)) \in Nat
      /\ Cardinality(Known(k, m)) \in Nat
      /\ Cardinality(ReportedBusy(k, m)) + Cardinality(Reserved(k, m)) <= Cardinality(Known(k, m))
  BY <1>1, ChargeBounded
<1>3. Slots[k][m] \in Nat
  BY <1>1, SlotsTyped, Zenon
<1>4. Free(n, m) >= Free(k, m)
  BY DEF Leaders
<1> QED
  BY <1>2, <1>3, <1>4 DEF Free

(* Only the critical section hands a reservation to a call. *)
LEMMA PickedHere ==
  ASSUME IInv, [Next]_vars, NEW c \in Callers, pc[c] = "lock", pc'[c] = "sent"
  PROVE  PickNode(c)
<1>1. PICK d \in Callers : Step(d)
  BY DEF Next, vars, pickerVars
<1>2. \E from, to : Goto(d, from, to)
  BY <1>1 DEF Step, ReadClock, ReadClockAgain, ReadMembers, PickNone, PickNode, Arrive,
              DialFails, ForwardEnds, Release
<1>3. d = c
  BY <1>2 DEF Goto, IInv, TypeOK
<1> QED
  BY <1>1, <1>3 DEF Step, ReadClock, ReadClockAgain, ReadMembers, PickNone, Arrive,
              DialFails, ForwardEnds, Release, Goto, IInv, TypeOK

(* A node that is sent a request although all its slots are known to be    *)
(* taken was no worse than any other candidate, or holds a forward that    *)
(* neither the report nor reservedLocked counts                            *)
(* (picker.go:33-38, 124-149).                                             *)
THEOREM BurstSpreads == Spec => SpreadsBurst
<1> DEFINE Spread(c) ==
      pc[c] = "lock" /\ pc'[c] = "sent" =>
        \/ Cardinality(Known(call'[c].node, call[c].model)) < Slots[call'[c].node][call[c].model]
        \/ Uncounted(call'[c].node, call[c].model) # {}
        \/ \A k \in Candidates(c) :
             Cardinality(Known(k, call[c].model)) >= Slots[k][call[c].model]
<1>1. ASSUME MeshAssumption, IInv, [Next]_vars, NEW c \in Callers
      PROVE  Spread(c)
  <2> SUFFICES ASSUME pc[c] = "lock", pc'[c] = "sent"
               PROVE  Spread(c)
    OBVIOUS
  <2> DEFINE m == call[c].model
  <2>1. PickNode(c)
    BY <1>1, PickedHere
  <2>2. PICK n \in Leaders(c) : call' = [call EXCEPT ![c] = Given(@, NewID(c), n)]
    BY <2>1 DEF PickNode
  <2>3. call'[c].node = n
    BY <1>1, <2>2 DEF Given, IInv, TypeOK
  <2>4. m \in Models /\ n \in DOMAIN report /\ n \in Names
    BY <1>1, LeadersReported DEF IInv, CallsKnown, TypeOK
  <2>5. /\ Slots[n][m] \in Nat
        /\ Cardinality(ReportedBusy(n, m)) \in Nat /\ Cardinality(Reserved(n, m)) \in Nat
        /\ Cardinality(Known(n, m)) \in Nat
        /\ Uncounted(n, m) = {} =>
             Cardinality(ReportedBusy(n, m)) + Cardinality(Reserved(n, m)) = Cardinality(Known(n, m))
    <3> HIDE DEF m
    <3>1. Slots[n][m] \in Nat
      BY <1>1, <2>4, SlotsTyped, Zenon
    <3> QED
      BY <1>1, <2>4, <3>1, ChargeBounded
  <2>6. Cardinality(Known(n, m)) < Slots[n][m] \/ Uncounted(n, m) # {} \/ Free(n, m) = 0
    BY <2>5 DEF Free
  <2>7. Free(n, m) = 0 => \A k \in Candidates(c) : Cardinality(Known(k, m)) >= Slots[k][m]
    BY <1>1, <2>4, FullLeader
  <2> QED
    BY <2>3, <2>6, <2>7
<1>2. ASSUME MeshAssumption, IInv, [Next]_vars
      PROVE  \A c \in Callers : Spread(c)
  BY <1>1, <1>2
<1>3. IInv /\ [Next]_vars => [\A c \in Callers : Spread(c)]_vars
  BY <1>2, MeshAssumption
<1> QED
  BY <1>3, Invariance, PTL DEF Spec, SpreadsBurst

-----------------------------------------------------------------------------
(* A set of naturals that is not empty has a least element. *)
LEMMA Least ==
  ASSUME NEW T, T \subseteq Nat, T # {}
  PROVE  \E n \in T : \A k \in T : n <= k
<1>1. PICK n \in T : \A k \in T : <<k, n>> \notin OpToRel(<, Nat)
  BY NatLessThanWellFounded, WFMin, Zenon
<1>2. \A k \in T : ~(k < n)
  BY <1>1 DEF OpToRel
<1> QED
  BY <1>2

(* Of finitely many, one is greatest: the one that fewest are above. *)
LEMMA Greatest ==
  ASSUME NEW S, IsFiniteSet(S), S # {}, NEW f \in [S -> Nat]
  PROVE  \E n \in S : \A k \in S : f[n] >= f[k]
<1> DEFINE Above(n) == {k \in S : f[k] > f[n]}
           T == {Cardinality(Above(n)) : n \in S}
<1>1. ASSUME NEW n \in S
      PROVE  IsFiniteSet(Above(n)) /\ Cardinality(Above(n)) \in Nat
  BY FS_Subset, FS_CardinalityType, Above(n) \subseteq S
<1>2. T \subseteq Nat /\ T # {}
  BY <1>1
<1>3. PICK n \in S : \A k \in S : Cardinality(Above(n)) <= Cardinality(Above(k))
  <2> HIDE DEF Above
  <2>1. PICK t \in T : \A u \in T : t <= u
    BY <1>2, Least
  <2> QED
    BY <2>1
<1>4. ASSUME NEW k \in S, f[k] > f[n]
      PROVE  FALSE
  <2>1. Above(k) \subseteq Above(n) /\ k \in Above(n) /\ k \notin Above(k)
    BY <1>4
  <2> HIDE DEF Above
  <2>2. Cardinality(Above(k)) <= Cardinality(Above(n)) /\ Cardinality(Above(k)) # Cardinality(Above(n))
    BY <1>1, <2>1, FS_Subset
  <2> QED
    BY <1>1, <1>3, <2>2
<1> QED
  BY <1>4

(* In a finite set of naturals one element and no other has rank i. *)
LEMMA OneRanked ==
  ASSUME NEW S, S \subseteq Nat, IsFiniteSet(S), NEW i \in Nat, i < Cardinality(S)
  PROVE  \E n \in S : \A k \in S : IsRanked(k, S, i) <=> k = n
<1> DEFINE Below(n) == {k \in S : k < n}
<1>0. \A k \in S : k \in Nat
  OBVIOUS
<1>1. ASSUME NEW n \in S
      PROVE  IsFiniteSet(Below(n)) /\ Cardinality(Below(n)) \in Nat
  BY FS_Subset, FS_CardinalityType, Below(n) \subseteq S
<1>2. ASSUME NEW n \in S, NEW k \in S, k < n
      PROVE  Cardinality(Below(k)) < Cardinality(Below(n))
  <2>1. Below(k) \subseteq Below(n) /\ k \in Below(n) /\ k \notin Below(k)
    <3>1. k \in Nat /\ n \in Nat
      BY <1>0
    <3>2. ASSUME NEW x \in S, x < k
          PROVE  x < n
      <4>1. x \in Nat
        BY <1>0
      <4> QED
        BY <1>2, <3>1, <3>2, <4>1
    <3>3. Below(k) \subseteq Below(n)
      BY <3>2
    <3>4. k \in Below(n)
      BY <1>2
    <3>5. ~(k < k)
      BY <3>1
    <3> QED
      BY <3>3, <3>4, <3>5
  <2> HIDE DEF Below
  <2>2. Cardinality(Below(k)) <= Cardinality(Below(n)) /\ Cardinality(Below(k)) # Cardinality(Below(n))
    BY <1>1, <2>1, FS_Subset
  <2> QED
    BY <1>1, <2>2
<1>3. \E n \in S : Cardinality(Below(n)) = i
  <2> DEFINE Missing == {j \in 0 .. i : \A n \in S : Cardinality(Below(n)) # j}
  <2> SUFFICES ASSUME Missing # {}
               PROVE  FALSE
    BY <1>1
  <2>1. PICK j \in Missing : \A k \in Missing : j <= k
    <3> HIDE DEF Below
    <3> QED
      BY Least, Missing \subseteq Nat
  (* The elements that are below no more than j - 1 others are j in number. *)
  <2>2. PICK P \in SUBSET S : /\ IsFiniteSet(P) /\ Cardinality(P) = j
                            /\ \A n \in S \ P : P \subseteq Below(n)
                            /\ \A k \in P : Below(k) \subseteq P
    <3>1. CASE j = 0
      <4> WITNESS {} \in SUBSET S
      <4> QED
        BY <3>1, FS_EmptySet
    <3>2. CASE j # 0
      <4>1. j - 1 \in 0 .. i /\ j - 1 \notin Missing
        BY <2>1, <3>2
      <4>2. PICK m \in S : Cardinality(Below(m)) = j - 1
        BY <4>1
      <4> DEFINE P == Below(m) \cup {m}
      <4>3. IsFiniteSet(P) /\ Cardinality(P) = j
        <5>1. m \notin Below(m)
          OBVIOUS
        <5> HIDE DEF Below
        <5>2. Cardinality(P) = j - 1 + 1
          BY <1>1, <4>2, <5>1, FS_AddElement
        <5> QED
          BY <1>1, <5>2, FS_AddElement
      <4>4. ASSUME NEW n \in S \ P
            PROVE  P \subseteq Below(n)
        <5>1. ~(n < m) /\ n # m /\ n \in Nat /\ m \in Nat
          BY <1>0
        <5>2. ASSUME NEW x \in P
              PROVE  x \in S /\ x < n
          <6>1. x \in Nat /\ (x < m \/ x = m)
            BY <1>0
          <6> QED
            BY <5>1, <6>1
        <5> QED
          BY <5>2
      <4>5. ASSUME NEW n \in P
            PROVE  Below(n) \subseteq P
        <5>1. n \in Nat /\ m \in Nat /\ (n < m \/ n = m)
          BY <1>0
        <5>2. ASSUME NEW x \in S, x < n
              PROVE  x < m
          <6>1. x \in Nat
            BY <1>0
          <6> QED
            BY <5>1, <5>2, <6>1
        <5> QED
          BY <5>2
      <4> WITNESS P \in SUBSET S
      <4> QED
        BY <4>3, <4>4, <4>5
    <3> QED
      BY <3>1, <3>2
  <2>3. S \ P # {}
    <3>1. S # P
      BY <2>2
    <3> QED
      BY <2>2, <3>1
  <2>4. PICK n \in S \ P : \A k \in S \ P : n <= k
    BY <2>3, Least, S \ P \subseteq Nat
  <2>5. Below(n) = P
    <3>1. P \subseteq Below(n)
      BY <2>2
    <3>2. ASSUME NEW k \in S, k < n, k \notin P
          PROVE  FALSE
      BY <1>0, <2>4, <3>2
    <3> QED
      BY <3>1, <3>2
  <2> HIDE DEF Below
  <2> QED
    BY <2>1, <2>2, <2>5
<1>4. PICK n \in S : Cardinality(Below(n)) = i
  BY <1>3
<1>5. ASSUME NEW k \in S, Cardinality(Below(k)) = i
      PROVE  k = n
  <2> HIDE DEF Below
  <2> QED
    BY <1>1, <1>2, <1>4, <1>5
<1> QED
  BY <1>4, <1>5 DEF IsRanked

(* Counting on by one moves to another place of the tie. *)
LEMMA NextTurn ==
  ASSUME NEW n \in Nat, n > 1, NEW r \in Nat
  PROVE  ((r + 1) % n) % n # r % n
<1>1. ASSUME NEW k \in Nat
      PROVE  k % n \in 0 .. n - 1 /\ k = n * (k \div n) + (k % n) /\ k \div n \in Int
  OBVIOUS
<1> DEFINE s == r % n
<1>2. CASE s + 1 < n
  <2>1. r + 1 = n * (r \div n) + (s + 1)
    BY <1>1
  <2>2. (r + 1) % n = s + 1
    BY <1>1, <1>2, <2>1
  <2> QED
    BY <1>1, <1>2, <2>2
<1>3. CASE s + 1 = n
  <2> DEFINE d == (r \div n) + 1 - ((r + 1) \div n)
             t == (r + 1) % n
  <2>1. d \in Int /\ t \in 0 .. n - 1 /\ n * d = t
    BY <1>1, <1>3
  <2> HIDE DEF d
  <2>2. ~(d >= 1) /\ ~(d <= -1)
    BY <2>1
  <2>3. t = 0
    BY <2>1, <2>2
  <2> QED
    BY <1>1, <1>3, <2>3
<1> QED
  BY <1>1, <1>2, <1>3

(* A call that holds the lock with candidates has leaders, finitely many. *)
LEMMA LeadersExist ==
  ASSUME MeshAssumption, IInv, NEW c \in Callers, pc[c] = "lock", Candidates(c) # {}
  PROVE  /\ Leaders(c) # {} /\ Leaders(c) \subseteq Nat /\ IsFiniteSet(Leaders(c))
         /\ Cardinality(Leaders(c)) \in Nat \ {0}
<1> DEFINE m == call[c].model
           most == {n \in Candidates(c) : \A k \in Candidates(c) : Free(n, m) >= Free(k, m)}
<1>1. /\ Candidates(c) \subseteq Names /\ Candidates(c) \subseteq DOMAIN report
      /\ IsFiniteSet(Candidates(c))
  <2>1. Candidates(c) \subseteq Names /\ Candidates(c) \subseteq DOMAIN report
    BY DEF Candidates, Reachable, IInv, TypeOK, MeshTypeOK
  <2> QED
    BY <2>1, FS_Subset DEF MeshAssumption
<1>2. m \in Models
  BY DEF IInv, CallsKnown
<1>3. ASSUME NEW n \in Candidates(c)
      PROVE  Free(n, m) \in Nat
  <2>1. n \in DOMAIN report /\ n \in Names
    BY <1>1
  <2> HIDE DEF m
  <2>2. Slots[n][m] \in Nat
    BY <1>2, <2>1, SlotsTyped, Zenon
  <2>3. Cardinality(ReportedBusy(n, m)) \in Nat /\ Cardinality(Reserved(n, m)) \in Nat
    BY <1>2, <2>1, ChargeBounded
  <2> QED
    BY <2>2, <2>3 DEF Free
<1>4. most # {}
  <2> DEFINE f == [n \in Candidates(c) |-> Free(n, m)]
  <2>1. f \in [Candidates(c) -> Nat]
    BY <1>3
  <2> HIDE DEF f
  <2>2. PICK n \in Candidates(c) : \A k \in Candidates(c) : f[n] >= f[k]
    BY <1>1, <2>1, Greatest
  <2> QED
    BY <2>2 DEF f
<1>5. Leaders(c) # {}
  <2> DEFINE T == {report[n].rtt : n \in most}
  <2>1. T \subseteq Nat /\ T # {}
    BY <1>1, <1>4 DEF IInv, TypeOK, MeshTypeOK, Report
  <2>2. PICK t \in T : \A u \in T : t <= u
    <3> HIDE DEF T
    <3> QED
      BY <2>1, Least
  <2>3. PICK n \in most : report[n].rtt = t
    BY <2>2
  <2> QED
    BY <2>2, <2>3 DEF Leaders
<1>6. Leaders(c) \subseteq Candidates(c)
  BY DEF Leaders
<1>7. IsFiniteSet(Leaders(c)) /\ Cardinality(Leaders(c)) # 0
  BY <1>1, <1>5, <1>6, FS_Subset, FS_EmptySet
<1> QED
  BY <1>1, <1>5, <1>6, <1>7, FS_CardinalityType DEF MeshAssumption

(* With candidates, Pick always answers, and with one of them: the leaders *)
(* are not none, and the rotation points at exactly one of them, whatever  *)
(* ties of other sizes have left it at (picker.go:138-157).                *)
PickDecides ==
  \A c \in Callers : pc[c] = "lock" /\ Candidates(c) # {} =>
    LET turn == rotate[call[c].model] % Cardinality(Leaders(c))
    IN  \E n \in Leaders(c) : \A k \in Leaders(c) : IsRanked(k, Leaders(c), turn) <=> k = n

(* Pick's ranking of the candidates decides in every reachable state, for  *)
(* any number of nodes and whatever ties came before (picker.go:138-157).  *)
THEOREM Decides == Spec => []PickDecides
<1>1. ASSUME MeshAssumption, IInv
      PROVE  PickDecides
  <2> SUFFICES ASSUME NEW c \in Callers, pc[c] = "lock", Candidates(c) # {}
               PROVE  \E n \in Leaders(c) : \A k \in Leaders(c) :
                        IsRanked(k, Leaders(c), rotate[call[c].model] % Cardinality(Leaders(c)))
                          <=> k = n
    BY DEF PickDecides
  <2> DEFINE S == Leaders(c)
             turn == rotate[call[c].model] % Cardinality(S)
  <2>1. S \subseteq Nat /\ IsFiniteSet(S) /\ Cardinality(S) \in Nat \ {0}
    BY <1>1, LeadersExist
  <2>2. rotate[call[c].model] \in Nat
    BY <1>1 DEF IInv, TypeOK, CallsKnown
  <2>3. turn \in Nat /\ turn < Cardinality(S)
    BY <2>1, <2>2
  <2> HIDE DEF S, turn
  <2>4. \E n \in S : \A k \in S : IsRanked(k, S, turn) <=> k = n
    BY <2>1, <2>3, OneRanked DEF IsRanked
  <2> QED
    BY <2>4 DEF S, turn
<1> QED
  BY <1>1, Invariance, MeshAssumption, PTL

(* After a pick among several tied nodes the rotation points at another    *)
(* one of them, so the next pick of the model over the same tie goes       *)
(* elsewhere (picker.go:150-159).                                          *)
THEOREM Rotates == Spec => TakesTurns
<1> DEFINE Tied(c) == Cardinality(Leaders(c))
           Elsewhere(c) ==
             pc[c] = "lock" /\ pc'[c] = "sent" /\ Tied(c) > 1 =>
               ~IsRanked(call'[c].node, Leaders(c), rotate'[call[c].model] % Tied(c))
<1>1. ASSUME MeshAssumption, IInv, [Next]_vars, NEW c \in Callers
      PROVE  Elsewhere(c)
  <2> SUFFICES ASSUME pc[c] = "lock", pc'[c] = "sent", Tied(c) > 1
               PROVE  ~IsRanked(call'[c].node, Leaders(c), rotate'[call[c].model] % Tied(c))
    OBVIOUS
  <2> DEFINE m == call[c].model
  <2>1. PickNode(c)
    BY <1>1, PickedHere
  <2>2. m \in Models /\ rotate \in [Models -> Nat]
    BY <1>1 DEF IInv, TypeOK, CallsKnown
  <2>3. Candidates(c) # {}
    BY <2>1 DEF PickNode, Leaders, IsRanked
  <2>4. Tied(c) \in Nat
    BY <1>1, <2>3, LeadersExist
  <2>5. PICK n \in Leaders(c) : /\ IsRanked(n, Leaders(c), rotate[m] % Tied(c))
                              /\ call' = [call EXCEPT ![c] = Given(@, NewID(c), n)]
    BY <2>1 DEF PickNode
  <2>6. call'[c].node = n
    BY <1>1, <2>5 DEF Given, IInv, TypeOK
  <2>7. rotate'[m] = (rotate[m] + 1) % Tied(c)
    BY <2>1, <2>2 DEF PickNode, Turn
  <2> HIDE DEF Tied
  <2>8. rotate'[m] % Tied(c) # rotate[m] % Tied(c)
    BY <2>2, <2>4, <2>7, NextTurn
  <2> QED
    BY <2>5, <2>6, <2>8 DEF IsRanked
<1>2. ASSUME MeshAssumption, IInv, [Next]_vars
      PROVE  \A c \in Callers : Elsewhere(c)
  BY <1>1, <1>2
<1>3. IInv /\ [Next]_vars => [\A c \in Callers : Elsewhere(c)]_vars
  BY <1>2, MeshAssumption
<1> QED
  BY <1>3, Invariance, PTL DEF Spec, TakesTurns

-----------------------------------------------------------------------------
(* The picker's side of Reserve. *)

(* Pick is asked to leave out at most one node, and only by a retry. *)
ExcludesOne ==
  \A c \in Callers :
    /\ \E n \in Names : call[c].exclude \subseteq {n}
    /\ pc[c] \in {"idle", "retry"} => call[c].exclude = {}

LEMMA ExcludesOneStep ==
  ASSUME MeshAssumption, IInv, ExcludesOne, [Next]_vars
  PROVE  ExcludesOne'
<1> USE DEF IInv, ExcludesOne
<1>1. CASE UNCHANGED pickerVars
  BY <1>1 DEF pickerVars
<1>2. ASSUME NEW c \in Callers, Step(c)
      PROVE  ExcludesOne'
  <2>t. call \in [Callers -> Call] /\ pc \in [Callers -> {"idle", "retry", "members", "lock"} \cup Forwarding]
    BY DEF TypeOK
  <2>n. Self \in Names
    BY DEF MeshAssumption
  <2>1. CASE ReadClock(c)
    BY <2>1, <2>t, <2>n DEF ReadClock, Goto, Begun
  <2>2. CASE ReadClockAgain(c)
    <3>1. call[c].node \in Names
      BY <2>2 DEF ReadClockAgain, Goto, CallsKnown
    <3> QED
      BY <2>2, <2>t, <3>1 DEF ReadClockAgain, Goto, Begun
  <2>3. CASE ReadMembers(c)
    <3>1. call'[c].exclude = call[c].exclude
      BY <2>3, <2>t DEF ReadMembers, Call
    <3> QED
      BY <2>3, <2>t, <3>1 DEF ReadMembers, Goto
  <2>4. CASE PickNone(c)
    BY <2>4, <2>t, <2>n DEF PickNone, Goto, Forget, NoCall
  <2>5. CASE PickNode(c)
    <3>1. PICK n \in Names :
            /\ pc' = [pc EXCEPT ![c] = "sent"]
            /\ call' = [call EXCEPT ![c] = Given(call[c], nextID, n)]
      BY <2>5, PickNodeStep
    <3>2. call'[c].exclude = call[c].exclude
      BY <2>t, <3>1 DEF Given
    <3> QED
      BY <2>t, <3>1, <3>2
  <2>6. CASE Arrive(c) \/ DialFails(c) \/ ForwardEnds(c)
    BY <2>6, <2>t DEF Arrive, DialFails, ForwardEnds, Goto
  <2>7. CASE Release(c)
    BY <2>7, <2>t, <2>n DEF Release, Goto, Forget, NoCall
  <2> QED
    BY <1>2, <2>1, <2>2, <2>3, <2>4, <2>5, <2>6, <2>7 DEF Step
<1> QED
  BY <1>1, <1>2 DEF Next, vars

(* What Holds and Spent are, in terms of the caller's own call.            *)
GivenNode(c) == IF pc[c] \in Forwarding THEN call[c].node ELSE 0

SpentMeans(c) ==
  /\ pc[c] # "retry" /\ call[c].exclude = {} => Spent(c) = 0
  /\ pc[c] # "retry" /\ call[c].exclude # {} => Spent(c) # 0 /\ call[c].exclude = {Spent(c)}
  /\ pc[c] = "retry" => Spent(c) = call[c].node

LEMMA HoldsGiven ==
  ASSUME NEW c \in Callers
  PROVE  /\ ForwardsHold => Holds(c) = GivenNode(c)
         /\ ForwardsHold' => Holds(c)' = GivenNode(c)'
BY DEF ForwardsHold, ForwardHolds, Holds, GivenNode

LEMMA SpentExcluded ==
  ASSUME MeshAssumption, NEW c \in Callers
  PROVE  /\ ExcludesOne => SpentMeans(c)
         /\ ExcludesOne' => SpentMeans(c)'
<1> DEFINE Chosen(E) == CHOOSE k \in Names : k \in E
<1>1. ASSUME NEW E, NEW n \in Names, E \subseteq {n}, E # {}
      PROVE  Chosen(E) # 0 /\ E = {Chosen(E)}
  <2>1. E = {n}
    BY <1>1
  <2>2. Chosen(E) = n
    BY <2>1
  <2> QED
    BY <2>1, <2>2 DEF MeshAssumption
<1> HIDE DEF Chosen
<1>2. ASSUME ExcludesOne
      PROVE  SpentMeans(c)
  <2>1. pc[c] # "retry" /\ call[c].exclude # {} => Spent(c) = Chosen(call[c].exclude)
    BY DEF Spent, Chosen
  <2>2. call[c].exclude # {} =>
          /\ Chosen(call[c].exclude) # 0
          /\ call[c].exclude = {Chosen(call[c].exclude)}
    BY <1>1, <1>2 DEF ExcludesOne
  <2> QED
    BY <2>1, <2>2 DEF SpentMeans, Spent
<1>3. ASSUME ExcludesOne'
      PROVE  SpentMeans(c)'
  <2>1. pc'[c] # "retry" /\ call'[c].exclude # {} => Spent(c)' = Chosen(call'[c].exclude)
    BY DEF Spent, Chosen
  <2>2. call'[c].exclude # {} =>
          /\ Chosen(call'[c].exclude) # 0
          /\ call'[c].exclude = {Chosen(call'[c].exclude)}
    BY <1>1, <1>3 DEF ExcludesOne
  <2> QED
    BY <2>1, <2>2 DEF SpentMeans, Spent
<1> QED
  BY <1>2, <1>3

(* Each step of a caller is a step of Reserve, or none, for that caller.   *)
LEMMA ReservingStep ==
  ASSUME MeshAssumption, IInv, IInv', ExcludesOne, ExcludesOne', NEW c \in Callers, Step(c)
  PROVE  Reserving(c)!Step
<1> DEFINE has == GivenNode(c)
           spent == Spent(c)
<1>t. /\ call \in [Callers -> Call]
      /\ pc \in [Callers -> {"idle", "retry", "members", "lock"} \cup Forwarding]
  BY DEF IInv, TypeOK
<1>h. Holds(c) = has /\ Holds(c)' = has'
  BY HoldsGiven DEF IInv
<1>s. SpentMeans(c) /\ SpentMeans(c)'
  BY SpentExcluded
<1>n. pc[c] \in Forwarding => has \in Names /\ has # 0
  BY DEF MeshAssumption, IInv, CallsKnown, GivenNode
<1>1. has' = has /\ spent' = spent => Reserving(c)!Step
  BY <1>h DEF Reserving!Step, Reserving!vars
<1>2. ASSUME has = 0, \E n \in Names : n # spent /\ has' = n, spent' = spent
      PROVE  Reserving(c)!Step
  BY <1>2, <1>h DEF Reserving!Step, Reserving!Next, Reserving!Take
<1>3. has # 0 /\ has' = 0 /\ spent' = 0 => Reserving(c)!Step
  BY <1>h DEF Reserving!Step, Reserving!Next, Reserving!Return
<1>4. has # 0 /\ spent = 0 /\ has' = 0 /\ spent' = has => Reserving(c)!Step
  BY <1>h DEF Reserving!Step, Reserving!Next, Reserving!ReturnUnreached
<1>5. has = 0 /\ spent # 0 /\ has' = 0 /\ spent' = 0 => Reserving(c)!Step
  BY <1>h DEF Reserving!Step, Reserving!Next, Reserving!GiveUp
<1> HIDE DEF spent
<1> USE DEF SpentMeans, GivenNode, Forwarding, Goto
<1>6. CASE ReadClock(c)
  <2>1. has = 0 /\ has' = 0
    BY <1>6, <1>t DEF ReadClock
  <2>2. spent = 0
    BY <1>6, <1>s DEF ReadClock, ExcludesOne, spent
  <2>3. spent' = 0
    BY <1>6, <1>t, <1>s DEF ReadClock, Begun, spent
  <2> QED
    BY <1>1, <2>1, <2>2, <2>3
<1>7. CASE ReadClockAgain(c)
  <2>1. has = 0 /\ has' = 0
    BY <1>7, <1>t DEF ReadClockAgain
  <2>2. spent = call[c].node
    BY <1>7, <1>s DEF ReadClockAgain, spent
  <2>3. call'[c].exclude = {call[c].node} /\ pc'[c] # "retry"
    BY <1>7, <1>t DEF ReadClockAgain, Begun
  <2>4. spent' = call[c].node
    BY <1>s, <2>3 DEF spent
  <2> QED
    BY <1>1, <2>1, <2>2, <2>4
<1>8. CASE ReadMembers(c)
  <2>1. has = 0 /\ has' = 0
    BY <1>8, <1>t DEF ReadMembers
  <2>2. call'[c].exclude = call[c].exclude /\ pc[c] # "retry" /\ pc'[c] # "retry"
    BY <1>8, <1>t DEF ReadMembers, Call
  <2>3. spent' = spent
    BY <1>s, <2>2 DEF spent
  <2> QED
    BY <1>1, <2>1, <2>3
<1>9. CASE PickNone(c)
  <2>1. has = 0 /\ has' = 0
    BY <1>9, <1>t DEF PickNone
  <2>2. spent' = 0
    BY <1>9, <1>t, <1>s DEF PickNone, Forget, NoCall, spent
  <2> QED
    BY <1>1, <1>5, <2>1, <2>2
<1>10. CASE PickNode(c)
  <2>1. PICK n \in Leaders(c) : /\ pc[c] = "lock" /\ pc' = [pc EXCEPT ![c] = "sent"]
                              /\ call' = [call EXCEPT ![c] = Given(@, NewID(c), n)]
    BY <1>10 DEF PickNode
  <2>2. n \in Names /\ n \notin call[c].exclude
    <3>1. MeshTypeOK
      BY DEF IInv, TypeOK
    <3>2. n \in Candidates(c)
      BY DEF Leaders
    <3> QED
      BY <3>1, <3>2, LeadersReported DEF Candidates
  <2>3. /\ pc[c] # "retry" /\ pc'[c] # "retry"
        /\ call'[c].exclude = call[c].exclude /\ call'[c].node = n
    BY <1>t, <2>1 DEF Given
  <2>4. has = 0 /\ has' = n
    BY <1>t, <2>1, <2>3
  <2>5. spent' = spent
    BY <1>s, <2>3 DEF spent
  <2>6. n # spent
    BY <1>s, <2>2, <2>3 DEF spent, MeshAssumption
  <2> QED
    BY <1>2, <2>2, <2>4, <2>5, <2>6
<1>11. CASE Arrive(c) \/ DialFails(c) \/ ForwardEnds(c)
  <2>1. call' = call /\ pc[c] \in Forwarding /\ pc'[c] \in Forwarding
    BY <1>11, <1>t DEF Arrive, DialFails, ForwardEnds
  <2>2. has' = has
    BY <2>1
  <2>3. spent' = spent
    BY <1>s, <2>1 DEF spent
  <2> QED
    BY <1>1, <2>2, <2>3
<1>12. CASE Release(c)
  <2>1. pc[c] \in {"ended", "unreached"} /\ pc'[c] \in {"idle", "retry"}
    BY <1>12, <1>t DEF Release
  <2>2. has # 0 /\ has' = 0
    <3>1. pc[c] \in Forwarding /\ pc'[c] \notin Forwarding
      BY <2>1
    <3> QED
      BY <1>n, <3>1
  <2>3. CASE pc'[c] = "idle"
    <3>1. spent' = 0
      BY <1>s, <2>3 DEF ExcludesOne, spent
    <3> QED
      BY <1>3, <2>2, <3>1
  <2>4. CASE pc'[c] = "retry"
    <3>1. call[c].exclude = {} /\ call' = call /\ pc[c] = "unreached"
      BY <1>12, <1>t, <2>4 DEF Release
    <3>2. spent = 0 /\ spent' = call[c].node /\ has = call[c].node
      BY <1>s, <2>4, <3>1 DEF spent
    <3> QED
      BY <1>4, <2>2, <3>2
  <2> QED
    BY <2>1, <2>3, <2>4
<1> QED
  BY <1>6, <1>7, <1>8, <1>9, <1>10, <1>11, <1>12 DEF Step

(* The picker implements its side of Reserve, whatever order the steps of  *)
(* any number of calls, the polls and the clock come in                    *)
(* (picker.go:92-174).                                                     *)
THEOREM ImplementsReserve == Spec => KeepsReserve
<1> DEFINE J == IInv /\ ExcludesOne
<1>1. Init => J
  <2>1. ASSUME Init
        PROVE  ExcludesOne
    BY <2>1, MeshAssumption DEF Init, NoCall, ExcludesOne, MeshAssumption
  <2> QED
    BY <2>1, IInvInit, MeshAssumption, PickerAssumption
<1>2. J /\ [Next]_vars => J'
  BY IInvStep, ExcludesOneStep, MeshAssumption, PickerAssumption
<1>3. ASSUME Init, NEW c \in Callers
      PROVE  Reserving(c)!Init
  BY <1>3 DEF Init, NoCall, Holds, Spent, Forwarding, Reserving!Init
<1>4. ASSUME J, J', [Next]_vars, NEW c \in Callers
      PROVE  Reserving(c)!Step
  <2>1. CASE Step(c)
    BY <1>4, <2>1, ReservingStep, MeshAssumption
  <2>2. CASE ~Step(c)
    <3>1. pc'[c] = pc[c] /\ call'[c] = call[c]
      <4>1. CASE UNCHANGED pickerVars
        BY <4>1 DEF pickerVars
      <4>2. ASSUME NEW d \in Callers, Step(d)
            PROVE  pc'[c] = pc[c] /\ call'[c] = call[c]
        <5>1. d # c
          BY <2>2, <4>2
        <5>2. \E to : pc' = [pc EXCEPT ![d] = to]
          BY <4>2 DEF Step, ReadClock, ReadClockAgain, ReadMembers, PickNone, PickNode, Arrive,
                      DialFails, ForwardEnds, Release, Goto
        <5>3. call' = call \/ \E new : call' = [call EXCEPT ![d] = new]
          BY <4>2 DEF Step, ReadClock, ReadClockAgain, ReadMembers, PickNone, PickNode, Arrive,
                      DialFails, ForwardEnds, Release, Forget
        <5> QED
          BY <1>4, <5>1, <5>2, <5>3 DEF IInv, TypeOK
      <4> QED
        BY <1>4, <4>1, <4>2 DEF Next, vars
    <3>2. Holds(c)' = Holds(c)
      BY <1>4, <3>1, HoldsGiven DEF GivenNode, IInv
    <3>3. Spent(c)' = Spent(c)
      BY <3>1 DEF Spent
    <3> QED
      BY <3>2, <3>3 DEF Reserving!Step, Reserving!vars
  <2> QED
    BY <2>1, <2>2
<1>5. Init => \A c \in Callers : Reserving(c)!Init
  BY <1>3
<1>6. J /\ J' /\ [Next]_vars => [\A c \in Callers : Reserving(c)!Step]_vars
  BY <1>4
<1> HIDE DEF J
<1> QED
  BY <1>1, <1>2, <1>5, <1>6, PTL DEF Spec, KeepsReserve
=============================================================================
