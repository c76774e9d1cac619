-------------------------------- MODULE Gate --------------------------------
(***************************************************************************)
(* What proxy.Router promises of the requests it serves, in four stages:   *)
(* at most Limit of them are let in at once, one is sent to a node at most *)
(* once unless it is repeatable, and one that is turned away is never sent *)
(* at all.                                                                 *)
(***************************************************************************)
EXTENDS Integers, FiniteSets

CONSTANTS
  Requests,
  Limit,
  Repeatable    \* the requests that declare that sending them again is harmless

VARIABLES
  stage,    \* stage[r]
  sends     \* sends[r]: how often r was sent

vars == <<stage, sends>>

Stages == {"outside", "inside", "sent", "closed"}

In == {r \in Requests : stage[r] \in {"inside", "sent"}}

Init ==
  /\ stage = [r \in Requests |-> "outside"]
  /\ sends = [r \in Requests |-> 0]

Admit(r) ==
  /\ stage[r] = "outside"
  /\ Cardinality(In) < Limit
  /\ stage' = [stage EXCEPT ![r] = "inside"]
  /\ UNCHANGED sends

TurnAway(r) ==
  /\ stage[r] = "outside"
  /\ stage' = [stage EXCEPT ![r] = "closed"]
  /\ UNCHANGED sends

Send(r) ==
  /\ stage[r] = "inside"
  /\ stage' = [stage EXCEPT ![r] = "sent"]
  /\ sends' = [sends EXCEPT ![r] = 1]

SendAgain(r) ==
  /\ r \in Repeatable
  /\ stage[r] = "sent"
  /\ sends' = [sends EXCEPT ![r] = @ + 1]
  /\ UNCHANGED stage

Close(r) ==
  /\ stage[r] \in {"inside", "sent"}
  /\ stage' = [stage EXCEPT ![r] = "closed"]
  /\ UNCHANGED sends

Next == \E r \in Requests : Admit(r) \/ TurnAway(r) \/ Send(r) \/ SendAgain(r) \/ Close(r)

Spec == Init /\ [][Next]_vars
=============================================================================
