------------------------------- MODULE Reserve -------------------------------
(***************************************************************************)
(* What a request and the picker rely on from each other: a request holds  *)
(* at most one reservation at a time, gives back what it holds before it   *)
(* takes another, takes another only after it could not reach the node of  *)
(* the first, and then on another node.  Router is one side of this and    *)
(* Picker the other: each implements it without the other's module, once   *)
(* for each request.                                                       *)
(***************************************************************************)
CONSTANTS Nodes, None

VARIABLES
  has,      \* the node the request holds a reservation on
  spent     \* the node it could not reach, until it is done with the next one

vars == <<has, spent>>

Init ==
  /\ has = None
  /\ spent = None

Take(n) ==
  /\ has = None
  /\ n # spent
  /\ has' = n
  /\ UNCHANGED spent

(* The forward is over. *)
Return ==
  /\ has # None
  /\ has' = None
  /\ spent' = None

(* The node could not be reached, and the request will try another. *)
ReturnUnreached ==
  /\ has # None
  /\ spent = None
  /\ has' = None
  /\ spent' = has

(* There is no other. *)
GiveUp ==
  /\ has = None
  /\ spent # None
  /\ spent' = None
  /\ UNCHANGED has

Next == (\E n \in Nodes : Take(n)) \/ Return \/ ReturnUnreached \/ GiveUp

(* Nothing, or a step of Next. *)
Step == UNCHANGED vars \/ Next

Spec == Init /\ [][Next]_vars
=============================================================================
