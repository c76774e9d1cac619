------------------------------ MODULE ViewNode ------------------------------
(***************************************************************************)
(* fleet.Picker.View: which node serves the dashboards.                    *)
(*                                                                         *)
(* Like Pick, View reads the clock and the member table before it takes    *)
(* p.mu, so the choice it stores in p.view may rest on a member table      *)
(* older than the one a call that locked earlier has used.                 *)
(***************************************************************************)
EXTENDS Mesh, Sequences

CONSTANTS
  Viewers,      \* concurrent calls of View
  Allowlists    \* the values VIIWORK_GW_VIEW_NODES may have

ASSUME ViewAssumption == Allowlists \subseteq Seq(Names)

NoView == 0     \* the empty string in p.view; ok = false

VARIABLES
  viewNodes,  \* p.viewNodes, the allowlist in order of preference; never changes
  view,     \* p.view
  pc,
  call,     \* now and members, read before the lock, and the node returned
  steady,   \* history: the nodes eligible at every moment since the call began
  unbroken  \* history: p.view has been eligible ever since it was stored

viewVars == <<viewNodes, view, pc, call, steady, unbroken>>
vars == <<meshVars, viewVars>>

(* What View may answer with: a node, never a gateway, and least of all this one. *)
Views == (RoleNodes \ {Self}) \cup {NoView}

Call == [now : Nat, members : SUBSET Names, answer : Views]

(* Every variable has its type. *)
TypeOK ==
  /\ MeshTypeOK
  /\ viewNodes \in Allowlists
  /\ view \in Views
  /\ pc \in [Viewers -> {"idle", "members", "lock", "answered"}]
  /\ call \in [Viewers -> Call]
  /\ steady \in [Viewers -> SUBSET Names]
  /\ unbroken \in BOOLEAN

-----------------------------------------------------------------------------
Eligible(c) == Reachable(call[c].members, call[c].now)

(* The allowlist decides: the first of its names that is eligible. *)
Listed == {viewNodes[i] : i \in DOMAIN viewNodes}

IsFirstListed(n, S) ==
  \E i \in DOMAIN viewNodes :
    n = viewNodes[i] /\ n \in S /\ \A j \in 1 .. i - 1 : viewNodes[j] \notin S

IsLowest(n, S) == n \in S /\ \A k \in S : n <= k

(* The node View chooses from the eligible ones S, or NoView. *)
ChoosesUnlisted(n, S) ==
  IF S = {} THEN n = NoView
  ELSE IF Listed \cap S # {} THEN IsFirstListed(n, S)
  ELSE IF view \in S THEN n = view
  ELSE IsLowest(n, S)
ChoosesLowest(n, S) ==
  IF S = {} THEN n = NoView
  ELSE IF viewNodes # <<>>
  THEN IF Listed \cap S = {} THEN n = NoView ELSE IsFirstListed(n, S)
  ELSE IsLowest(n, S)
ChoosesStickyFirst(n, S) ==
  IF S = {} THEN n = NoView
  ELSE IF view \in S THEN n = view
  ELSE IF viewNodes # <<>>
  THEN IF Listed \cap S = {} THEN n = NoView ELSE IsFirstListed(n, S)
  ELSE IsLowest(n, S)
Chooses(n, S) ==
  IF S = {} THEN n = NoView
  ELSE IF viewNodes # <<>>
  THEN IF Listed \cap S = {} THEN n = NoView ELSE IsFirstListed(n, S)
  ELSE IF view \in S THEN n = view
  ELSE IsLowest(n, S)

-----------------------------------------------------------------------------
NoCall == [now |-> 0, members |-> {}, answer |-> NoView]

Init ==
  /\ MeshInit
  /\ viewNodes \in Allowlists
  /\ view = NoView
  /\ pc = [c \in Viewers |-> "idle"]
  /\ call = [c \in Viewers |-> NoCall]
  /\ steady = [c \in Viewers |-> {}]
  /\ unbroken = FALSE

Goto(c, from, to) == pc[c] = from /\ pc' = [pc EXCEPT ![c] = to]

(* now := p.now() *)
ReadClock(c) ==
  /\ Goto(c, "idle", "members")
  /\ call' = [call EXCEPT ![c].now = clock]
  /\ steady' = [steady EXCEPT ![c] = Reachable(alive, clock)]
  /\ UNCHANGED <<meshVars, viewNodes, view, unbroken>>

(* members := p.members.Members() *)
ReadMembers(c) ==
  /\ Goto(c, "members", "lock")
  /\ call' = [call EXCEPT ![c].members = alive]
  /\ UNCHANGED <<meshVars, viewNodes, view, steady, unbroken>>

(* The critical section. *)
View(c) ==
  /\ Goto(c, "lock", "answered")
  /\ \E n \in Names \cup {NoView} :
       /\ Chooses(n, Eligible(c))
       /\ view' = n
       /\ call' = [call EXCEPT ![c].answer = n]
       /\ unbroken' = (n \in Reachable(alive, clock) /\ (n = view => unbroken))
  /\ UNCHANGED <<meshVars, viewNodes, steady>>

(* The caller has its answer; it may call again. *)
Return(c) ==
  /\ Goto(c, "answered", "idle")
  /\ call' = [call EXCEPT ![c] = NoCall]
  /\ steady' = [steady EXCEPT ![c] = {}]
  /\ UNCHANGED <<meshVars, viewNodes, view, unbroken>>

(* The mesh moves on; a node that stops being eligible is steady no more. *)
MeshStep ==
  /\ MeshNext
  /\ steady' = [c \in Viewers |-> steady[c] \cap Reachable(alive, clock)']
  /\ unbroken' = (unbroken /\ view \in Reachable(alive, clock)')
  /\ UNCHANGED <<viewNodes, view, pc, call>>

Step(c) == ReadClock(c) \/ ReadMembers(c) \/ View(c) \/ Return(c)

Next == MeshStep \/ \E c \in Viewers : Step(c)

Spec == Init /\ [][Next]_vars

-----------------------------------------------------------------------------
(* The page of a node the operator did not name never runs at the          *)
(* gateway's origin, whoever joins the mesh and however the calls          *)
(* interleave: every answer, and the stored choice, is on the allowlist    *)
(* if there is one (picker.go:197-201, 227-238).                           *)
AllowlistAuthoritative ==
  viewNodes # <<>> =>
    {view} \cup {call[c].answer : c \in Viewers} \subseteq Listed \cup {NoView}

(* The operator's order holds through joins, departures and late reports:  *)
(* no call answers with a node while a node named earlier was eligible     *)
(* throughout that call (picker.go:227-228).                               *)
PreferenceHolds ==
  \A c \in Viewers, i \in DOMAIN viewNodes :
    pc[c] = "answered" /\ call[c].answer = viewNodes[i] =>
      \E j \in 1 .. i : /\ viewNodes[j] = viewNodes[i]
                        /\ \A k \in 1 .. j - 1 : viewNodes[k] \notin steady[c]

(* Without an allowlist the view does not move off a node that stayed      *)
(* eligible for the whole of the call that would move it, although that    *)
(* call may rest on a clock and a member table read long before it stores  *)
(* its choice (picker.go:63-65, 240-244).                                  *)
StickyWhileSteady ==
  [][\A c \in Viewers :
       viewNodes = <<>> /\ pc[c] = "lock" /\ pc'[c] = "answered" /\ view \in steady[c]
         => view' = view]_vars

(* What picker.go:63-64 says of p.view: the sticky choice is kept while it *)
(* stays eligible.  Asked only of a choice that has been eligible, by the  *)
(* clock and the member table, at every moment since it was stored, and    *)
(* only without an allowlist, which has its own order.                     *)
KeptWhileEligible == [][viewNodes = <<>> /\ view' # view => ~unbroken]_vars
=============================================================================
