--------------------------- MODULE LifecycleProofs ---------------------------
(***************************************************************************)
(* The safety properties of Lifecycle, for every set of connections, peers *)
(* and environments.  A configuration is sound by what Load refuses; the   *)
(* rest follows from how far main has got, which says what is up.          *)
(***************************************************************************)
EXTENDS Lifecycle, TLAPS

(* What is up at each point of main's way. *)
Up ==
  /\ main \in Unguarded \cup {"keyed"} => mesh = "out" /\ poller = "none"
  /\ main \in {"joining", "meshed"} => mesh = "in" /\ poller = "none"
  /\ main = "stored" => mesh = "in" /\ poller = "made"
  /\ main \in {"joined", "serving", "draining", "leaving"} => mesh = "in" /\ poller = "running"
  /\ main = "stopping" => mesh = "left" /\ poller = "running"
  /\ main = "waiting" => mesh = "left" /\ poller \in {"told", "stopped"}
  /\ main = "returning" => mesh = "down" /\ poller = "stopped"
  /\ main = "exited" => \/ mesh = "out" /\ poller = "none"
                        \/ mesh = "down" /\ poller = "stopped"

(* A connection is up between the listener and the end of the drain, or    *)
(* after a drain that ran out of time.                                     *)
Served ==
  /\ server = "running" => main = "serving"
  /\ server = "none" => Opened = {}
  /\ server # "none" => main \notin Unguarded \cup {"keyed", "joining", "meshed", "stored", "joined"}
  /\ Opened # {} /\ ~overdue => main \in {"serving", "draining"}
  /\ (\E c \in Connections : conn[c] = "cut") => overdue

IInv == TypeOK /\ Up /\ Served /\ NoPollerNoEvent /\ ModeChosen /\ SizesExact

-----------------------------------------------------------------------------
(* What config.Load returns. *)

(* A number that fits is not changed by wrapping. *)
LEMMA WrapFits ==
  ASSUME NEW x \in Int, 0 <= x, x <= MaxInt
  PROVE  Wrap(x) = x
  <1>1. MaxInt \in Nat \ {0}
    BY ConfigAssumption
  <1> DEFINE w == MaxInt + 1
  <1>2. w \in Nat /\ w > 0 /\ 0 <= x + w /\ x + w < 2 * w
    BY <1>1
  <1> HIDE DEF w
  <1>3. (x + w) % (2 * w) = x + w
    BY <1>2
  <1>4. Wrap(x) = ((x + w) % (2 * w)) - w
    BY <1>1 DEF Wrap, w
  <1> QED
    BY <1>2, <1>3, <1>4

(* The largest count of a unit does not exceed what it was divided from. *)
LEMMA DivTimes ==
  ASSUME NEW m \in Nat, NEW u \in Nat \ {0}
  PROVE  (m \div u) * u <= m
  OBVIOUS

(* What ParseSize lets through multiplies out in 64 bits. *)
LEMMA SizeExact ==
  ASSUME NEW n \in Int, NEW u \in Nat \ {0}, n > 0, n <= MaxInt \div u
  PROVE  n * u \in Int /\ 0 < n * u /\ n * u <= MaxInt
  <1>1. MaxInt \in Nat
    BY ConfigAssumption
  <1> DEFINE q == MaxInt \div u
  <1>2. q \in Int /\ q * u <= MaxInt /\ q * u \in Int
    BY <1>1, DivTimes
  <1>3. n <= q
    OBVIOUS
  <1> HIDE DEF q
  <1>4. n * u <= q * u
    BY <1>2, <1>3
  <1>5. n * u \in Int /\ 0 < n * u
    OBVIOUS
  <1> QED
    BY <1>1, <1>2, <1>4, <1>5

(* An accepted environment is loaded as a sound mode. *)
LEMMA AcceptedMode ==
  ASSUME NEW e, Accepts(e)
  PROVE  ModeSound(Loaded(e))
  <1>1. ModeReads(e) /\ ViewNodesRead(e)
    BY DEF Accepts
  <1>2. /\ Loaded(e).open = Open(e)
        /\ Loaded(e).secured = Secured(e)
        /\ Loaded(e).previous = (e["meshSecretPrev"] # Unset)
        /\ Loaded(e).enforce = Or(e["meshEnforce"], "full")
        /\ Loaded(e).viewNodes = ViewNodes(e)
    BY DEF Loaded
  <1>3. \A i, j \in DOMAIN ViewNodes(e) : ViewNodes(e)[i] = ViewNodes(e)[j] => i = j
    <2>1. CASE e["viewNodes"] = Unset
      BY <2>1 DEF ViewNodes, Or
    <2>2. CASE e["viewNodes"] # Unset
      BY <2>2, <1>1 DEF ViewNodes, Or, ViewNodesRead, ListReads
    <2> QED
      BY <2>1, <2>2
  <1>4. Open(e) # Secured(e)
    BY <1>1 DEF ModeReads
  <1>5. Open(e) => ViewNodes(e) # <<>>
    BY <1>1 DEF ViewNodesRead
  <1>6. e["meshSecretPrev"] # Unset \/ Or(e["meshEnforce"], "full") # "full" => Secured(e)
    BY <1>1 DEF ModeReads
  <1> QED
    BY <1>2, <1>3, <1>4, <1>5, <1>6 DEF ModeSound

(* An accepted environment is loaded with the size it says. *)
LEMMA AcceptedSize ==
  ASSUME NEW e \in Environments, Accepts(e)
  PROVE  SizeSound(e, Loaded(e))
  <1> DEFINE s == e["maxBody"]
             max == Loaded(e).maxBody
  <1>1. MaxInt \in Nat \ {0} /\ DefaultBody \in 1 .. MaxInt
    BY ConfigAssumption
  <1>2. max \in 1 .. MaxInt /\ (s # Unset => max = s.n * s.unit)
    <2>1. CASE s = Unset
      BY <2>1, <1>1 DEF Loaded
    <2>2. CASE s # Unset
      <3>1. s # Bad /\ SizeFits(s)
        BY <2>2 DEF Accepts, LimitsRead
      <3>2. s.n \in Int /\ s.unit \in Nat \ {0}
        BY <2>2, <3>1, LifecycleAssumption
      <3>3. s.n * s.unit \in Int /\ 0 < s.n * s.unit /\ s.n * s.unit <= MaxInt
        BY <3>1, <3>2, SizeExact DEF SizeFits
      <3>4. Wrap(s.n * s.unit) = s.n * s.unit
        BY <3>3, WrapFits
      <3>5. max = Wrap(s.n * s.unit)
        BY <2>2 DEF Loaded, Size
      <3> QED
        BY <1>1, <3>3, <3>4, <3>5
    <2> QED
      BY <2>1, <2>2
  <1> QED
    BY <1>1, <1>2 DEF SizeSound

-----------------------------------------------------------------------------
LEMMA InitInv == Init => IInv
  <1> SUFFICES ASSUME Init PROVE IInv
    OBVIOUS
  <1>1. TypeOK
    BY DEF Init, TypeOK, Unguarded
  <1>2. Up
    BY DEF Init, Up, Unguarded
  <1>3. Served
    BY DEF Init, Served, Opened, Unguarded
  <1>4. NoPollerNoEvent /\ ModeChosen /\ SizesExact
    BY DEF Init, NoPollerNoEvent, ModeChosen, SizesExact, Configured
  <1> QED
    BY <1>1, <1>2, <1>3, <1>4 DEF IInv

(* Every variable keeps its type. *)
LEMMA TypeStep ==
  ASSUME IInv, Next
  PROVE  TypeOK'
  <1> USE DEF IInv, TypeOK, Up, Goto, ExitFrom, settings, fleet, serving, reasons, Unguarded
  <1>1. CASE LoadConfig
    BY <1>1 DEF LoadConfig
  <1>2. CASE ConfigRefused
    BY <1>2 DEF ConfigRefused
  <1>3. CASE LoadKeys
    BY <1>3 DEF LoadKeys
  <1>4. CASE KeysRefused
    BY <1>4 DEF KeysRefused
  <1>5. CASE BeginJoin
    BY <1>5 DEF BeginJoin, ForgetSettings
  <1>6. CASE PortRefused
    BY <1>6 DEF PortRefused
  <1>7. CASE MeshStarted
    BY <1>7 DEF MeshStarted
  <1>8. CASE JoinFails
    BY <1>8 DEF JoinFails
  <1>9. CASE StorePoller
    BY <1>9 DEF StorePoller
  <1>10. CASE RunPoller
    BY <1>10 DEF RunPoller
  <1>11. CASE Listen
    BY <1>11 DEF Listen
  <1>12. CASE ListenFails
    BY <1>12 DEF ListenFails
  <1>13. CASE Stop
    BY <1>13 DEF Stop, ReasonsToStop
  <1>14. CASE DrainEnds
    BY <1>14 DEF DrainEnds, Drained
  <1>15. CASE Leave
    BY <1>15 DEF Leave
  <1>16. CASE StopPoller
    BY <1>16 DEF StopPoller
  <1>17. CASE ShutMesh
    BY <1>17 DEF ShutMesh, PollerDone
  <1>18. CASE Exit
    BY <1>18 DEF Exit, Active, Opened
  <1>19. CASE DrainTimeout
    BY <1>19 DEF DrainTimeout
  <1>20. CASE PollerReturns
    BY <1>20 DEF PollerReturns
  <1>21. CASE Killed
    BY <1>21 DEF Killed
  <1>22. CASE Signal
    BY <1>22 DEF Signal
  <1>23. CASE MeshFatal
    BY <1>23 DEF MeshFatal
  <1>24. CASE ServeFails
    BY <1>24 DEF ServeFails
  <1>25. CASE PollTick
    BY <1>25 DEF PollTick
  <1>26. ASSUME NEW p \in Peers, PeerJoins(p) PROVE TypeOK'
    BY <1>26 DEF PeerJoins, Kinds
  <1>27. ASSUME NEW p \in Peers, PeerLeaves(p) PROVE TypeOK'
    BY <1>27 DEF PeerLeaves, Kinds
  <1>28. ASSUME NEW p \in Peers, NEW k \in Kinds, OnChange(p, k) PROVE TypeOK'
    BY <1>28 DEF OnChange, Handles, Followed
  <1>29. ASSUME NEW c \in Connections, Accept(c) PROVE TypeOK'
    BY <1>29 DEF Accept
  <1>30. ASSUME NEW c \in Connections, Request(c) PROVE TypeOK'
    BY <1>30 DEF Request
  <1>31. ASSUME NEW c \in Connections, Finish(c) PROVE TypeOK'
    BY <1>31 DEF Finish
  <1>32. ASSUME NEW c \in Connections, CloseIdle(c) PROVE TypeOK'
    BY <1>32 DEF CloseIdle
  <1> QED
    BY <1>1, <1>2, <1>3, <1>4, <1>5, <1>6, <1>7, <1>8, <1>9, <1>10, <1>11,
       <1>12, <1>13, <1>14, <1>15, <1>16, <1>17, <1>18, <1>19, <1>20,
       <1>21, <1>22, <1>23, <1>24, <1>25, <1>26, <1>27, <1>28, <1>29, <1>30,
       <1>31, <1>32 DEF Next, Main

(* What is up stays in step with how far main has got. *)
LEMMA UpStep ==
  ASSUME IInv, Next
  PROVE  Up'
  <1> USE DEF IInv, TypeOK, Up, Goto, ExitFrom, settings, fleet, serving, reasons, Unguarded
  <1>1. CASE LoadConfig
    BY <1>1 DEF LoadConfig
  <1>2. CASE ConfigRefused
    BY <1>2 DEF ConfigRefused
  <1>3. CASE LoadKeys
    BY <1>3 DEF LoadKeys
  <1>4. CASE KeysRefused
    BY <1>4 DEF KeysRefused
  <1>5. CASE BeginJoin
    BY <1>5 DEF BeginJoin, ForgetSettings
  <1>6. CASE PortRefused
    BY <1>6 DEF PortRefused
  <1>7. CASE MeshStarted
    BY <1>7 DEF MeshStarted
  <1>8. CASE JoinFails
    BY <1>8 DEF JoinFails
  <1>9. CASE StorePoller
    BY <1>9 DEF StorePoller
  <1>10. CASE RunPoller
    BY <1>10 DEF RunPoller
  <1>11. CASE Listen
    BY <1>11 DEF Listen
  <1>12. CASE ListenFails
    BY <1>12 DEF ListenFails
  <1>13. CASE Stop
    BY <1>13 DEF Stop, ReasonsToStop
  <1>14. CASE DrainEnds
    BY <1>14 DEF DrainEnds, Drained
  <1>15. CASE Leave
    BY <1>15 DEF Leave
  <1>16. CASE StopPoller
    BY <1>16 DEF StopPoller
  <1>17. CASE ShutMesh
    BY <1>17 DEF ShutMesh, PollerDone
  <1>18. CASE Exit
    BY <1>18 DEF Exit, Active, Opened
  <1>19. CASE DrainTimeout
    BY <1>19 DEF DrainTimeout
  <1>20. CASE PollerReturns
    BY <1>20 DEF PollerReturns
  <1>21. CASE Killed
    BY <1>21 DEF Killed
  <1>22. CASE Signal
    BY <1>22 DEF Signal
  <1>23. CASE MeshFatal
    BY <1>23 DEF MeshFatal
  <1>24. CASE ServeFails
    BY <1>24 DEF ServeFails
  <1>25. CASE PollTick
    BY <1>25 DEF PollTick
  <1>26. ASSUME NEW p \in Peers, PeerJoins(p) PROVE Up'
    BY <1>26 DEF PeerJoins
  <1>27. ASSUME NEW p \in Peers, PeerLeaves(p) PROVE Up'
    BY <1>27 DEF PeerLeaves
  <1>28. ASSUME NEW p \in Peers, NEW k \in Kinds, OnChange(p, k) PROVE Up'
    BY <1>28 DEF OnChange, Handles, Followed
  <1>29. ASSUME NEW c \in Connections, Accept(c) PROVE Up'
    BY <1>29 DEF Accept
  <1>30. ASSUME NEW c \in Connections, Request(c) PROVE Up'
    BY <1>30 DEF Request
  <1>31. ASSUME NEW c \in Connections, Finish(c) PROVE Up'
    BY <1>31 DEF Finish
  <1>32. ASSUME NEW c \in Connections, CloseIdle(c) PROVE Up'
    BY <1>32 DEF CloseIdle
  <1> QED
    BY <1>1, <1>2, <1>3, <1>4, <1>5, <1>6, <1>7, <1>8, <1>9, <1>10, <1>11,
       <1>12, <1>13, <1>14, <1>15, <1>16, <1>17, <1>18, <1>19, <1>20,
       <1>21, <1>22, <1>23, <1>24, <1>25, <1>26, <1>27, <1>28, <1>29, <1>30,
       <1>31, <1>32 DEF Next, Main

(* Requests are active only while they are served. *)
LEMMA ServedStep ==
  ASSUME IInv, Next
  PROVE  Served'
  <1> USE DEF IInv, TypeOK, Served, Opened, Goto, ExitFrom, settings, fleet, serving, reasons,
              Unguarded
  <1>1. CASE LoadConfig
    BY <1>1 DEF LoadConfig
  <1>2. CASE ConfigRefused
    BY <1>2 DEF ConfigRefused
  <1>3. CASE LoadKeys
    BY <1>3 DEF LoadKeys
  <1>4. CASE KeysRefused
    BY <1>4 DEF KeysRefused
  <1>5. CASE BeginJoin
    BY <1>5 DEF BeginJoin, ForgetSettings
  <1>6. CASE PortRefused
    BY <1>6 DEF PortRefused
  <1>7. CASE MeshStarted
    BY <1>7 DEF MeshStarted
  <1>8. CASE JoinFails
    BY <1>8 DEF JoinFails
  <1>9. CASE StorePoller
    BY <1>9 DEF StorePoller
  <1>10. CASE RunPoller
    BY <1>10 DEF RunPoller
  <1>11. CASE Listen
    BY <1>11 DEF Listen
  <1>12. CASE ListenFails
    BY <1>12 DEF ListenFails
  <1>13. CASE Stop
    BY <1>13 DEF Stop, ReasonsToStop
  <1>14. CASE DrainEnds
    BY <1>14 DEF DrainEnds, Drained
  <1>15. CASE Leave
    BY <1>15 DEF Leave
  <1>16. CASE StopPoller
    BY <1>16 DEF StopPoller
  <1>17. CASE ShutMesh
    BY <1>17 DEF ShutMesh, PollerDone
  <1>18. CASE Exit
    BY <1>18 DEF Exit, Active, Opened
  <1>19. CASE DrainTimeout
    BY <1>19 DEF DrainTimeout
  <1>20. CASE PollerReturns
    BY <1>20 DEF PollerReturns
  <1>21. CASE Killed
    BY <1>21 DEF Killed
  <1>22. CASE Signal
    BY <1>22 DEF Signal
  <1>23. CASE MeshFatal
    BY <1>23 DEF MeshFatal
  <1>24. CASE ServeFails
    BY <1>24 DEF ServeFails
  <1>25. CASE PollTick
    BY <1>25 DEF PollTick
  <1>26. ASSUME NEW p \in Peers, PeerJoins(p) PROVE Served'
    BY <1>26 DEF PeerJoins
  <1>27. ASSUME NEW p \in Peers, PeerLeaves(p) PROVE Served'
    BY <1>27 DEF PeerLeaves
  <1>28. ASSUME NEW p \in Peers, NEW k \in Kinds, OnChange(p, k) PROVE Served'
    BY <1>28 DEF OnChange
  <1>29. ASSUME NEW c \in Connections, Accept(c) PROVE Served'
    BY <1>29 DEF Accept
  <1>30. ASSUME NEW c \in Connections, Request(c) PROVE Served'
    BY <1>30 DEF Request
  <1>31. ASSUME NEW c \in Connections, Finish(c) PROVE Served'
    BY <1>31 DEF Finish
  <1>32. ASSUME NEW c \in Connections, CloseIdle(c) PROVE Served'
    BY <1>32 DEF CloseIdle
  <1> QED
    BY <1>1, <1>2, <1>3, <1>4, <1>5, <1>6, <1>7, <1>8, <1>9, <1>10, <1>11,
       <1>12, <1>13, <1>14, <1>15, <1>16, <1>17, <1>18, <1>19, <1>20,
       <1>21, <1>22, <1>23, <1>24, <1>25, <1>26, <1>27, <1>28, <1>29, <1>30,
       <1>31, <1>32 DEF Next, Main

(* Events are handled only once there is a poller, and it is only taken    *)
(* away by an exit.                                                        *)
LEMMA EventStep ==
  ASSUME IInv, Next
  PROVE  NoPollerNoEvent'
  <1> USE DEF IInv, NoPollerNoEvent, fleet
  <1>1. CASE StorePoller \/ RunPoller \/ StopPoller \/ PollerReturns \/ PollTick
    BY <1>1 DEF StorePoller, RunPoller, StopPoller, PollerReturns, PollTick
  <1>2. ASSUME NEW p \in Peers, NEW k \in Kinds, OnChange(p, k) PROVE NoPollerNoEvent'
    BY <1>2 DEF OnChange, Handles
  <1>3. CASE UNCHANGED <<poller, known>>
    BY <1>3
  <1>4. UNCHANGED <<poller, known>> \/ StorePoller \/ RunPoller \/ StopPoller
        \/ PollerReturns \/ PollTick \/ \E p \in Peers, k \in Kinds : OnChange(p, k)
    BY DEF Next, Main, LoadConfig, ConfigRefused, LoadKeys, KeysRefused, BeginJoin, PortRefused,
           MeshStarted, JoinFails, Listen, ListenFails, Stop, DrainEnds, Leave, ShutMesh, Exit,
           DrainTimeout, Killed, Signal, MeshFatal, ServeFails, PeerJoins, PeerLeaves,
           Accept, Request, Finish, CloseIdle
  <1> QED
    BY <1>1, <1>2, <1>3, <1>4

(* The settings main works with are those Load accepted.                   *)
LEMMA SettingsStep ==
  ASSUME IInv, Next
  PROVE  ModeChosen' /\ SizesExact'
  <1> USE DEF IInv, ModeChosen, SizesExact, Configured, Goto, ExitFrom, settings
  <1>1. CASE LoadConfig
    <2>1. env \in Environments /\ Accepts(env) /\ config' = Loaded(env) /\ env' = env
      BY <1>1 DEF LoadConfig, TypeOK, Unguarded
    <2> QED
      BY <2>1, AcceptedMode, AcceptedSize
  <1>2. CASE UNCHANGED settings /\ (main' = main \/ ~Configured' \/ Configured)
    BY <1>2
  <1>3. CASE ~Configured'
    BY <1>3
  <1>4. LoadConfig \/ ~Configured' \/ (UNCHANGED settings /\ (main' = main \/ Configured))
    BY DEF Next, Main, ConfigRefused, LoadKeys, KeysRefused, BeginJoin, PortRefused,
           MeshStarted, JoinFails, StorePoller, RunPoller, Listen, ListenFails, Stop, DrainEnds,
           Leave, StopPoller, ShutMesh, Exit, DrainTimeout, PollerReturns, Killed, Signal,
           MeshFatal, ServeFails, PollTick, PeerJoins, PeerLeaves, OnChange, Accept, Request,
           Finish, CloseIdle
  <1> QED
    BY <1>1, <1>2, <1>3, <1>4

LEMMA NextInv == IInv /\ [Next]_vars => IInv'
  <1> SUFFICES ASSUME IInv, [Next]_vars PROVE IInv'
    OBVIOUS
  <1>1. CASE Next
    BY <1>1, TypeStep, UpStep, ServedStep, EventStep, SettingsStep DEF IInv
  <1>2. CASE UNCHANGED vars
    BY <1>2 DEF IInv, TypeOK, Up, Served, Opened, NoPollerNoEvent, ModeChosen, SizesExact,
                Configured, Unguarded, vars, settings, fleet, serving, reasons
  <1> QED
    BY <1>1, <1>2

(* The inductive invariant holds.                                          *)
THEOREM Invariance == Spec => []IInv
BY InitInv, NextInv, PTL DEF Spec

-----------------------------------------------------------------------------
(* Every variable keeps its type, and main's way is in step with what is   *)
(* up (main.go:28-138).                                                    *)
THEOREM Typing == Spec => []TypeOK
BY Invariance, PTL DEF IInv

(* The poller is stopped before the mesh it reads is shut down             *)
(* (fleet.go:184-200).                                                     *)
THEOREM PollerFirst == Spec => []PollerHasMesh
  <1>1. IInv => PollerHasMesh
    BY DEF IInv, TypeOK, Up, PollerHasMesh, Unguarded
  <1> QED
    BY <1>1, Invariance, PTL

(* No request in flight loses the mesh or the poller before the drain's    *)
(* deadline, and the mesh goes after its poller (main.go:92-100, 126-138,  *)
(* fleet.go:184-200).                                                      *)
THEOREM DrainFirst == Spec => []DrainBeforeLeave
  <1>1. IInv /\ PollerHasMesh => DrainBeforeLeave
    BY DEF IInv, Up, Served, DrainBeforeLeave, Active, Opened
  <1> QED
    BY <1>1, Invariance, PollerFirst, PTL

(* Every exit leaves the mesh first (main.go:55-63, 92-100).               *)
THEOREM AlwaysLeaves == Spec => []LeavesOnEveryPath
  <1>1. IInv => LeavesOnEveryPath
    BY DEF IInv, Up, LeavesOnEveryPath
  <1> QED
    BY <1>1, Invariance, PTL

(* What any step can do once the way down has begun.                       *)
LEMMA WayDownStep ==
  ASSUME IInv, Next, GoingDown
  PROVE  /\ Opened' \subseteq Opened
         /\ Active \ Active' \subseteq Opened \ Opened'
         /\ StepsDown' <= StepsDown
         /\ Main \/ DrainTimeout \/ PollerReturns => StepsDown' < StepsDown
         /\ failed' = failed
  <1> USE DEF GoingDown, StepsDown, Goto, ExitFrom, settings, fleet, serving, reasons
  <1>1. CASE DrainEnds \/ DrainTimeout \/ Leave \/ StopPoller \/ ShutMesh
    BY <1>1 DEF DrainEnds, DrainTimeout, Leave, StopPoller, ShutMesh, PollerDone, Opened, Active
  <1>2. CASE Exit
    BY <1>2 DEF Exit, Opened, Active, IInv, TypeOK
  <1>3. CASE PollerReturns
    BY <1>3 DEF PollerReturns, Opened, Active, IInv, Up
  <1>4. CASE \/ LoadConfig \/ ConfigRefused \/ LoadKeys \/ KeysRefused
             \/ BeginJoin \/ PortRefused \/ MeshStarted \/ JoinFails \/ StorePoller \/ RunPoller
             \/ Listen \/ ListenFails \/ Stop \/ Killed
    BY <1>4 DEF LoadConfig, ConfigRefused, LoadKeys, KeysRefused, BeginJoin, PortRefused,
                MeshStarted, JoinFails, StorePoller, RunPoller, Listen, ListenFails, Stop,
                Killed, Unguarded
  <1>5. CASE \/ Signal \/ MeshFatal \/ ServeFails \/ PollTick
             \/ \E p \in Peers :
                  PeerJoins(p) \/ PeerLeaves(p) \/ \E k \in Kinds : OnChange(p, k)
             \/ \E c \in Connections : Accept(c) \/ Request(c) \/ Finish(c) \/ CloseIdle(c)
    <2>1. main' = main /\ poller' = poller /\ failed' = failed
      BY <1>5 DEF Signal, MeshFatal, ServeFails, PollTick, PeerJoins, PeerLeaves, OnChange,
                  Accept, Request, Finish, CloseIdle
    <2>2. server # "running"
      BY DEF IInv, Served
    <2>3. Opened' \subseteq Opened /\ Active \ Active' \subseteq Opened \ Opened'
      <3>1. CASE \E c \in Connections : Accept(c) \/ Request(c) \/ Finish(c) \/ CloseIdle(c)
        BY <3>1, <2>2 DEF Accept, Request, Finish, CloseIdle, Opened, Active, IInv, TypeOK
      <3>2. CASE UNCHANGED conn
        BY <3>2 DEF Opened, Active
      <3> QED
        BY <1>5, <3>1, <3>2 DEF Signal, MeshFatal, ServeFails, PollTick, PeerJoins, PeerLeaves,
                                OnChange
    <2>4. ~(Main \/ DrainTimeout \/ PollerReturns)
      <3>1. Main \/ DrainTimeout => main' # main
        BY DEF Main, DrainTimeout, LoadConfig, ConfigRefused, LoadKeys, KeysRefused, BeginJoin,
               PortRefused, MeshStarted, JoinFails, StorePoller, RunPoller, Listen, ListenFails,
               Stop, DrainEnds, Leave, StopPoller, ShutMesh, Exit
      <3>2. PollerReturns => poller' # poller
        BY DEF PollerReturns
      <3> QED
        BY <2>1, <3>1, <3>2
    <2> QED
      BY <2>1, <2>3, <2>4
  <1> QED
    BY <1>1, <1>2, <1>3, <1>4, <1>5 DEF Next, Main

(* The way down is one way, for any connections, peers and configuration:  *)
(* the safety part of StopsWhenTold (main.go:111-138, fleet.go:184-200).   *)
THEOREM OneWayDown == Spec => ComesDown
  <1>1. IInv /\ [Next]_vars =>
          [GoingDown =>
             /\ Opened' \subseteq Opened
             /\ Active \ Active' \subseteq Opened \ Opened'
             /\ StepsDown' <= StepsDown
             /\ Main \/ DrainTimeout \/ PollerReturns => StepsDown' < StepsDown
             /\ failed' = failed]_vars
    BY WayDownStep
  <1> QED
    BY <1>1, Invariance, PTL DEF Spec, ComesDown

(* No event reaches a poller that is not there (fleet.go:64-78).           *)
THEOREM EventsWait == Spec => []NoPollerNoEvent
BY Invariance, PTL DEF IInv

(* Whatever the environment, the mesh main goes on with is secured or open *)
(* and never both, and an open one has its view nodes named                *)
(* (config.go:165-172, 276-321).                                           *)
THEOREM SoundMode == Spec => []ModeChosen
BY Invariance, PTL DEF IInv

(* Whatever the environment, the size of a body is what it says, in any    *)
(* width of integer (config.go:410-443).                                   *)
THEOREM ExactSizes == Spec => []SizesExact
BY Invariance, PTL DEF IInv
=============================================================================
