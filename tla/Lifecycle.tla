----------------------------- MODULE Lifecycle ------------------------------
(***************************************************************************)
(* main, serve and fleet.Fleet's Start and Close: reading the              *)
(* configuration, joining the mesh, handing the poller to its events,      *)
(* serving, and the way down - drain HTTP, then leave the mesh, then stop  *)
(* the capacity poller, then shut membership down.                         *)
(*                                                                         *)
(* The goroutine of main, the one of srv.Serve, the poller's, that of the  *)
(* mesh's events and those of the connections run side by side; a signal   *)
(* (SIGINT or SIGTERM), a fatal mesh error and a failing listener may come *)
(* at any time.  http.Server.Shutdown closes the listener at once and idle *)
(* connections as it finds them, and returns when none is left or when its *)
(* context's 15 seconds are over.                                          *)
(***************************************************************************)
EXTENDS Config

CONSTANTS
  Connections,    \* of clients
  Peers,          \* the members of the mesh besides this one
  Environments    \* the environments an operator may start the gateway in

(* A size that parses is a number and a unit. *)
ASSUME LifecycleAssumption ==
  \A e \in Environments :
    e["maxBody"] \notin {Unset, Bad} =>
      e["maxBody"].n \in Int /\ e["maxBody"].unit \in Nat \ {0}

VARIABLES
  main,       \* where main's goroutine is, main, Start, serve and Close together
  env,        \* the process's environment, until it has been used
  config,     \* main's cfg, until it has been used
  mesh,       \* this gateway's membership
  member,     \* the other members, as mesh.Members lists them
  event,      \* the comings and goings that have not reached OnChange yet
  poller,     \* the poller and its goroutine; "none" is pollerRef's nil
  known,      \* the peers the poller polls
  server,     \* srv.Serve's goroutine
  conn,       \* conn[c]: what has become of connection c
  cancelled,  \* ctx of signal.NotifyContext
  fatal,      \* an error waits in mesh.Fatal()
  overdue,    \* the drain's deadline has passed
  failed      \* the process exits with other than 0

settings == <<env, config>>
fleet == <<mesh, member, event, poller, known>>
serving == <<server, conn>>
reasons == <<cancelled, fatal, overdue, failed>>

vars == <<main, settings, fleet, serving, reasons>>

(* Before signal.NotifyContext, when a signal still kills the process. *)
Unguarded == {"start", "configured"}

(* What an event says of a peer.  Updates change nothing here. *)
Kinds == {"join", "gone"}

(* Every variable has its type, and main's way up and down is in step with *)
(* what it has brought up and taken down.                                  *)
TypeOK ==
  /\ main \in Unguarded \cup
       {"keyed", "joining", "meshed", "stored", "joined", "serving", "draining", "leaving",
        "stopping", "waiting", "returning", "exited"}
  /\ main \in Unguarded \cup {"keyed"} => env \in Environments
  /\ mesh \in {"out", "in", "left", "down"}
  /\ member \subseteq Peers /\ event \subseteq Peers \X Kinds /\ known \subseteq Peers
  /\ poller \in {"none", "made", "running", "told", "stopped"}
  /\ server \in {"none", "running", "failed", "closed"}
  /\ conn \in [Connections -> {"none", "idle", "active", "closed", "cut"}]
  /\ cancelled \in BOOLEAN /\ fatal \in BOOLEAN /\ overdue \in BOOLEAN /\ failed \in BOOLEAN
  /\ main = "serving" => mesh = "in" /\ server \in {"running", "failed"}
  /\ main = "waiting" => poller \in {"told", "stopped"}

(* The connections that are up, and those a request is served on. *)
Opened == {c \in Connections : conn[c] \in {"idle", "active"}}
Active == {c \in Connections : conn[c] = "active"}

-----------------------------------------------------------------------------
Init ==
  /\ main = "start"
  /\ env \in Environments
  /\ config = Unset
  /\ mesh = "out"
  /\ member = {}
  /\ event = {}
  /\ poller = "none"
  /\ known = {}
  /\ server = "none"
  /\ conn = [c \in Connections |-> "none"]
  /\ cancelled = FALSE
  /\ fatal = FALSE
  /\ overdue = FALSE
  /\ failed = FALSE

Goto(from, to) == main = from /\ main' = to

(* os.Exit(1) *)
ExitFrom(from) == Goto(from, "exited") /\ failed' = TRUE

-----------------------------------------------------------------------------
(* main, up to the listener. *)

LoadConfig ==
  /\ Goto("start", "configured")
  /\ Accepts(env)
  /\ config' = Loaded(env)
  /\ UNCHANGED <<env, fleet, serving, reasons>>

ConfigRefused ==
  /\ ExitFrom("start")
  /\ ~Accepts(env)
  /\ UNCHANGED <<settings, fleet, serving, cancelled, fatal, overdue>>

(* keys.Load, then signal.NotifyContext. *)
LoadKeys ==
  /\ Goto("configured", "keyed")
  /\ UNCHANGED <<settings, fleet, serving, reasons>>

KeysRefused ==
  /\ ExitFrom("configured")
  /\ UNCHANGED <<settings, fleet, serving, cancelled, fatal, overdue>>

(* Nothing below looks at the settings again, so they are forgotten here. *)
ForgetSettings == env' = Unset /\ config' = Unset

(* fleet.Start, up to mesh.Start, which announces this gateway and begins  *)
(* to deliver events.                                                      *)
BeginJoin ==
  /\ Goto("keyed", "joining")
  /\ HasPort(config)
  /\ ForgetSettings
  /\ mesh' = "in"
  /\ UNCHANGED <<member, event, poller, known, serving, reasons>>

PortRefused ==
  /\ ExitFrom("keyed")
  /\ ~HasPort(config)
  /\ UNCHANGED <<settings, fleet, serving, cancelled, fatal, overdue>>

(* mesh.Start returns. *)
MeshStarted ==
  /\ Goto("joining", "meshed")
  /\ UNCHANGED <<settings, fleet, serving, reasons>>

JoinFails ==
  /\ ExitFrom("joining")
  /\ mesh' = "out"
  /\ UNCHANGED <<settings, member, event, poller, known, serving, cancelled, fatal, overdue>>

(* capacity.NewPoller and pollerRef.Store *)
StorePoller ==
  /\ Goto("meshed", "stored")
  /\ poller' = "made"
  /\ UNCHANGED <<settings, mesh, member, event, known, serving, reasons>>

RunPollerForgotten ==
  /\ Goto("stored", "joined")
  /\ UNCHANGED <<settings, fleet, serving, reasons>>
(* go poller.Run *)
RunPoller ==
  /\ Goto("stored", "joined")
  /\ poller' = "running"
  /\ UNCHANGED <<settings, mesh, member, event, known, serving, reasons>>

-----------------------------------------------------------------------------
(* The mesh and the poller. *)

(* A peer joins, or leaves or fails, and an event of it is on its way. *)
PeerJoins(p) ==
  /\ main # "exited"
  /\ mesh = "in"
  /\ p \notin member
  /\ member' = member \cup {p}
  /\ event' = event \cup {<<p, "join">>}
  /\ UNCHANGED <<main, settings, mesh, poller, known, serving, reasons>>

PeerLeaves(p) ==
  /\ main # "exited"
  /\ mesh = "in"
  /\ p \in member
  /\ member' = member \ {p}
  /\ event' = event \cup {<<p, "gone">>}
  /\ UNCHANGED <<main, settings, mesh, poller, known, serving, reasons>>

(* The poller OnChange finds in pollerRef. *)
Handles == poller # "none"

(* Poller.HandleMemberEvent: a peer is polled from its join until it goes. *)
Followed(p, kind) == IF kind = "join" THEN known \cup {p} ELSE known \ {p}

(* mesh.Options.OnChange, on the goroutine of the mesh's events. *)
OnChange(p, kind) ==
  /\ main # "exited"
  /\ <<p, kind>> \in event
  /\ event' = event \ {<<p, kind>>}
  /\ known' = IF Handles THEN Followed(p, kind) ELSE known
  /\ UNCHANGED <<main, settings, mesh, member, poller, serving, reasons>>

(* The poller's tick, which reads the whole member list. *)
PollTick ==
  /\ main # "exited"
  /\ poller = "running"
  /\ known # member
  /\ known' = member
  /\ UNCHANGED <<main, settings, mesh, member, event, poller, serving, reasons>>

-----------------------------------------------------------------------------
(* main from the listener on, serve and Close. *)

ListenWithoutServe ==
  /\ Goto("joined", "serving")
  /\ UNCHANGED <<settings, fleet, serving, reasons>>
(* net.Listen, then serve's goroutine calls srv.Serve. *)
Listen ==
  /\ Goto("joined", "serving")
  /\ server' = "running"
  /\ UNCHANGED <<settings, fleet, conn, reasons>>

(* net.Listen fails: fl.Close, then os.Exit(1). *)
ListenFailsExits ==
  /\ Goto("joined", "exited")
  /\ failed' = TRUE
  /\ UNCHANGED <<settings, fleet, serving, cancelled, fatal, overdue>>
ListenFails ==
  /\ Goto("joined", "leaving")
  /\ failed' = TRUE
  /\ UNCHANGED <<settings, fleet, serving, cancelled, fatal, overdue>>

(* serve's select: any ready arm.  Shutdown begins by closing the listener. *)
ReasonsToStop ==
  (IF cancelled THEN {FALSE} ELSE {}) \cup (IF fatal \/ server = "failed" THEN {TRUE} ELSE {})

StopWithoutDrain ==
  /\ Goto("serving", "leaving")
  /\ failed' \in ReasonsToStop
  /\ server' = IF server = "running" THEN "closed" ELSE server
  /\ UNCHANGED <<settings, fleet, conn, cancelled, fatal, overdue>>
StopStillListening ==
  /\ Goto("serving", "draining")
  /\ failed' \in ReasonsToStop
  /\ UNCHANGED <<settings, fleet, serving, cancelled, fatal, overdue>>
Stop ==
  /\ Goto("serving", "draining")
  /\ failed' \in ReasonsToStop
  /\ server' = IF server = "running" THEN "closed" ELSE server
  /\ UNCHANGED <<settings, fleet, conn, cancelled, fatal, overdue>>

(* srv.Shutdown returns: no connection is left. *)
Drained == Opened = {}

DrainEnds ==
  /\ Drained
  /\ Goto("draining", "leaving")
  /\ UNCHANGED <<settings, fleet, serving, reasons>>

(* srv.Shutdown returns: its context is done. *)
DrainTimeoutNever ==
  /\ FALSE
  /\ UNCHANGED vars
DrainTimeout ==
  /\ Goto("draining", "leaving")
  /\ overdue' = TRUE
  /\ UNCHANGED <<settings, fleet, serving, cancelled, fatal, failed>>

(* Close: f.mesh.Leave; its error does not stop what follows. *)
Leave ==
  /\ Goto("leaving", "stopping")
  /\ mesh' = "left"
  /\ UNCHANGED <<settings, member, event, poller, known, serving, reasons>>

(* Close: f.stopPoller() *)
StopPoller ==
  /\ Goto("stopping", "waiting")
  /\ poller' = "told"
  /\ UNCHANGED <<settings, mesh, member, event, known, serving, reasons>>

(* Close: <-f.pollerDone, then f.mesh.Shutdown() *)
PollerDoneUnasked == TRUE
PollerDone == poller = "stopped"

ShutMesh ==
  /\ PollerDone
  /\ Goto("waiting", "returning")
  /\ mesh' = "down"
  /\ UNCHANGED <<settings, member, event, poller, known, serving, reasons>>

(* serve returns and the process exits; what is still running is cut off. *)
Exit ==
  /\ Goto("returning", "exited")
  /\ conn' = [c \in Connections |-> IF c \in Active THEN "cut"
                                    ELSE IF c \in Opened THEN "closed" ELSE conn[c]]
  /\ UNCHANGED <<settings, fleet, server, reasons>>

(* The poller's goroutine notices that its context is cancelled. *)
PollerReturns ==
  /\ main # "exited"
  /\ poller = "told"
  /\ poller' = "stopped"
  /\ UNCHANGED <<main, settings, mesh, member, event, known, serving, reasons>>

-----------------------------------------------------------------------------
(* A signal nobody has asked for yet ends the process. *)
Killed ==
  /\ main \in Unguarded
  /\ main' = "exited"
  /\ failed' = TRUE
  /\ UNCHANGED <<settings, fleet, serving, cancelled, fatal, overdue>>

Signal ==
  /\ main \notin Unguarded \cup {"exited"}
  /\ ~cancelled
  /\ cancelled' = TRUE
  /\ UNCHANGED <<main, settings, fleet, serving, fatal, overdue, failed>>

MeshFatal ==
  /\ main # "exited"
  /\ mesh = "in"
  /\ ~fatal
  /\ fatal' = TRUE
  /\ UNCHANGED <<main, settings, fleet, serving, cancelled, overdue, failed>>

ServeFails ==
  /\ main # "exited"
  /\ server = "running"
  /\ server' = "failed"
  /\ UNCHANGED <<main, settings, fleet, conn, reasons>>

Accept(c) ==
  /\ main # "exited"
  /\ server = "running"
  /\ conn[c] = "none"
  /\ conn' = [conn EXCEPT ![c] = "idle"]
  /\ UNCHANGED <<main, settings, fleet, server, reasons>>

(* A request comes in on a connection that is up, during the drain too:    *)
(* Shutdown closes a connection only when it finds it idle.                *)
Request(c) ==
  /\ main # "exited"
  /\ conn[c] = "idle"
  /\ conn' = [conn EXCEPT ![c] = "active"]
  /\ UNCHANGED <<main, settings, fleet, server, reasons>>

(* The response ends.  The connection may be kept for another request      *)
(* unless Shutdown has begun.                                              *)
Finish(c) ==
  /\ main # "exited"
  /\ conn[c] = "active"
  /\ \E next \in {"idle", "closed"} :
       /\ next = "idle" => main = "serving"
       /\ conn' = [conn EXCEPT ![c] = next]
  /\ UNCHANGED <<main, settings, fleet, server, reasons>>

(* Either side closes a connection that nothing is served on. *)
CloseIdle(c) ==
  /\ main # "exited"
  /\ conn[c] = "idle"
  /\ conn' = [conn EXCEPT ![c] = "closed"]
  /\ UNCHANGED <<main, settings, fleet, server, reasons>>

Main ==
  \/ LoadConfig \/ ConfigRefused \/ LoadKeys \/ KeysRefused
  \/ BeginJoin \/ PortRefused \/ MeshStarted \/ JoinFails \/ StorePoller \/ RunPoller
  \/ Listen \/ ListenFails \/ Stop \/ DrainEnds
  \/ Leave \/ StopPoller \/ ShutMesh \/ Exit

Next ==
  \/ Main \/ DrainTimeout \/ PollerReturns
  \/ Killed \/ Signal \/ MeshFatal \/ ServeFails
  \/ PollTick
  \/ \E p \in Peers : PeerJoins(p) \/ PeerLeaves(p) \/ \E k \in Kinds : OnChange(p, k)
  \/ \E c \in Connections : Accept(c) \/ Request(c) \/ Finish(c) \/ CloseIdle(c)

(* Main's goroutine goes on when it can, the deadline passes, the poller   *)
(* ticks and notices its context.  No request is assumed ever to end, no   *)
(* connection to close and no event to be handled.  mesh.Leave and         *)
(* mesh.Shutdown are taken to return, as the library says they do.         *)
Fairness ==
  /\ WF_vars(Main) /\ WF_vars(DrainTimeout)
  /\ WF_vars(PollTick) /\ WF_vars(PollerReturns)

Spec == Init /\ [][Next]_vars /\ Fairness

-----------------------------------------------------------------------------
(* The poller, which reads the member list, never runs against a mesh that *)
(* has been shut down (fleet.go:91-96, 191-194).                           *)
PollerHasMesh == mesh = "down" => poller = "stopped"

(* The process comes down in order.  A request in flight still has the     *)
(* mesh under it: it is a member, and its reports are kept fresh, until    *)
(* the request ends or the drain's deadline has passed; only then is a     *)
(* request cut off; and the mesh goes last, after its poller               *)
(* (main.go:92-100, 126-138, fleet.go:184-200).                            *)
DrainBeforeLeave ==
  /\ Active # {} /\ ~overdue => mesh = "in" /\ poller = "running"
  /\ (\E c \in Connections : conn[c] = "cut") => overdue
  /\ PollerHasMesh

(* Whatever ends the process - a signal, a fatal error, a failing          *)
(* listener, a port that cannot be bound - it has left the mesh when it    *)
(* exits, instead of waiting to be declared dead (main.go:55-63, 92-100).  *)
LeavesOnEveryPath == main = "exited" => mesh \in {"out", "down"}

(* A reason to stop is acted on, although streams may never end            *)
(* (main.go:111-131, fleet.go:184-200).                                    *)
StopsWhenTold == (cancelled \/ fatal) /\ main = "serving" ~> main = "exited"

(* The steps left until the process has gone, at most, once the way down   *)
(* has begun.                                                              *)
GoingDown == main \in {"draining", "leaving", "stopping", "waiting", "returning"}
StepsDown ==
  CASE main = "draining" -> 6
    [] main = "leaving" -> 5
    [] main = "stopping" -> 4
    [] main = "waiting" -> IF poller = "told" THEN 3 ELSE 2
    [] main = "returning" -> 1
    [] main = "exited" -> 0
    [] OTHER -> 7

(* The way down is one way: once it has begun no connection is accepted or *)
(* kept for another request, each step of it leaves fewer, and whatever    *)
(* else happens meanwhile - a second signal, a fatal error, events, a      *)
(* first request on a connection that was just accepted, requests that     *)
(* never end - sends it nowhere else and does not change what the process  *)
(* exits with (main.go:55-63, 111-138, fleet.go:184-200).                  *)
ComesDown ==
  [][GoingDown =>
       /\ Opened' \subseteq Opened
       /\ Active \ Active' \subseteq Opened \ Opened'
       /\ StepsDown' <= StepsDown
       /\ Main \/ DrainTimeout \/ PollerReturns => StepsDown' < StepsDown
       /\ failed' = failed]_vars

(* What main goes on with after config.Load is sound, whatever the         *)
(* environment: the mesh's mode (config.go:20-26, 165-172, 284-321)        *)
(* and the size of a body (config.go:410-443).                             *)
Configured == main \in {"configured", "keyed"}
ModeChosen == Configured => ModeSound(config)
SizesExact == Configured => SizeSound(env, config)

(* No event reaches a poller that is not there yet, although events begin  *)
(* while mesh.Start is still running (fleet.go:64-71, 75-78).              *)
NoPollerNoEvent == poller = "none" => known = {}

(* Again and again the poller polls exactly the members there are, however *)
(* they come and go, although events that came before the poller were      *)
(* dropped and others are late, as long as the gateway stays in the mesh   *)
(* (fleet.go:64-71, 75-80).                                                *)
PeersPolled == []<>(known = member \/ mesh # "in")
=============================================================================
