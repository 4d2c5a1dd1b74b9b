------------------------------ MODULE Lifespan ------------------------------
(***************************************************************************)
(* Who starts and stops the connector of module Connector: an ASGI server  *)
(* that runs the lifespan of its app.  The connector is in that lifespan   *)
(* in one of three ways:                                                   *)
(*   "wrapper"     it is built with the server's app and hangs its startup *)
(*                 and shutdown on the app's events, where it finds any;   *)
(*   "middleware"  it stands before the app, and its __call__ acts on the  *)
(*                 lifespan messages before it passes them on;             *)
(*   "bare"        it is the server's app, and there is no other.          *)
(* The program may call the connector's operations while the server is up. *)
(* The server's own requests (direct) are answered before it stops.        *)
(***************************************************************************)
EXTENDS Connector

CONSTANTS
  Patterns,     (* the ways that are tried                                 *)
  ProgramMay,   (* operations that the program calls: subset of            *)
                (* {"startup", "attach", "shutdown", "detach"}             *)
  MaxLives      (* bound: lifespans, one after the other                   *)

ASSUME LifespanAssumption ==
  /\ Patterns \subseteq {"wrapper", "middleware", "bare"}
  /\ ProgramMay \subseteq {"startup", "attach", "shutdown", "detach"}
  /\ MaxLives \in Nat

VARIABLES
  pattern,
  hooked,      (* apps whose events call startup and shutdown              *)
  inner,       (* the app that has the lifespan scope                      *)
  server,      (* "off", "starting", "up", "stopping"; "failed" when the   *)
               (* lifespan has raised or the app's own startup has failed  *)
  lives,       (* lifespans so far                                         *)
  handlers,    (* the app behind __call__ has run its own startup, and not *)
               (* its shutdown                                             *)
  direct,      (* how __call__ takes the server's request, or "none"       *)
  released     (* history: a shutdown or detach has returned, or there was *)
               (* no app, and none has been attached since                 *)

spanVars == <<pattern, hooked, inner, server, lives, handlers, direct, released>>
allVars == <<vars, spanVars>>

(* How the program builds the connector: around its app, on which          *)
(* _register_hooks finds events or not; before the next app of a           *)
(* middleware stack, which is a callable and has no events; without one.   *)
Wrapper == app # NoApp /\ hooked \in {{}, {app}}
Middleware == app # NoApp /\ hooked = {}
Bare == app = NoApp /\ hooked = {}

LifespanInit ==
  /\ Init
  /\ pattern \in Patterns
  /\ \/ pattern = "wrapper" /\ Wrapper
     \/ pattern = "middleware" /\ Middleware
     \/ pattern = "bare" /\ Bare
  /\ inner = app
  /\ server = "off" /\ lives = 0
  /\ handlers = FALSE
  /\ direct = "none"
  /\ released = (app = NoApp)

(* The messages of the lifespan reach the connector. *)
Heard == pattern # "wrapper" \/ inner \in hooked

-----------------------------------------------------------------------------
(* lifespan.startup.  __call__ looks for the app when the scope comes, and *)
(* wrapped_receive awaits startup before it returns the message.           *)
ServerStarts(c) ==
  /\ server = "off" /\ lives < MaxLives /\ NoCall
  /\ server' = "starting" /\ lives' = lives + 1
  /\ inner' = IF pattern = "wrapper" THEN inner ELSE app
  /\ IF Heard /\ ~ started THEN BeginStartup(c) /\ UNCHANGED app ELSE UNCHANGED vars
  /\ UNCHANGED <<pattern, hooked, handlers, direct, released>>

(* Mutation of StartupPassedOn: the message goes before the work is done. *)
StartupPassedOnFirst ==
  /\ server = "starting"
  /\ \/ server' = "up" /\ handlers' = (pattern # "wrapper" /\ inner # NoApp)
     \/ server' = "failed" /\ inner # NoApp /\ UNCHANGED handlers
  /\ UNCHANGED <<vars, pattern, hooked, inner, lives, direct, released>>

(* startup has returned: the app runs its own, which may fail; without an  *)
(* app __call__ says itself that the startup is complete.                  *)
StartupPassedOn ==
  /\ server = "starting" /\ NoCall
  /\ \/ server' = "up" /\ handlers' = (pattern # "wrapper" /\ inner # NoApp)
     \/ server' = "failed" /\ inner # NoApp /\ UNCHANGED handlers
  /\ UNCHANGED <<vars, pattern, hooked, inner, lives, direct, released>>

(* startup has raised, through the receive or the event of the app. *)
StartupRaises(c) ==
  /\ ResolveFails(c)
  /\ server' = IF server = "starting" THEN "failed" ELSE server
  /\ UNCHANGED <<pattern, hooked, inner, lives, handlers, direct, released>>

(* Mutation of ServerStops: only __call__ hears of the shutdown. *)
ServerStopsUnhooked(c) ==
  /\ server = "up" /\ NoCall /\ direct = "none"
  /\ server' = "stopping"
  /\ IF pattern # "wrapper" /\ started THEN BeginShutdown(c) ELSE UNCHANGED vars
  /\ UNCHANGED <<pattern, hooked, inner, lives, handlers, direct, released>>

(* lifespan.shutdown, when the server's own requests are answered. *)
ServerStops(c) ==
  /\ server = "up" /\ NoCall /\ direct = "none"
  /\ server' = "stopping"
  /\ IF Heard /\ started THEN BeginShutdown(c) ELSE UNCHANGED vars
  /\ UNCHANGED <<pattern, hooked, inner, lives, handlers, direct, released>>



ShutdownPassedOnToApp ==
  /\ server = "stopping" /\ NoCall /\ inner # NoApp
  /\ server' = "off" /\ handlers' = FALSE
  /\ UNCHANGED <<vars, pattern, hooked, inner, lives, direct, released>>

(* shutdown has returned: the app runs its own, and the server is told     *)
(* that the shutdown is complete.                                          *)
ShutdownPassedOn ==
  /\ server = "stopping" /\ NoCall
  /\ server' = "off" /\ handlers' = FALSE
  /\ UNCHANGED <<vars, pattern, hooked, inner, lives, direct, released>>

-----------------------------------------------------------------------------
(* A request of the server itself comes to __call__: "http" without an app *)
(* is answered with 503, any other scope with an error.                    *)
DirectBegins ==
  /\ pattern # "wrapper" /\ server = "up" /\ direct = "none"
  /\ direct' \in IF app = NoApp THEN {"503", "error"} ELSE {"app"}
  /\ UNCHANGED <<vars, pattern, hooked, inner, server, lives, handlers, released>>

DirectEnds ==
  /\ direct # "none"
  /\ direct' = "none"
  /\ UNCHANGED <<vars, pattern, hooked, inner, server, lives, handlers, released>>

(* The program's own calls.  attach hangs startup and shutdown on the      *)
(* app's events, and nothing takes them off again.                         *)
ProgramStep(c) ==
  /\ server = "up"
  /\ \/ "startup" \in ProgramMay /\ Startup(c) /\ UNCHANGED <<hooked, released>>
     \/ "shutdown" \in ProgramMay /\ Shutdown(c) /\ UNCHANGED <<hooked, released>>
     \/ "detach" \in ProgramMay /\ Detach(c) /\ released' = (released \/ ~ started)
          /\ UNCHANGED hooked
     \/ "attach" \in ProgramMay /\ Attach(c) /\ released' = FALSE
          /\ (hooked' = hooked \/ hooked' = hooked \cup {app'})
  /\ UNCHANGED <<pattern, inner, server, lives, handlers, direct>>

(* shutdown goes on, and lets go of the app when it returns. *)
ShutdownGoesOn(c) ==
  /\ ShutdownStep(c)
  /\ released' = (released \/ t'[c].pc = "idle")
  /\ UNCHANGED <<pattern, hooked, inner, server, lives, handlers, direct>>

(* The connector's own tasks. *)
ConnectorRuns ==
  /\ \/ \E p \in Tasks : Resolve(p) \/ Deregistered(p) \/ Reaped(p)
     \/ \E l \in Loops : ResolveFails(l) \/ LoopStep(l)
     \/ \E w \in Workers : WorkerRuns(w) \/ NetworkStep(w)
     \/ \E r \in Requests : RequestFinishes(r) \/ \E w \in Workers : RequestStarts(r, w)
     \/ DnsChanges
  /\ UNCHANGED spanVars

LifespanNext ==
  \/ StartupPassedOn \/ ShutdownPassedOn \/ DirectBegins \/ DirectEnds
  \/ \E c \in Callers :
       \/ ServerStarts(c) \/ ServerStops(c) \/ StartupRaises(c)
       \/ ProgramStep(c) \/ ShutdownGoesOn(c)
  \/ ConnectorRuns

(* As in Connector; the app's own shutdown returns. *)
LifespanSpec ==
  /\ LifespanInit /\ [][LifespanNext]_allVars
  /\ WF_allVars(ShutdownPassedOn)
  /\ \A c \in Callers : WF_allVars(ShutdownGoesOn(c))
  /\ \A p \in Tasks : WF_allVars((Resolve(p) \/ Deregistered(p) \/ Reaped(p)) /\ UNCHANGED spanVars)
  /\ \A l \in Loops : WF_allVars(LoopStep(l) /\ UNCHANGED spanVars)
  /\ \A w \in Workers : WF_allVars(WorkerRuns(w) /\ UNCHANGED spanVars)

-----------------------------------------------------------------------------

(***************************************************************************)
(* The server is told that the startup is complete only when the connector *)
(* that it drives has its workers and its loop: a failed resolution fails  *)
(* the startup, in whichever way the connector hears of it.                *)
(***************************************************************************)
CompleteMeansRegistered ==
  [][server = "starting" /\ server' = "up" /\ Heard =>
       started /\ Registered /\ (LookupByDns => refreshTask # NoTask)]_allVars


(***************************************************************************)
(* A server that has stopped leaves nothing of a connector that it drives, *)
(* whatever the program did with it meanwhile.                             *)
(***************************************************************************)
NothingAfterServer ==
  server = "off" /\ Heard =>
    /\ ~ started /\ Existing = {} /\ refreshTask = NoTask
    /\ \A w \in Workers : worker[w] \in W!Ended

(***************************************************************************)
(* The server's own requests get to the app until a shutdown, or a detach, *)
(* has returned: not while it drains, and not while the connector starts.  *)
(***************************************************************************)
DirectUntilReleased ==
  [][direct = "none" /\ direct' \in {"503", "error"} => released]_allVars

(***************************************************************************)
(* The server's lifespan.shutdown is answered, with an app or without one, *)
(* whatever the connector's tasks do.                                      *)
(***************************************************************************)
StopAnswered == server = "stopping" ~> server = "off"
=============================================================================
