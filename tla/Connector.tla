----------------------------- MODULE Connector -----------------------------
(***************************************************************************)
(* The lifecycle of a CrankerConnector: startup, shutdown, attach, detach, *)
(* the refresh loop that follows the resolved routers, and the table of    *)
(* workers (module SocketWorker) that they share, with the requests that   *)
(* a shutdown drains.  An action is what one task does between two awaits. *)
(*                                                                         *)
(* t[p] is where task p is, a caller of the lifecycle operations or a      *)
(* refresh loop, with what it has read before the await it is in.          *)
(***************************************************************************)
EXTENDS Integers, FiniteSets, Functions

CONSTANTS
  Hosts, Urls,     (* router_urls; the URLs of the addresses behind them   *)
  Slots,           (* range(sliding_window_size)                           *)
  Apps, NoApp,     (* ASGI apps that are attached; None                    *)
  Callers,         (* tasks that call startup, shutdown, attach, detach;   *)
                   (* one calls them in turn, as a server's lifespan does  *)
  Loops,           (* ids for the tasks of _router_refresh_loop            *)
  Workers,         (* ids for the tasks of _socket_worker                  *)
  NoTask,          (* no task; the arguments of a task that does not run   *)
  Requests,        (* bound: requests at a time                            *)
  LookupByDns,     (* router_lookup_by_dns                                 *)
  MayFail,         (* resolutions that may raise: "startup", "refresh"     *)
  BaseDelay, MaxDelay, MaxExponent, MaxAttempts    (* of the workers       *)

ASSUME ConnectorAssumption ==
  /\ NoApp \notin Apps
  /\ NoTask \notin Workers \cup Loops
  /\ Callers \cap Loops = {} /\ Workers \cap Loops = {}
  /\ LookupByDns \in BOOLEAN
  /\ MayFail \subseteq {"startup", "refresh"}
  /\ BaseDelay \in Nat \ {0} /\ MaxDelay \in Nat /\ BaseDelay <= MaxDelay
  /\ MaxExponent \in Nat /\ MaxAttempts \in Nat

VARIABLES
  app, started,      (* as in the code                                     *)
  refreshTask,       (* _refresh_task                                      *)
  table,             (* _router_tasks                                      *)
  t,                 (* callers and refresh loops                          *)
  stopping,          (* loops that are cancelled and have not run since    *)
  dns, known,        (* addresses of each host; history: what has been     *)
                     (* resolved last since startup                        *)
  keyOf,             (* the arguments of each worker                       *)
  req, home,         (* requests, and the worker whose session has each    *)
  worker, attempts, why, cancel, waited, shutdown    (* SocketWorker       *)

W == INSTANCE SocketWorker

lifeVars == <<app, started, refreshTask, stopping, known>>
reqVars == <<req, home>>
taskVars == <<worker, attempts, why, cancel, waited>>
vars == <<lifeVars, table, t, dns, keyOf, reqVars, taskVars, shutdown>>

Keys == Urls \X Slots
Tasks == Callers \cup Loops

At(pc) == [pc |-> pc, urls |-> {}, gone |-> {}, add |-> {}, waits |-> {}]
Idle == At("idle")

Init ==
  /\ app \in Apps \cup {NoApp} /\ started = FALSE
  /\ refreshTask = NoTask
  /\ table = [k \in Keys |-> NoTask]
  /\ t = [p \in Tasks |-> Idle]
  /\ stopping = {}
  /\ dns \in [Hosts -> (SUBSET Urls) \ {{}}] /\ known = {}
  /\ keyOf = [w \in Workers |-> NoTask]
  /\ req = [r \in Requests |-> "none"] /\ home = [r \in Requests |-> NoTask]
  /\ W!WorkerInit

-----------------------------------------------------------------------------
Existing == {k \in Keys : table[k] # NoTask}
WorkersOf(K) == {table[k] : k \in K}
RoutersOf(K) == {k[1] : k \in K}
Done(S) == \A x \in S : IF x \in Loops THEN t[x].pc = "idle" ELSE worker[x] \in W!Ended

(* Ids that no task of the code stands for any more. *)
FreeWorkers == {w \in Workers : /\ worker[w] \in W!Ended
                                /\ w \notin Range(table)
                                /\ \A p \in Tasks : w \notin t[p].waits}
FreeLoops == {l \in Loops : /\ t[l].pc = "idle" /\ l # refreshTask
                            /\ \A p \in Tasks : l \notin t[p].waits}

(* The while of _router_refresh_loop. *)
LoopTest == IF shutdown THEN Idle ELSE At("sleep")

(* The last part of _refresh_router_registrations: a worker for each key   *)
(* that was missing when existing_keys was read.  startup goes on to       *)
(* create the refresh loop, and the loop to its test.                      *)
AddWorkers(p, K) ==
  LET new == CHOOSE f \in Injection(K, FreeWorkers) : TRUE
      loop == CHOOSE l \in FreeLoops : TRUE
  IN
  /\ new \in Injection(K, FreeWorkers)            (* bound: there are ids left *)
  /\ W!Create(Range(new))
  /\ table' = [k \in Keys |-> IF k \in K THEN new[k] ELSE table[k]]
  /\ keyOf' = [w \in Workers |-> IF w \in Range(new)
                                   THEN CHOOSE k \in K : new[k] = w ELSE keyOf[w]]
  /\ IF p \in Loops
       THEN t' = [t EXCEPT ![p] = LoopTest] /\ UNCHANGED refreshTask
       ELSE IF LookupByDns
         THEN /\ loop \in FreeLoops                (* bound: likewise *)
              /\ refreshTask' = loop
              /\ t' = [t EXCEPT ![p] = Idle, ![loop] = At("new")]
         ELSE t' = [t EXCEPT ![p] = Idle] /\ UNCHANGED refreshTask

(* What an exception does: startup raises it, the loop logs it. *)
Raise(p) == t' = [t EXCEPT ![p] = IF p \in Loops THEN LoopTest ELSE Idle]

(* The middle part: pop the next key, cancel its worker and wait for it.   *)
(* The key may have left the table since existing_keys was read.           *)
PopNext(p, gone, add) ==
  IF gone = {}
    THEN AddWorkers(p, add)
    ELSE \E k \in gone :
      /\ IF table[k] = NoTask
           THEN Raise(p) /\ UNCHANGED <<table, cancel>>
           ELSE /\ table' = [table EXCEPT ![k] = NoTask]
                /\ W!Cancel({table[k]})
                /\ t' = [t EXCEPT ![p] = [At("reap") EXCEPT !.gone = gone \ {k}, !.add = add,
                                                          !.waits = {table[k]}]]
      /\ UNCHANGED <<refreshTask, keyOf, worker, attempts, why, waited, shutdown>>

(* The first part, once the routers are resolved. *)
Reconcile(p, routers) ==
  LET gone == Existing \ (routers \X Slots)
      add == (routers \X Slots) \ Existing
  IN IF gone = {}
       THEN AddWorkers(p, add)
       ELSE /\ t' = [t EXCEPT ![p] = [At("dereg") EXCEPT !.urls = RoutersOf(gone),
                                                       !.gone = gone, !.add = add]]
            /\ UNCHANGED <<refreshTask, table, keyOf, taskVars, shutdown>>

(* _resolve_router_urls: the addresses of all hosts, each one once. *)
ResolvedUrls == UNION Range(dns)

Resolve(p) ==
  /\ t[p].pc = "resolve" /\ p \notin stopping
  /\ known' = ResolvedUrls
  /\ Reconcile(p, ResolvedUrls)
  /\ UNCHANGED <<app, started, stopping, dns, reqVars>>

(* A name that does not resolve fails the resolution of all of them. *)
ResolveFails(p) ==
  /\ t[p].pc = "resolve" /\ p \notin stopping
  /\ (IF p \in Loops THEN "refresh" ELSE "startup") \in MayFail
  /\ Raise(p)
  /\ UNCHANGED <<lifeVars, table, dns, keyOf, reqVars, taskVars, shutdown>>

(* _deregister_router has returned: it suppresses every failure. *)
Deregistered(p) ==
  /\ t[p].pc = "dereg" /\ p \notin stopping
  /\ \E url \in t[p].urls :
       IF t[p].urls = {url}
         THEN PopNext(p, t[p].gone, t[p].add)
         ELSE /\ t' = [t EXCEPT ![p].urls = @ \ {url}]
              /\ UNCHANGED <<refreshTask, table, keyOf, taskVars, shutdown>>
  /\ UNCHANGED <<app, started, stopping, known, dns, reqVars>>

(* Mutation of Reaped: the cancelled worker is not waited for. *)
ReapedEarly(p) ==
  /\ t[p].pc = "reap" /\ p \notin stopping
  /\ PopNext(p, t[p].gone, t[p].add)
  /\ UNCHANGED <<app, started, stopping, known, dns, reqVars>>

Reaped(p) ==
  /\ t[p].pc = "reap" /\ p \notin stopping
  /\ Done(t[p].waits)
  /\ PopNext(p, t[p].gone, t[p].add)
  /\ UNCHANGED <<app, started, stopping, known, dns, reqVars>>

RefreshStep(p) == Resolve(p) \/ ResolveFails(p) \/ Deregistered(p) \/ Reaped(p)

-----------------------------------------------------------------------------
(* Whoever calls: a server's lifespan events through __call__ or the hooks *)
(* of the app, or the program itself.                                      *)
Calls(c) == t[c].pc = "idle"

(* Mutation of BeginStartup: the event of the last shutdown is kept. *)
BeginStartupOldEvent(c) ==
  /\ started' = TRUE
  /\ t' = [t EXCEPT ![c] = At("resolve")]
  /\ UNCHANGED <<refreshTask, stopping, known, table, dns, keyOf, reqVars, taskVars, shutdown>>

(* startup up to the await of the resolution. *)
BeginStartup(c) ==
  /\ started' = TRUE
  /\ shutdown' = FALSE
  /\ t' = [t EXCEPT ![c] = At("resolve")]
  /\ UNCHANGED <<refreshTask, stopping, known, table, dns, keyOf, reqVars, taskVars>>

Startup(c) == Calls(c) /\ ~ started /\ BeginStartup(c) /\ UNCHANGED app

Attach(c) ==
  /\ Calls(c)
  /\ \E a \in Apps : app' = a
  /\ IF started
       THEN UNCHANGED <<started, refreshTask, stopping, known, table, t, dns, keyOf, reqVars,
                        taskVars, shutdown>>
       ELSE BeginStartup(c)

(* Mutation of DeregisterAll: a table without keys is not looked at. *)
DeregisterAllOnly(c) ==
  t' = [t EXCEPT ![c] = [At("deregall") EXCEPT !.urls = RoutersOf(Existing)]]

(* _deregister_all; without a router its loop does not suspend. *)
DeregisterAll(c) ==
  t' = [t EXCEPT ![c] = IF Existing = {} THEN At("drain")
                          ELSE [At("deregall") EXCEPT !.urls = RoutersOf(Existing)]]

(* Mutations of BeginShutdown: the refresh loop is left to itself; the     *)
(* event is not set.                                                       *)
BeginShutdownBesideLoop(c) ==
  /\ shutdown' = TRUE
  /\ DeregisterAll(c)
  /\ UNCHANGED <<app, started, refreshTask, stopping, known, table, dns, keyOf, reqVars, taskVars>>

BeginShutdownSilent(c) ==
  /\ IF refreshTask # NoTask
       THEN /\ stopping' = stopping \cup {refreshTask}
            /\ W!Cancel(t[refreshTask].waits)
            /\ t' = [t EXCEPT ![c] = [At("stoploop") EXCEPT !.waits = {refreshTask}]]
       ELSE DeregisterAll(c) /\ UNCHANGED <<stopping, taskVars>>
  /\ UNCHANGED <<app, started, refreshTask, known, table, dns, keyOf, reqVars, shutdown>>

(* shutdown up to its first await.  Cancelling a loop that waits for a     *)
(* worker cancels that worker once more.                                   *)
BeginShutdown(c) ==
  /\ shutdown' = TRUE
  /\ IF refreshTask # NoTask
       THEN /\ stopping' = IF t[refreshTask].pc = "idle" THEN stopping ELSE stopping \cup {refreshTask}
            /\ W!Cancel(t[refreshTask].waits)
            /\ t' = [t EXCEPT ![c] = [At("stoploop") EXCEPT !.waits = {refreshTask}]]
       ELSE DeregisterAll(c) /\ UNCHANGED <<stopping, taskVars>>
  /\ UNCHANGED <<app, started, refreshTask, known, table, dns, keyOf, reqVars>>

Shutdown(c) == Calls(c) /\ started /\ BeginShutdown(c)

(* detach sets app to None once more when shutdown has returned. *)
Detach(c) ==
  /\ Calls(c)
  /\ IF started
       THEN BeginShutdown(c)
       ELSE /\ app' = NoApp
            /\ UNCHANGED <<started, refreshTask, stopping, known, table, t, dns, keyOf, reqVars,
                           taskVars, shutdown>>

LoopStopped(c) ==
  /\ t[c].pc = "stoploop" /\ Done(t[c].waits)
  /\ refreshTask' = NoTask
  /\ DeregisterAll(c)
  /\ UNCHANGED <<app, started, stopping, known, table, dns, keyOf, reqVars, taskVars, shutdown>>

DeregisteredOne(c) ==
  /\ t[c].pc = "deregall"
  /\ \E url \in t[c].urls :
       IF t[c].urls = {url} THEN t' = [t EXCEPT ![c] = At("drain")]
                            ELSE t' = [t EXCEPT ![c].urls = @ \ {url}]
  /\ UNCHANGED <<lifeVars, table, dns, keyOf, reqVars, taskVars, shutdown>>

(* Mutation of KeepApp: the app goes when the drain is over. *)
KeepAppNot == app' = NoApp
KeepApp == UNCHANGED app

(* The end of shutdown. *)
Finish(c) ==
  /\ known' = {}
  /\ table' = [k \in Keys |-> NoTask]
  /\ started' = FALSE
  /\ app' = NoApp
  /\ t' = [t EXCEPT ![c] = Idle]

Active == {r \in Requests : req[r] # "none"}

(* _wait_for_active_requests is over, because no request is active or by   *)
(* its timeout; the workers are cancelled.  A gather of nothing does not   *)
(* suspend.                                                                *)
EndDrain(c, how) ==
  /\ t[c].pc = "drain"
  /\ W!Cancel(WorkersOf(Existing))
  /\ IF Existing = {}
       THEN Finish(c)
       ELSE /\ t' = [t EXCEPT ![c] = [At(how) EXCEPT !.waits = WorkersOf(Existing)]]
            /\ KeepApp /\ UNCHANGED <<started, known, table>>
  /\ UNCHANGED <<refreshTask, stopping, dns, keyOf, reqVars, shutdown>>

(* Mutation of Drained: no wait for the requests. *)
DrainedEarly(c) == EndDrain(c, "join")

Drained(c) == Active = {} /\ EndDrain(c, "join")
DrainTimesOut(c) == Active # {} /\ EndDrain(c, "abort")

Joined(c) ==
  /\ t[c].pc \in {"join", "abort"} /\ Done(t[c].waits)
  /\ Finish(c)
  /\ UNCHANGED <<refreshTask, stopping, dns, keyOf, reqVars, taskVars, shutdown>>

ShutdownStep(c) ==
  LoopStopped(c) \/ DeregisteredOne(c) \/ Drained(c) \/ DrainTimesOut(c) \/ Joined(c)

-----------------------------------------------------------------------------
(* The refresh loop between two refreshes. *)
LoopBegins(l) ==
  /\ t[l].pc = "new" /\ l \notin stopping
  /\ t' = [t EXCEPT ![l] = LoopTest]
  /\ UNCHANGED <<lifeVars, table, dns, keyOf, reqVars, taskVars, shutdown>>

LoopWakes(l) ==
  /\ t[l].pc = "sleep" /\ l \notin stopping
  /\ t' = [t EXCEPT ![l] = IF shutdown THEN Idle ELSE At("resolve")]
  /\ UNCHANGED <<lifeVars, table, dns, keyOf, reqVars, taskVars, shutdown>>

(* CancelledError in the loop; the gather raises it when the worker has    *)
(* ended.                                                                  *)
LoopCancelled(l) ==
  /\ l \in stopping
  /\ t[l].pc = "reap" => Done(t[l].waits)
  /\ stopping' = stopping \ {l}
  /\ t' = [t EXCEPT ![l] = Idle]
  /\ UNCHANGED <<app, started, refreshTask, known, table, dns, keyOf, reqVars, taskVars, shutdown>>

LoopStep(l) == LoopBegins(l) \/ LoopWakes(l) \/ LoopCancelled(l)

-----------------------------------------------------------------------------
(* Requests on the sessions of the workers. *)

(* An app task calls _request_started; on a session whose cancellation is  *)
(* on its way it is about to be cancelled itself.                          *)
RequestStarts(r, w) ==
  /\ req[r] = "none" /\ worker[w] = "run"
  /\ req' = [req EXCEPT ![r] = IF cancel[w] THEN "cut" ELSE "active"]
  /\ home' = [home EXCEPT ![r] = w]
  /\ UNCHANGED <<lifeVars, table, t, dns, keyOf, taskVars, shutdown>>

(* _request_finished. *)
RequestFinishes(r) ==
  /\ req[r] # "none"
  /\ req' = [req EXCEPT ![r] = "none"]
  /\ home' = [home EXCEPT ![r] = NoTask]
  /\ UNCHANGED <<lifeVars, table, t, dns, keyOf, taskVars, shutdown>>

(* run() cancels the requests of its session on its way out. *)
AroundWorker(w) ==
  /\ req' = [r \in Requests |-> IF home[r] = w /\ worker[w] = "run" THEN "cut" ELSE req[r]]
  /\ keyOf' = IF worker'[w] \in W!Ended THEN [keyOf EXCEPT ![w] = NoTask] ELSE keyOf
  /\ UNCHANGED <<lifeVars, table, t, dns, home>>

WorkerRuns(w) == W!WorkerRuns(w) /\ AroundWorker(w)
NetworkStep(w) == W!NetworkStep(w) /\ AroundWorker(w)

(* The addresses of the routers change. *)
DnsChanges ==
  /\ \E h \in Hosts, urls \in SUBSET Urls : urls # dns[h] /\ dns' = [dns EXCEPT ![h] = urls]
  /\ UNCHANGED <<lifeVars, table, t, keyOf, reqVars, taskVars, shutdown>>

CallerStep(c) == Startup(c) \/ Attach(c) \/ Shutdown(c) \/ Detach(c)

Next ==
  \/ \E c \in Callers : CallerStep(c) \/ ShutdownStep(c)
  \/ \E p \in Tasks : RefreshStep(p)
  \/ \E l \in Loops : LoopStep(l)
  \/ \E w \in Workers : WorkerRuns(w) \/ NetworkStep(w)
  \/ \E r \in Requests : RequestFinishes(r) \/ \E w \in Workers : RequestStarts(r, w)
  \/ DnsChanges

SafeSpec == Init /\ [][Next]_vars

(* The event loop runs every task that is ready; sleeps, resolutions,      *)
(* deregistrations, closes and the drain's timeout come to an end.         *)
Spec ==
  /\ SafeSpec
  /\ \A c \in Callers : WF_vars(ShutdownStep(c))
  /\ \A p \in Tasks : WF_vars(RefreshStep(p))
  /\ \A l \in Loops : WF_vars(LoopStep(l))
  /\ \A w \in Workers : WF_vars(WorkerRuns(w))

-----------------------------------------------------------------------------
CallerPlaces == {"idle", "resolve", "dereg", "reap", "stoploop", "deregall", "drain", "join", "abort"}
LoopPlaces == {"idle", "new", "sleep", "resolve", "dereg", "reap"}

(***************************************************************************)
(* Every variable keeps its shape; a caller or loop waits for something in *)
(* a gather only; a request has a session while it is active or cut.       *)
(***************************************************************************)
TypeOK ==
  /\ app \in Apps \cup {NoApp} /\ started \in BOOLEAN
  /\ refreshTask \in Loops \cup {NoTask}
  /\ table \in [Keys -> Workers \cup {NoTask}]
  /\ t \in [Tasks -> [pc : CallerPlaces \cup LoopPlaces, urls : SUBSET Urls, gone : SUBSET Keys,
                      add : SUBSET Keys, waits : SUBSET (Workers \cup Loops)]]
  /\ \A c \in Callers : t[c].pc \in CallerPlaces
  /\ \A l \in Loops : t[l].pc \in LoopPlaces
  /\ \A p \in Tasks : t[p].urls # {} <=> t[p].pc \in {"dereg", "deregall"}
  /\ \A p \in Tasks : t[p].waits # {} <=> t[p].pc \in {"reap", "stoploop", "join", "abort"}
  /\ stopping \in SUBSET Loops
  /\ dns \in [Hosts -> SUBSET Urls] /\ known \in SUBSET Urls
  /\ keyOf \in [Workers -> Keys \cup {NoTask}]
  /\ req \in [Requests -> {"none", "active", "cut"}]
  /\ home \in [Requests -> Workers \cup {NoTask}]
  /\ \A r \in Requests : req[r] = "none" <=> home[r] = NoTask
  /\ W!WorkerTypeOK

NoCall == \A c \in Callers : t[c].pc = "idle"

(***************************************************************************)
(* When shutdown has returned nothing of the connector is left: no worker, *)
(* also none that a refresh was about to add or had popped, no refresh     *)
(* loop, and an empty table for the next startup.                          *)
(***************************************************************************)
NothingLeft ==
  NoCall /\ ~ started =>
    /\ Existing = {} /\ refreshTask = NoTask
    /\ \A w \in Workers : worker[w] \in W!Ended
    /\ \A l \in Loops : t[l].pc = "idle"

(***************************************************************************)
(* A connector that has been started and is not in the middle of something *)
(* has a live worker for every slot of the routers it resolved last, and   *)
(* no other: "opens registrations for the currently resolved routers, and  *)
(* periodically adds or removes router registrations" (README.md:114).     *)
(***************************************************************************)
Registered ==
  started /\ (\A p \in Tasks : t[p].pc \in {"idle", "new", "sleep"}) =>
    /\ Existing = known \X Slots
    /\ \A k \in Existing : worker[table[k]] \notin W!Ended /\ keyOf[table[k]] = k

(***************************************************************************)
(* The router never sees two registrations for one slot: a worker that was *)
(* replaced has ended first, also when it did not heed its cancellation.   *)
(***************************************************************************)
OneWorkerPerSlot ==
  \A v, w \in Workers :
    v # w /\ worker[v] \notin W!Ended /\ worker[w] \notin W!Ended => keyOf[v] # keyOf[w]

(***************************************************************************)
(* An active request is cut only by the end of its link, the removal of    *)
(* its router, or a drain that has timed out (cranker-v3-protocol.md:279,  *)
(* "active streams are allowed to finish until timeout").                  *)
(***************************************************************************)
GracefulDrain ==
  [][\A r \in Requests : req[r] = "active" /\ req'[r] = "cut" =>
       \/ ~ cancel[home[r]]
       \/ \E p \in Tasks : home[r] \in t[p].waits /\ t[p].pc \in {"reap", "abort"}]_vars

(***************************************************************************)
(* shutdown returns, whatever the workers, a refresh in progress and the   *)
(* requests do, and however often a session turns the cancellation of its  *)
(* worker into an error.                                                   *)
(***************************************************************************)
ShutdownReturns ==
  \A c \in Callers :
    t[c].pc \in {"stoploop", "deregall", "drain", "join", "abort"} ~> t[c].pc = "idle"

(***************************************************************************)
(* The app is taken away only when nothing can ask for it any more: a      *)
(* request that a session still accepts while shutdown drains, times out   *)
(* or waits for the workers is not answered with 503.                      *)
(***************************************************************************)
AppWhileServing ==
  [][app # NoApp /\ app' = NoApp => \A w \in Workers : worker[w] \in W!Ended]_vars

(***************************************************************************)
(* What the documents say and the code does not do.                        *)
(***************************************************************************)

(***************************************************************************)
(* attach on a connector that says it is started returns at once, and then *)
(* there are registrations, or a loop that obtains them: "automatically    *)
(* start the connector if not already started" (connector.py:405).         *)
(***************************************************************************)
AttachStarts ==
  [][\A c \in Callers : Attach(c) /\ UNCHANGED t => Existing # {} \/ refreshTask # NoTask]_vars
=============================================================================
