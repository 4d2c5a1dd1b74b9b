-------------------------- MODULE ConnectorProofs --------------------------
(***************************************************************************)
(* What holds of the lifecycle of a connector with any number of routers,  *)
(* slots, workers and requests.                                            *)
(***************************************************************************)
EXTENDS Connector, TLAPS

WP == INSTANCE SocketWorkerProofs

-----------------------------------------------------------------------------
(* The workers, one step of one of them at a time. *)

LEMMA WorkerAssumption == WP!SocketWorkerAssumption
BY ConnectorAssumption DEF WP!SocketWorkerAssumption

LEMMA SameWorkerType == W!WorkerTypeOK <=> WP!WorkerTypeOK
BY DEF W!WorkerTypeOK, WP!WorkerTypeOK, W!Place, WP!Place, W!Ended, WP!Ended

LEMMA SameWorkerStep ==
  ASSUME NEW w \in Workers, W!WorkerRuns(w) \/ W!NetworkStep(w)
  PROVE  [WP!WorkerNext]_(WP!workerVars)
<1>1. W!WorkerRuns(w) => WP!WorkerRuns(w)
  BY DEF W!WorkerRuns, WP!WorkerRuns, W!Begin, WP!Begin, W!Left, WP!Left, W!Wake, WP!Wake,
         W!Cancelled, WP!Cancelled, W!SessionCancelled, WP!SessionCancelled, W!LoopTest,
         WP!LoopTest, W!GoTo, WP!GoTo, W!Leave, WP!Leave, W!Failed, WP!Failed, W!Ended, WP!Ended,
         W!Doublings, WP!Doublings, W!RetryDelay, WP!RetryDelay
<1>2. W!NetworkStep(w) => WP!NetworkStep(w)
  BY DEF W!NetworkStep, WP!NetworkStep, W!Accepted, WP!Accepted, W!WrongProtocol,
         WP!WrongProtocol, W!ConnectFails, WP!ConnectFails, W!SessionEnds, WP!SessionEnds,
         W!GoTo, WP!GoTo, W!Leave, WP!Leave, W!Failed, WP!Failed, W!Ended, WP!Ended,
         W!Doublings, WP!Doublings, W!RetryDelay, WP!RetryDelay
<1> QED
  BY <1>1, <1>2 DEF WP!WorkerNext

Alive(w) == worker[w] \notin W!Ended

LEMMA WorkerStepType ==
  ASSUME W!WorkerTypeOK, NEW w \in Workers, W!WorkerRuns(w) \/ W!NetworkStep(w)
  PROVE  W!WorkerTypeOK'
<1>1. WP!WorkerTypeOK /\ [WP!WorkerNext]_(WP!workerVars)
  BY SameWorkerType, SameWorkerStep
<1>2. WP!WorkerTypeOK'
  BY <1>1, WorkerAssumption, WP!NextTypeOK
<1> QED
  BY <1>2 DEF W!WorkerTypeOK, WP!WorkerTypeOK, W!Place, WP!Place, W!Ended, WP!Ended

(* A step is one of a live worker, which leaves a session whenever it was  *)
(* in one, and which ends, left to itself, only when its delay overflows.  *)
LEMMA WorkerStep ==
  ASSUME W!WorkerTypeOK, NEW w \in Workers, W!WorkerRuns(w) \/ W!NetworkStep(w)
  PROVE  /\ Alive(w) /\ UNCHANGED shutdown
         /\ \A v \in Workers \ {w} :
              worker'[v] = worker[v] /\ cancel'[v] = cancel[v] /\ why'[v] = why[v]
         /\ cancel'[w] => cancel[w]
         /\ worker[w] = "run" => worker'[w] = "leave"
         /\ ~ shutdown /\ ~ cancel[w] /\ why[w] # "cancelled" =>
              /\ worker'[w] \in W!Ended => worker'[w] = "crashed"
              /\ why'[w] # "cancelled"
<1> USE DEF W!WorkerTypeOK, Alive, W!Place, W!Ended
<1>1. CASE W!Begin(w) \/ W!Wake(w) \/ W!Cancelled(w)
  BY <1>1 DEF W!Begin, W!Wake, W!Cancelled, W!LoopTest, W!GoTo
<1>2. CASE W!Left(w)
  BY <1>2 DEF W!Left, W!LoopTest, W!GoTo, W!Failed
<1>3. CASE \E how \in {"cancelled", "error"} : W!SessionCancelled(w, how)
  BY <1>3 DEF W!SessionCancelled, W!Leave
<1>4. CASE W!Accepted(w) \/ W!WrongProtocol(w)
  BY <1>4 DEF W!Accepted, W!WrongProtocol, W!Leave
<1>5. CASE W!ConnectFails(w)
  BY <1>5 DEF W!ConnectFails, W!Failed, W!GoTo
<1>6. CASE \E how \in {"ok", "error"} : W!SessionEnds(w, how)
  BY <1>6 DEF W!SessionEnds, W!Leave
<1> QED
  BY <1>1, <1>2, <1>3, <1>4, <1>5, <1>6 DEF W!WorkerRuns, W!NetworkStep

LEMMA CancelStep ==
  ASSUME W!WorkerTypeOK, NEW S, W!Cancel(S), shutdown' \in BOOLEAN
  PROVE  /\ W!WorkerTypeOK' /\ UNCHANGED <<worker, why>>
         /\ \A w \in Workers : w \notin S => cancel'[w] = cancel[w]
         /\ \A w \in Workers : cancel'[w] => cancel[w] \/ w \in S
BY DEF W!WorkerTypeOK, W!Cancel

LEMMA CreateStep ==
  ASSUME W!WorkerTypeOK, NEW S, W!Create(S), \A w \in S : w \in Workers /\ ~ Alive(w)
  PROVE  /\ W!WorkerTypeOK' /\ UNCHANGED <<attempts, cancel, why, shutdown>>
         /\ \A w \in Workers : worker'[w] = IF w \in S THEN "new" ELSE worker[w]
         /\ \A w \in S : ~ cancel[w] /\ why[w] = "none"
BY DEF W!WorkerTypeOK, W!Create, W!Place, W!Ended, Alive

LEMMA NoWorkerStep ==
  ASSUME W!WorkerTypeOK, UNCHANGED taskVars, shutdown' \in BOOLEAN
  PROVE  W!WorkerTypeOK'
BY DEF W!WorkerTypeOK, taskVars

-----------------------------------------------------------------------------
(* Types, part by part. *)

TaskState == [pc : CallerPlaces \cup LoopPlaces, urls : SUBSET Urls, gone : SUBSET Keys,
              add : SUBSET Keys, waits : SUBSET (Workers \cup Loops)]

(* What TypeOK says of one task. *)
TaskOK(p, s) ==
  /\ s \in TaskState
  /\ p \in Callers => s.pc \in CallerPlaces
  /\ p \in Loops => s.pc \in LoopPlaces
  /\ s.urls # {} <=> s.pc \in {"dereg", "deregall"}
  /\ s.waits # {} <=> s.pc \in {"reap", "stoploop", "join", "abort"}

TaskTypes == t \in [Tasks -> TaskState] /\ \A p \in Tasks : TaskOK(p, t[p])

LifeTypes ==
  /\ app \in Apps \cup {NoApp} /\ started \in BOOLEAN
  /\ refreshTask \in Loops \cup {NoTask} /\ stopping \in SUBSET Loops
  /\ known \in SUBSET Urls

TableTypes ==
  /\ table \in [Keys -> Workers \cup {NoTask}]
  /\ keyOf \in [Workers -> Keys \cup {NoTask}]

RequestTypes ==
  /\ req \in [Requests -> {"none", "active", "cut"}]
  /\ home \in [Requests -> Workers \cup {NoTask}]
  /\ \A r \in Requests : req[r] = "none" <=> home[r] = NoTask

LEMMA TypeParts ==
  TypeOK <=> /\ LifeTypes /\ TableTypes /\ TaskTypes /\ RequestTypes
             /\ dns \in [Hosts -> SUBSET Urls] /\ W!WorkerTypeOK
BY DEF TypeOK, LifeTypes, TableTypes, TaskTypes, RequestTypes, TaskOK, TaskState, Tasks

(* What a refresh may change. *)
RefreshTypes ==
  TableTypes /\ TaskTypes /\ refreshTask \in Loops \cup {NoTask} /\ W!WorkerTypeOK

LEMMA PartsType ==
  ASSUME RefreshTypes', RequestTypes', dns' \in [Hosts -> SUBSET Urls],
         app' \in Apps \cup {NoApp}, started' \in BOOLEAN, stopping' \in SUBSET Loops,
         known' \in SUBSET Urls
  PROVE  TypeOK'
BY DEF TypeOK, RefreshTypes, TableTypes, TaskTypes, RequestTypes, TaskOK, TaskState, Tasks

LEMMA TaskMoves ==
  ASSUME TaskTypes, NEW p \in Tasks, NEW s, TaskOK(p, s), t' = [t EXCEPT ![p] = s]
  PROVE  TaskTypes'
BY DEF TaskTypes, TaskOK

LEMMA Places ==
  /\ \A l \in Loops : TaskOK(l, LoopTest)
  /\ \A p \in Tasks : TaskOK(p, Idle) /\ TaskOK(p, At("resolve"))
  /\ \A l \in Loops : TaskOK(l, At("new"))
  /\ \A c \in Callers : TaskOK(c, At("drain"))
<1>1. ASSUME NEW pc \in CallerPlaces \cup LoopPlaces
      PROVE  /\ At(pc) \in TaskState /\ At(pc).pc = pc
             /\ At(pc).urls = {} /\ At(pc).waits = {}
  BY <1>1 DEF At, TaskState
<1>2. ASSUME NEW p \in Tasks, NEW pc \in {"idle", "resolve"} PROVE TaskOK(p, At(pc))
  BY <1>1, <1>2 DEF TaskOK, CallerPlaces, LoopPlaces
<1>3. ASSUME NEW l \in Loops, NEW pc \in {"new", "sleep"} PROVE TaskOK(l, At(pc))
  BY <1>1, <1>3, ConnectorAssumption DEF TaskOK, LoopPlaces
<1>4. ASSUME NEW c \in Callers PROVE TaskOK(c, At("drain"))
  BY <1>1, <1>4, ConnectorAssumption DEF TaskOK, CallerPlaces
<1> QED
  BY <1>2, <1>3, <1>4 DEF Idle, LoopTest, Tasks

LEMMA ExistingType ==
  ASSUME TableTypes
  PROVE  /\ Existing \in SUBSET Keys /\ WorkersOf(Existing) \in SUBSET Workers
         /\ RoutersOf(Existing) \in SUBSET Urls
         /\ \A K \in SUBSET Existing : RoutersOf(K) \in SUBSET Urls /\ (RoutersOf(K) # {} <=> K # {})
         /\ WorkersOf(Existing) # {} <=> Existing # {}
         /\ \A k \in Existing : table[k] \in Workers
<1>1. \A k \in Existing : k \in Keys /\ k[1] \in Urls /\ table[k] \in Workers
  BY DEF TableTypes, Existing, Keys
<1>2. ASSUME NEW K \in SUBSET Existing
      PROVE  RoutersOf(K) \in SUBSET Urls /\ (RoutersOf(K) # {} <=> K # {})
  BY <1>1, <1>2 DEF RoutersOf
<1> QED
  BY <1>1, <1>2 DEF WorkersOf

-----------------------------------------------------------------------------
(* The parts of a refresh. *)

(* AddWorkers gives each key a worker that no task of the code stands for. *)
LEMMA NewWorkers ==
  ASSUME TypeOK, NEW p, NEW K \in SUBSET Keys, AddWorkers(p, K)
  PROVE  \E new \in [K -> FreeWorkers] :
           /\ \A j, k \in K : new[j] = new[k] => j = k
           /\ W!WorkerTypeOK' /\ UNCHANGED <<attempts, cancel, why, shutdown>>
           /\ \A k \in K : worker'[new[k]] = "new" /\ ~ cancel[new[k]] /\ why[new[k]] = "none"
           /\ \A w \in Workers : (\A k \in K : new[k] # w) =>
                worker'[w] = worker[w] /\ keyOf'[w] = keyOf[w]
           /\ table' = [k \in Keys |-> IF k \in K THEN new[k] ELSE table[k]]
           /\ keyOf' \in [Workers -> Keys \cup {NoTask}]
           /\ \A k \in K : keyOf'[new[k]] = k
<1>1. PICK new \in Injection(K, FreeWorkers) :
        /\ W!Create(Range(new))
        /\ table' = [k \in Keys |-> IF k \in K THEN new[k] ELSE table[k]]
        /\ keyOf' = [w \in Workers |-> IF w \in Range(new)
                                         THEN CHOOSE k \in K : new[k] = w ELSE keyOf[w]]
  BY Zenon DEF AddWorkers
<1>2. new \in [K -> FreeWorkers] /\ Range(new) = {new[k] : k \in K} /\ FreeWorkers \in SUBSET Workers
  <2>1. new \in [K -> FreeWorkers] /\ DOMAIN new = K
    BY DEF Injection
  <2> QED
    BY <2>1 DEF Range, FreeWorkers
<1>3. \A j, k \in K : new[j] = new[k] => j = k
  BY <1>2 DEF Injection, IsInjective
<1>4. \A k \in K : keyOf'[new[k]] = k
  BY <1>1, <1>2, <1>3
<1>5. \A w \in Workers : w \notin Range(new) => keyOf'[w] = keyOf[w]
  BY <1>1
<1>6. keyOf' \in [Workers -> Keys \cup {NoTask}]
  <2>1. keyOf \in [Workers -> Keys \cup {NoTask}]
    BY DEF TypeOK
  <2>2. ASSUME NEW w \in Workers PROVE keyOf'[w] \in Keys \cup {NoTask}
    BY <1>2, <1>4, <1>5, <2>1
  <2> QED
    BY <1>1, <2>2
<1>7. /\ W!WorkerTypeOK' /\ UNCHANGED <<attempts, cancel, why, shutdown>>
      /\ \A w \in Workers : worker'[w] = IF w \in Range(new) THEN "new" ELSE worker[w]
      /\ \A w \in Range(new) : ~ cancel[w] /\ why[w] = "none"
  BY <1>1, <1>2, CreateStep, TypeParts DEF FreeWorkers, Alive
<1>8. \A k \in K : worker'[new[k]] = "new" /\ ~ cancel[new[k]] /\ why[new[k]] = "none"
  BY <1>2, <1>7
<1>9. \A w \in Workers : (\A k \in K : new[k] # w) => worker'[w] = worker[w] /\ keyOf'[w] = keyOf[w]
  BY <1>2, <1>5, <1>7
<1> QED
  BY <1>1, <1>2, <1>3, <1>4, <1>6, <1>7, <1>8, <1>9

(* ... and lets its task go on. *)
LEMMA AddWorkersTask ==
  ASSUME TypeOK, NEW p \in Tasks, NEW K, AddWorkers(p, K)
  PROVE  \/ p \in Loops /\ t' = [t EXCEPT ![p] = LoopTest] /\ UNCHANGED refreshTask
         \/ p \in Callers /\ t' = [t EXCEPT ![p] = Idle] /\ UNCHANGED refreshTask
         \/ /\ p \in Callers /\ refreshTask' \in FreeLoops
            /\ t' = [t EXCEPT ![p] = Idle, ![refreshTask'] = At("new")]
BY DEF AddWorkers, Tasks

LEMMA AddWorkersType ==
  ASSUME TypeOK, NEW p \in Tasks, NEW K \in SUBSET Keys, AddWorkers(p, K)
  PROVE  RefreshTypes' /\ UNCHANGED shutdown
<1>1. TaskTypes /\ W!WorkerTypeOK /\ TableTypes /\ refreshTask \in Loops \cup {NoTask}
  BY TypeParts DEF LifeTypes
<1>2. PICK new \in [K -> FreeWorkers] :
           /\ W!WorkerTypeOK' /\ UNCHANGED shutdown
           /\ table' = [k \in Keys |-> IF k \in K THEN new[k] ELSE table[k]]
           /\ keyOf' \in [Workers -> Keys \cup {NoTask}]
  BY NewWorkers
<1>3. TableTypes'
  BY <1>1, <1>2 DEF TableTypes, FreeWorkers
<1>5. TaskTypes' /\ refreshTask' \in Loops \cup {NoTask}
  <2>1. CASE p \in Loops /\ t' = [t EXCEPT ![p] = LoopTest] /\ UNCHANGED refreshTask
    BY <1>1, <2>1, Places, TaskMoves, ConnectorAssumption
  <2>2. CASE p \in Callers /\ t' = [t EXCEPT ![p] = Idle] /\ UNCHANGED refreshTask
    BY <1>1, <2>2, Places, TaskMoves
  <2>3. CASE /\ p \in Callers /\ refreshTask' \in FreeLoops
             /\ t' = [t EXCEPT ![p] = Idle, ![refreshTask'] = At("new")]
    BY <1>1, <2>3, Places DEF TaskTypes, TaskOK, FreeLoops, Tasks
  <2> QED
    BY <2>1, <2>2, <2>3, AddWorkersTask
<1> QED
  BY <1>2, <1>3, <1>5 DEF RefreshTypes

LEMMA PopNextType ==
  ASSUME TypeOK, NEW p \in Tasks, NEW gone \in SUBSET Keys, NEW add \in SUBSET Keys,
         PopNext(p, gone, add)
  PROVE  RefreshTypes' /\ UNCHANGED shutdown
<1>1. TaskTypes /\ W!WorkerTypeOK /\ TableTypes /\ refreshTask \in Loops \cup {NoTask}
  BY TypeParts DEF LifeTypes
<1>2. CASE gone = {}
  BY <1>2, AddWorkersType DEF PopNext
<1>3. CASE gone # {}
  <2>1. PICK k \in gone :
          /\ IF table[k] = NoTask
               THEN Raise(p) /\ UNCHANGED <<table, cancel>>
               ELSE /\ table' = [table EXCEPT ![k] = NoTask]
                    /\ W!Cancel({table[k]})
                    /\ t' = [t EXCEPT ![p] = [At("reap") EXCEPT !.gone = gone \ {k}, !.add = add,
                                                              !.waits = {table[k]}]]
          /\ UNCHANGED <<refreshTask, keyOf, worker, attempts, why, waited, shutdown>>
    BY <1>3 DEF PopNext
  <2>2. CASE table[k] = NoTask
    <3>1. TaskTypes'
      BY <1>1, <2>1, <2>2, Places, TaskMoves DEF Raise, Tasks
    <3>2. W!WorkerTypeOK'
      BY <1>1, <2>1, <2>2, NoWorkerStep DEF taskVars, W!WorkerTypeOK
    <3> QED
      BY <1>1, <2>1, <2>2, <3>1, <3>2 DEF RefreshTypes, TableTypes
  <2>3. CASE table[k] # NoTask
    <3>1. table[k] \in Workers
      BY <1>1, <2>3 DEF TableTypes
    <3> DEFINE s == [At("reap") EXCEPT !.gone = gone \ {k}, !.add = add, !.waits = {table[k]}]
    <3>2. TaskOK(p, s)
      BY <3>1 DEF TaskOK, TaskState, At, CallerPlaces, LoopPlaces
    <3>3. t' = [t EXCEPT ![p] = s]
      BY <2>1, <2>3
    <3> HIDE DEF s
    <3>4. TaskTypes'
      BY <1>1, <3>2, <3>3, TaskMoves
    <3>5. W!WorkerTypeOK'
      BY <1>1, <2>1, <2>3, CancelStep DEF W!WorkerTypeOK
    <3> QED
      BY <1>1, <2>1, <2>3, <3>4, <3>5 DEF RefreshTypes, TableTypes
  <2> QED
    BY <2>2, <2>3
<1> QED
  BY <1>2, <1>3

LEMMA ReconcileType ==
  ASSUME TypeOK, NEW p \in Tasks, NEW routers \in SUBSET Urls, Reconcile(p, routers)
  PROVE  RefreshTypes' /\ UNCHANGED shutdown
<1>1. TaskTypes /\ W!WorkerTypeOK /\ TableTypes /\ refreshTask \in Loops \cup {NoTask}
  BY TypeParts DEF LifeTypes
<1> DEFINE gone == Existing \ (routers \X Slots)
           add == (routers \X Slots) \ Existing
<1>2. gone \in SUBSET Keys /\ add \in SUBSET Keys /\ gone \in SUBSET Existing
  BY DEF Existing, Keys
<1>3. CASE gone = {}
  BY <1>2, <1>3, AddWorkersType DEF Reconcile
<1>4. CASE gone # {}
  <2> DEFINE s == [At("dereg") EXCEPT !.urls = RoutersOf(gone), !.gone = gone, !.add = add]
  <2>1. t' = [t EXCEPT ![p] = s] /\ UNCHANGED <<refreshTask, table, keyOf, taskVars, shutdown>>
    BY <1>4 DEF Reconcile
  <2>2. RoutersOf(gone) \in SUBSET Urls /\ RoutersOf(gone) # {}
    BY <1>1, <1>2, <1>4, ExistingType
  <2> HIDE DEF gone, add
  <2>3. TaskOK(p, s)
    BY <1>2, <2>2 DEF TaskOK, TaskState, At, CallerPlaces, LoopPlaces
  <2> HIDE DEF s
  <2>4. TaskTypes'
    BY <1>1, <2>1, <2>3, TaskMoves
  <2>5. W!WorkerTypeOK'
    BY <1>1, <2>1, NoWorkerStep DEF W!WorkerTypeOK
  <2> QED
    BY <1>1, <2>1, <2>4, <2>5 DEF RefreshTypes, TableTypes
<1> QED
  BY <1>3, <1>4

LEMMA RefreshStepType ==
  ASSUME TypeOK, NEW p \in Tasks, RefreshStep(p)
  PROVE  TypeOK'
<1>1. t[p] \in TaskState /\ TaskTypes /\ TableTypes /\ LifeTypes /\ W!WorkerTypeOK
  BY TypeParts DEF TaskTypes
<1>r. ASSUME RefreshTypes', known' \in SUBSET Urls, UNCHANGED <<app, started, stopping, dns, reqVars>>
      PROVE  TypeOK'
  BY <1>r, TypeParts, PartsType DEF LifeTypes, RequestTypes, reqVars
<1>2. CASE Resolve(p)
  <2>1. ResolvedUrls \in SUBSET Urls
    <3>1. dns \in [Hosts -> SUBSET Urls]
      BY TypeParts
    <3> QED
      BY <3>1 DEF ResolvedUrls, Range
  <2> QED
    BY <1>2, <1>r, <2>1, ReconcileType DEF Resolve
<1>3. CASE ResolveFails(p)
  <2>1. TaskTypes'
    BY <1>1, <1>3, Places, TaskMoves DEF ResolveFails, Raise, Tasks
  <2>2. W!WorkerTypeOK'
    BY <1>1, <1>3, NoWorkerStep DEF ResolveFails, W!WorkerTypeOK
  <2> QED
    BY <1>1, <1>3, <1>r, <2>1, <2>2 DEF ResolveFails, RefreshTypes, TableTypes, LifeTypes, lifeVars
<1>4. CASE Deregistered(p)
  <2>1. PICK url \in t[p].urls :
          IF t[p].urls = {url}
            THEN PopNext(p, t[p].gone, t[p].add)
            ELSE /\ t' = [t EXCEPT ![p].urls = @ \ {url}]
                 /\ UNCHANGED <<refreshTask, table, keyOf, taskVars, shutdown>>
    BY <1>4 DEF Deregistered
  <2>2. RefreshTypes' /\ UNCHANGED shutdown
    <3>1. CASE t[p].urls = {url}
      BY <1>1, <2>1, <3>1, PopNextType DEF TaskState
    <3>2. CASE t[p].urls # {url}
      <4>1. TaskOK(p, t[p]) /\ t[p].pc = "dereg"
        BY <1>1, <1>4 DEF TaskTypes, Deregistered
      <4> DEFINE s == [t[p] EXCEPT !.urls = @ \ {url}]
      <4>2. TaskOK(p, s)
        BY <1>1, <2>1, <3>2, <4>1 DEF TaskOK, TaskState
      <4>3. t' = [t EXCEPT ![p] = s]
        BY <2>1, <3>2
      <4> HIDE DEF s
      <4>4. TaskTypes'
        BY <1>1, <4>2, <4>3, TaskMoves
      <4>5. W!WorkerTypeOK'
        BY <1>1, <2>1, <3>2, NoWorkerStep DEF W!WorkerTypeOK
      <4> QED
        BY <1>1, <2>1, <3>2, <4>4, <4>5 DEF RefreshTypes, TableTypes, LifeTypes
    <3> QED
      BY <3>1, <3>2
  <2> QED
    BY <1>1, <1>4, <1>r, <2>2 DEF Deregistered, LifeTypes
<1>5. CASE Reaped(p)
  BY <1>1, <1>5, <1>r, PopNextType DEF Reaped, TaskState, LifeTypes
<1> QED
  BY <1>2, <1>3, <1>4, <1>5 DEF RefreshStep

-----------------------------------------------------------------------------
(* The other actions. *)

(* One task goes to another place, and the workers see a cancellation, the *)
(* event or nothing.                                                       *)
LEMMA OneTaskType ==
  ASSUME TypeOK, NEW p \in Tasks, NEW s, TaskOK(p, s), t' = [t EXCEPT ![p] = s],
         refreshTask' \in Loops \cup {NoTask},
         table' = table \/ table' = [k \in Keys |-> NoTask], UNCHANGED keyOf,
         UNCHANGED taskVars \/ (\E S : W!Cancel(S)), shutdown' \in BOOLEAN
  PROVE  RefreshTypes'
<1>1. TaskTypes /\ W!WorkerTypeOK /\ TableTypes
  BY TypeParts
<1>2. TaskTypes'
  BY <1>1, TaskMoves
<1>3. W!WorkerTypeOK'
  BY <1>1, NoWorkerStep, CancelStep
<1> QED
  BY <1>1, <1>2, <1>3 DEF RefreshTypes, TableTypes

LEMMA DeregisterAllType ==
  ASSUME TypeOK, NEW c \in Callers, DeregisterAll(c)
  PROVE  \E s : TaskOK(c, s) /\ t' = [t EXCEPT ![c] = s]
<1>1. TableTypes
  BY TypeParts
<1> DEFINE s == [At("deregall") EXCEPT !.urls = RoutersOf(Existing)]
<1>2. CASE Existing = {}
  BY <1>2, Places DEF DeregisterAll
<1>3. CASE Existing # {}
  <2>1. RoutersOf(Existing) \in SUBSET Urls /\ RoutersOf(Existing) # {}
    BY <1>1, <1>3, ExistingType
  <2>2. TaskOK(c, s)
    BY <2>1, ConnectorAssumption DEF TaskOK, TaskState, At, CallerPlaces
  <2>3. t' = [t EXCEPT ![c] = s]
    BY <1>3 DEF DeregisterAll
  <2> QED
    BY <2>2, <2>3
<1> QED
  BY <1>2, <1>3

LEMMA CallerStepType ==
  ASSUME TypeOK, NEW c \in Callers, CallerStep(c)
  PROVE  TypeOK'
<1>1. /\ LifeTypes /\ TaskTypes /\ TableTypes /\ W!WorkerTypeOK /\ shutdown \in BOOLEAN
      /\ RequestTypes /\ dns \in [Hosts -> SUBSET Urls] /\ c \in Tasks
  BY TypeParts DEF W!WorkerTypeOK, Tasks
<1>r. ASSUME RefreshTypes', UNCHANGED <<known, dns, reqVars>>,
             app' \in Apps \cup {NoApp}, started' \in BOOLEAN, stopping' \in SUBSET Loops
      PROVE  TypeOK'
  BY <1>1, <1>r, PartsType DEF LifeTypes, RequestTypes, reqVars
<1>s. ASSUME BeginStartup(c), app' \in Apps \cup {NoApp} PROVE TypeOK'
  <2>1. TaskOK(c, At("resolve")) /\ t' = [t EXCEPT ![c] = At("resolve")]
    BY <1>1, <1>s, Places DEF BeginStartup
  <2>2. RefreshTypes'
    BY <1>1, <1>s, <2>1, OneTaskType DEF BeginStartup, LifeTypes
  <2> QED
    BY <1>1, <1>s, <1>r, <2>2 DEF BeginStartup, LifeTypes
<1>d. ASSUME BeginShutdown(c) PROVE TypeOK'
  <2>1. shutdown' \in BOOLEAN /\ stopping' \in SUBSET Loops /\ (UNCHANGED taskVars \/ \E S : W!Cancel(S))
    BY <1>1, <1>d DEF BeginShutdown, LifeTypes
  <2>2. \E s : TaskOK(c, s) /\ t' = [t EXCEPT ![c] = s]
    <3>1. CASE refreshTask = NoTask
      BY <1>d, <3>1, DeregisterAllType DEF BeginShutdown
    <3>2. CASE refreshTask # NoTask
      <4> DEFINE s == [At("stoploop") EXCEPT !.waits = {refreshTask}]
      <4>1. TaskOK(c, s)
        BY <1>1, <3>2, ConnectorAssumption DEF TaskOK, TaskState, At, CallerPlaces, LifeTypes
      <4>2. t' = [t EXCEPT ![c] = s]
        BY <1>d, <3>2 DEF BeginShutdown
      <4> QED
        BY <4>1, <4>2
    <3> QED
      BY <3>1, <3>2
  <2>3. RefreshTypes'
    BY <1>1, <1>d, <2>1, <2>2, OneTaskType DEF BeginShutdown, LifeTypes
  <2> QED
    BY <1>1, <1>d, <1>r, <2>1, <2>3 DEF BeginShutdown, LifeTypes
<1>n. ASSUME app' \in Apps \cup {NoApp},
             UNCHANGED <<started, refreshTask, stopping, known, table, t, dns, keyOf, reqVars,
                         taskVars, shutdown>>
      PROVE  TypeOK'
  <2>1. W!WorkerTypeOK'
    BY <1>1, <1>n, NoWorkerStep
  <2> QED
    BY <1>1, <1>n, <1>r, <2>1 DEF RefreshTypes, TableTypes, TaskTypes, LifeTypes
<1>2. CASE Startup(c)
  BY <1>1, <1>2, <1>s DEF Startup, LifeTypes
<1>3. CASE Attach(c)
  BY <1>1, <1>3, <1>s, <1>n DEF Attach
<1>4. CASE Shutdown(c)
  BY <1>4, <1>d DEF Shutdown
<1>5. CASE Detach(c)
  BY <1>5, <1>d, <1>n DEF Detach
<1> QED
  BY <1>2, <1>3, <1>4, <1>5 DEF CallerStep

LEMMA ShutdownStepType ==
  ASSUME TypeOK, NEW c \in Callers, ShutdownStep(c)
  PROVE  TypeOK'
<1>1. /\ LifeTypes /\ TaskTypes /\ TableTypes /\ W!WorkerTypeOK /\ shutdown \in BOOLEAN
      /\ RequestTypes /\ dns \in [Hosts -> SUBSET Urls] /\ c \in Tasks /\ TaskOK(c, t[c])
  BY TypeParts DEF W!WorkerTypeOK, Tasks, TaskTypes
<1>r. ASSUME RefreshTypes', UNCHANGED <<stopping, dns, reqVars>>, known' \in SUBSET Urls,
             app' \in Apps \cup {NoApp}, started' \in BOOLEAN
      PROVE  TypeOK'
  BY <1>1, <1>r, PartsType DEF LifeTypes, RequestTypes, reqVars
<1>f. ASSUME Finish(c), UNCHANGED taskVars \/ (\E S : W!Cancel(S)),
             UNCHANGED <<refreshTask, stopping, dns, keyOf, reqVars, shutdown>>
      PROVE  TypeOK'
  <2>1. TaskOK(c, Idle) /\ t' = [t EXCEPT ![c] = Idle]
    BY <1>1, <1>f, Places DEF Finish
  <2>2. RefreshTypes'
    BY <1>1, <1>f, <2>1, OneTaskType DEF Finish, LifeTypes
  <2> QED
    BY <1>f, <1>r, <2>2 DEF Finish
<1>e. ASSUME NEW how \in {"join", "abort"}, EndDrain(c, how) PROVE TypeOK'
  <2>1. CASE Existing = {}
    BY <1>e, <1>f, <2>1 DEF EndDrain
  <2>2. CASE Existing # {}
    <3> DEFINE s == [At(how) EXCEPT !.waits = WorkersOf(Existing)]
    <3>1. WorkersOf(Existing) \in SUBSET Workers /\ WorkersOf(Existing) # {}
      BY <1>1, <2>2, ExistingType
    <3>2. TaskOK(c, s)
      BY <3>1, ConnectorAssumption DEF TaskOK, TaskState, At, CallerPlaces
    <3>3. t' = [t EXCEPT ![c] = s]
      BY <1>e, <2>2 DEF EndDrain
    <3> HIDE DEF s
    <3>4. RefreshTypes'
      BY <1>1, <1>e, <2>2, <3>2, <3>3, OneTaskType DEF EndDrain, LifeTypes
    <3> QED
      BY <1>1, <1>e, <1>r, <2>2, <3>4 DEF EndDrain, KeepApp, LifeTypes
  <2> QED
    BY <2>1, <2>2
<1>2. CASE LoopStopped(c)
  <2>1. \E s : TaskOK(c, s) /\ t' = [t EXCEPT ![c] = s]
    BY <1>2, DeregisterAllType DEF LoopStopped
  <2>2. RefreshTypes'
    BY <1>1, <1>2, <2>1, OneTaskType DEF LoopStopped
  <2> QED
    BY <1>1, <1>2, <1>r, <2>2 DEF LoopStopped, LifeTypes
<1>3. CASE DeregisteredOne(c)
  <2>1. PICK url \in t[c].urls :
          IF t[c].urls = {url} THEN t' = [t EXCEPT ![c] = At("drain")]
                               ELSE t' = [t EXCEPT ![c].urls = @ \ {url}]
    BY <1>3 DEF DeregisteredOne
  <2>2. \E s : TaskOK(c, s) /\ t' = [t EXCEPT ![c] = s]
    <3>1. CASE t[c].urls = {url}
      BY <2>1, <3>1, Places
    <3>2. CASE t[c].urls # {url}
      <4> DEFINE s == [t[c] EXCEPT !.urls = @ \ {url}]
      <4>1. TaskOK(c, s)
        BY <1>1, <1>3, <2>1, <3>2 DEF TaskOK, TaskState, DeregisteredOne
      <4>2. t' = [t EXCEPT ![c] = s]
        BY <2>1, <3>2
      <4> QED
        BY <4>1, <4>2
    <3> QED
      BY <3>1, <3>2
  <2>3. RefreshTypes'
    BY <1>1, <1>3, <2>2, OneTaskType DEF DeregisteredOne, LifeTypes, lifeVars
  <2> QED
    BY <1>1, <1>3, <1>r, <2>3 DEF DeregisteredOne, LifeTypes, lifeVars
<1>4. CASE Drained(c) \/ DrainTimesOut(c)
  BY <1>4, <1>e DEF Drained, DrainTimesOut
<1>5. CASE Joined(c)
  BY <1>5, <1>f DEF Joined
<1> QED
  BY <1>2, <1>3, <1>4, <1>5 DEF ShutdownStep

LEMMA LoopStepType ==
  ASSUME TypeOK, NEW l \in Loops, LoopStep(l)
  PROVE  TypeOK'
<1>1. /\ LifeTypes /\ TaskTypes /\ TableTypes /\ W!WorkerTypeOK /\ shutdown \in BOOLEAN
      /\ RequestTypes /\ dns \in [Hosts -> SUBSET Urls] /\ l \in Tasks
  BY TypeParts DEF W!WorkerTypeOK, Tasks
<1>2. /\ \E s : TaskOK(l, s) /\ t' = [t EXCEPT ![l] = s]
      /\ stopping' \in SUBSET Loops
      /\ UNCHANGED <<app, started, refreshTask, known, table, dns, keyOf, reqVars, taskVars, shutdown>>
  BY <1>1, Places DEF LoopStep, LoopBegins, LoopWakes, LoopCancelled, lifeVars, LifeTypes
<1>3. RefreshTypes'
  BY <1>1, <1>2, OneTaskType DEF LifeTypes
<1> QED
  BY <1>1, <1>2, <1>3, PartsType DEF LifeTypes, RequestTypes, reqVars

LEMMA RestType ==
  ASSUME TypeOK, UNCHANGED <<lifeVars, table, t>>, RequestTypes', W!WorkerTypeOK',
         keyOf' \in [Workers -> Keys \cup {NoTask}], dns' \in [Hosts -> SUBSET Urls]
  PROVE  TypeOK'
BY TypeParts, PartsType DEF RefreshTypes, LifeTypes, TableTypes, TaskTypes, lifeVars

LEMMA RequestType ==
  ASSUME TypeOK, NEW r \in Requests,
         RequestFinishes(r) \/ \E w \in Workers : RequestStarts(r, w)
  PROVE  TypeOK'
<1>1. RequestTypes /\ TableTypes /\ W!WorkerTypeOK /\ dns \in [Hosts -> SUBSET Urls]
  BY TypeParts
<1>2. RequestTypes'
  BY <1>1, ConnectorAssumption DEF RequestTypes, RequestFinishes, RequestStarts
<1>3. UNCHANGED <<lifeVars, table, t, dns, keyOf, taskVars, shutdown>>
  BY DEF RequestFinishes, RequestStarts
<1>4. W!WorkerTypeOK'
  BY <1>1, <1>3, NoWorkerStep DEF W!WorkerTypeOK
<1> QED
  BY <1>1, <1>2, <1>3, <1>4, RestType DEF TableTypes

LEMMA WorkerType ==
  ASSUME TypeOK, NEW w \in Workers, WorkerRuns(w) \/ NetworkStep(w)
  PROVE  TypeOK'
<1>1. /\ RequestTypes /\ TableTypes /\ W!WorkerTypeOK /\ dns \in [Hosts -> SUBSET Urls]
      /\ W!WorkerRuns(w) \/ W!NetworkStep(w)
      /\ AroundWorker(w)
  BY TypeParts DEF WorkerRuns, NetworkStep
<1>2. W!WorkerTypeOK'
  BY <1>1, WorkerStepType
<1>3. RequestTypes'
  BY <1>1, ConnectorAssumption DEF RequestTypes, AroundWorker
<1>4. keyOf' \in [Workers -> Keys \cup {NoTask}]
  BY <1>1 DEF AroundWorker, TableTypes
<1>5. UNCHANGED <<lifeVars, table, t, dns>>
  BY <1>1 DEF AroundWorker
<1> QED
  BY <1>1, <1>2, <1>3, <1>4, <1>5, RestType

LEMMA TypeStep ==
  ASSUME TypeOK, [Next]_vars
  PROVE  TypeOK'
<1>1. RequestTypes /\ TableTypes /\ W!WorkerTypeOK /\ dns \in [Hosts -> SUBSET Urls]
  BY TypeParts
<1>2. CASE DnsChanges
  <2>1. /\ dns' \in [Hosts -> SUBSET Urls] /\ UNCHANGED taskVars /\ shutdown' \in BOOLEAN
        /\ UNCHANGED <<lifeVars, table, t, keyOf, reqVars>>
    BY <1>1, <1>2 DEF DnsChanges, W!WorkerTypeOK
  <2>2. W!WorkerTypeOK'
    BY <1>1, <2>1, NoWorkerStep
  <2> QED
    BY <1>1, <2>1, <2>2, RestType DEF RequestTypes, TableTypes, reqVars
<1>3. CASE UNCHANGED vars
  <2>1. W!WorkerTypeOK'
    BY <1>1, <1>3, NoWorkerStep DEF vars, W!WorkerTypeOK
  <2> QED
    BY <1>1, <1>3, <2>1, RestType DEF vars, RequestTypes, TableTypes, reqVars
<1> QED
  BY <1>2, <1>3, CallerStepType, ShutdownStepType, RefreshStepType, LoopStepType, RequestType,
     WorkerType DEF Next

LEMMA TypeInit == Init => TypeOK
<1> SUFFICES ASSUME Init PROVE TypeOK
  OBVIOUS
<1>1. W!WorkerTypeOK
  BY WorkerAssumption, WP!InitTypeOK
     DEF Init, W!WorkerInit, WP!WorkerInit, W!WorkerTypeOK, WP!WorkerTypeOK, W!Place, WP!Place,
         W!Ended, WP!Ended
<1>2. TaskTypes
  BY Places DEF Init, TaskTypes, TaskOK
<1> QED
  BY <1>1, <1>2, TypeParts DEF Init, LifeTypes, TableTypes, RequestTypes

(***************************************************************************)
(* However its operations, the refresh loop, the workers and the network   *)
(* interleave, every variable of the connector keeps its shape: a task     *)
(* waits in a gather only, an id stands for one task at a time, and a      *)
(* request has a session while it is there.                                *)
(***************************************************************************)
THEOREM TypeCorrect == SafeSpec => []TypeOK
  BY TypeInit, TypeStep, PTL DEF SafeSpec

-----------------------------------------------------------------------------
(* Active requests.  A worker whose session has one runs, and when it is   *)
(* cancelled somebody waits for it: a refresh that has removed its router, *)
(* or a shutdown that has given up on the drain.                           *)

WaitsFor(p, w) == w \in t[p].waits /\ t[p].pc \in {"reap", "abort"}

Cutting ==
  \A r \in Requests : req[r] = "active" =>
    /\ home[r] \in Workers /\ worker[home[r]] = "run"
    /\ cancel[home[r]] => \E p \in Tasks : WaitsFor(p, home[r])

(* What every step but those of a worker and of a request does. *)
LEMMA CuttingKept ==
  ASSUME Cutting, UNCHANGED reqVars,
         \A w \in Workers : worker[w] = "run" => worker'[w] = "run",
         \A w \in Workers : worker[w] = "run" /\ cancel'[w] =>
           \/ cancel[w] \/ \E p \in Tasks : WaitsFor(p, w)'
           \/ \A r \in Requests : req[r] # "active",
         \A p \in Tasks, w \in Workers : worker[w] = "run" /\ WaitsFor(p, w) => WaitsFor(p, w)'
  PROVE  Cutting'
BY DEF Cutting, reqVars

(* A task moves that waits for nothing, or for nobody in a session. *)
LEMMA OneTaskWaits ==
  ASSUME TypeOK, NEW p \in Tasks, NEW s, t' = [t EXCEPT ![p] = s],
         t[p].pc \in {"reap", "abort"} => \A w \in t[p].waits \cap Workers : worker[w] # "run"
  PROVE  \A q \in Tasks, w \in Workers : worker[w] = "run" /\ WaitsFor(q, w) => WaitsFor(q, w)'
BY DEF TypeOK, WaitsFor

LEMMA DoneIdle ==
  ASSUME NEW S, Done(S)
  PROVE  \A w \in S \cap Workers : worker[w] # "run"
BY ConnectorAssumption DEF Done, W!Ended

LEMMA PopNextCutting ==
  ASSUME TypeOK, Cutting, UNCHANGED reqVars, NEW p \in Tasks, NEW gone \in SUBSET Keys,
         NEW add \in SUBSET Keys,
         PopNext(p, gone, add) \/ (gone = {} /\ AddWorkers(p, add)),
         t[p].pc \in {"reap", "abort"} => \A w \in t[p].waits \cap Workers : worker[w] # "run"
  PROVE  Cutting'
<1>1. CASE gone = {}
  <2>1. AddWorkers(p, add)
    BY <1>1 DEF PopNext
  <2>2. PICK new \in [add -> FreeWorkers] :
          /\ UNCHANGED cancel
          /\ \A w \in Workers : (\A k \in add : new[k] # w) => worker'[w] = worker[w]
    BY <2>1, NewWorkers
  <2>3. \A w \in Workers : worker[w] = "run" => worker'[w] = "run"
    BY <2>2 DEF FreeWorkers, W!Ended
  <2>4. \A q \in Tasks, w \in Workers : worker[w] = "run" /\ WaitsFor(q, w) => WaitsFor(q, w)'
    <3>1. CASE \E s : t' = [t EXCEPT ![p] = s]
      BY <3>1, OneTaskWaits
    <3>2. CASE /\ p \in Callers /\ refreshTask' \in FreeLoops
               /\ t' = [t EXCEPT ![p] = Idle, ![refreshTask'] = At("new")]
      BY <3>2 DEF TypeOK, WaitsFor, FreeLoops
    <3> QED
      BY <2>1, <3>1, <3>2, AddWorkersTask
  <2> QED
    BY <2>2, <2>3, <2>4, CuttingKept
<1>2. CASE gone # {}
  <2>1. PICK k \in gone :
          /\ IF table[k] = NoTask
               THEN Raise(p) /\ UNCHANGED <<table, cancel>>
               ELSE /\ table' = [table EXCEPT ![k] = NoTask]
                    /\ W!Cancel({table[k]})
                    /\ t' = [t EXCEPT ![p] = [At("reap") EXCEPT !.gone = gone \ {k}, !.add = add,
                                                              !.waits = {table[k]}]]
          /\ UNCHANGED <<refreshTask, keyOf, worker, attempts, why, waited, shutdown>>
    BY <1>2 DEF PopNext
  <2>2. \A q \in Tasks, w \in Workers : worker[w] = "run" /\ WaitsFor(q, w) => WaitsFor(q, w)'
    BY <2>1, OneTaskWaits DEF Raise
  <2>3. ASSUME NEW w \in Workers, cancel'[w], ~ cancel[w] PROVE \E q \in Tasks : WaitsFor(q, w)'
    <3>1. table[k] # NoTask
      BY <2>1, <2>3
    <3>2. w = table[k]
      BY <2>1, <2>3, <3>1 DEF W!Cancel
    <3> DEFINE s == [At("reap") EXCEPT !.gone = gone \ {k}, !.add = add, !.waits = {table[k]}]
    <3>3. s.pc = "reap" /\ s.waits = {w}
      BY <3>2 DEF At
    <3>4. t' = [t EXCEPT ![p] = s]
      BY <2>1, <3>1
    <3> HIDE DEF s
    <3>5. t'[p] = s
      BY <3>4 DEF TypeOK
    <3>6. WaitsFor(p, w)'
      BY <3>3, <3>5 DEF WaitsFor
    <3> QED
      BY <3>6
  <2> QED
    BY <2>1, <2>2, <2>3, CuttingKept
<1> QED
  BY <1>1, <1>2

LEMMA RefreshCutting ==
  ASSUME TypeOK, Cutting, NEW p \in Tasks, RefreshStep(p)
  PROVE  Cutting'
<1>1. t[p] \in TaskState
  BY TypeParts DEF TaskTypes
<1>2. UNCHANGED reqVars
  BY DEF RefreshStep, Resolve, ResolveFails, Deregistered, Reaped
<1>s. ASSUME UNCHANGED <<worker, cancel>>, NEW s, t' = [t EXCEPT ![p] = s],
             t[p].pc \notin {"reap", "abort"}
      PROVE  Cutting'
  BY <1>2, <1>s, OneTaskWaits, CuttingKept
<1>3. CASE Resolve(p)
  <2> DEFINE gone == Existing \ (ResolvedUrls \X Slots)
             add == (ResolvedUrls \X Slots) \ Existing
  <2>1. gone \in SUBSET Keys /\ add \in SUBSET Keys
    BY DEF Existing, Keys, ResolvedUrls, Range, TypeOK
  <2>2. CASE gone = {}
    BY <1>2, <1>3, <2>1, <2>2, PopNextCutting DEF Resolve, Reconcile
  <2>3. CASE gone # {}
    BY <1>3, <1>s, <2>3 DEF Resolve, Reconcile, taskVars
  <2> QED
    BY <2>2, <2>3
<1>4. CASE ResolveFails(p)
  BY <1>4, <1>s DEF ResolveFails, Raise, taskVars
<1>5. CASE Deregistered(p)
  <2>1. PICK url \in t[p].urls :
          IF t[p].urls = {url}
            THEN PopNext(p, t[p].gone, t[p].add)
            ELSE /\ t' = [t EXCEPT ![p].urls = @ \ {url}]
                 /\ UNCHANGED <<refreshTask, table, keyOf, taskVars, shutdown>>
    BY <1>5 DEF Deregistered
  <2>2. CASE t[p].urls = {url}
    BY <1>1, <1>2, <1>5, <2>1, <2>2, PopNextCutting DEF Deregistered, TaskState
  <2>3. CASE t[p].urls # {url}
    <3>1. \E s : t' = [t EXCEPT ![p] = s]
      BY <2>1, <2>3
    <3> QED
      BY <1>5, <1>s, <2>1, <2>3, <3>1 DEF Deregistered, taskVars
  <2> QED
    BY <2>2, <2>3
<1>6. CASE Reaped(p)
  BY <1>1, <1>2, <1>6, DoneIdle, PopNextCutting DEF Reaped, TaskState
<1> QED
  BY <1>3, <1>4, <1>5, <1>6 DEF RefreshStep

LEMMA CallerCutting ==
  ASSUME TypeOK, Cutting, NEW c \in Callers, CallerStep(c)
  PROVE  Cutting'
<1>1. c \in Tasks /\ UNCHANGED reqVars
  BY DEF Tasks, CallerStep, Startup, Attach, Shutdown, Detach, BeginStartup, BeginShutdown
<1>s. ASSUME BeginStartup(c), Calls(c) PROVE Cutting'
  BY <1>1, <1>s, OneTaskWaits, CuttingKept DEF BeginStartup, Calls, taskVars
<1>d. ASSUME BeginShutdown(c), Calls(c) PROVE Cutting'
  <2>1. \E s : t' = [t EXCEPT ![c] = s]
    BY <1>d DEF BeginShutdown, DeregisterAll
  <2>2. \A q \in Tasks, w \in Workers : worker[w] = "run" /\ WaitsFor(q, w) => WaitsFor(q, w)'
    BY <1>1, <1>d, <2>1, OneTaskWaits DEF Calls
  <2>3. CASE refreshTask = NoTask
    BY <1>1, <1>d, <2>2, <2>3, CuttingKept DEF BeginShutdown, taskVars
  <2>4. CASE refreshTask # NoTask
    <3>1. PICK l \in Loops : l = refreshTask /\ l \in Tasks /\ t'[l] = t[l]
      BY <2>1, <2>4, ConnectorAssumption DEF TypeOK, Tasks
    <3>2. W!Cancel(t[l].waits) /\ UNCHANGED worker
      BY <1>d, <2>4, <3>1 DEF BeginShutdown, W!Cancel
    <3>3. ASSUME NEW w \in Workers, cancel'[w], ~ cancel[w] PROVE WaitsFor(l, w)'
      <4>1. w \in t[l].waits
        BY <3>2, <3>3 DEF W!Cancel
      <4>2. t[l].pc = "reap"
        BY <3>1, <4>1 DEF TypeOK, LoopPlaces
      <4> QED
        BY <3>1, <4>1, <4>2 DEF WaitsFor
    <3> QED
      BY <1>1, <2>2, <3>1, <3>2, <3>3, CuttingKept
  <2> QED
    BY <2>3, <2>4
<1>n. ASSUME UNCHANGED <<t, taskVars>> PROVE Cutting'
  BY <1>1, <1>n, CuttingKept DEF taskVars, WaitsFor
<1> QED
  BY <1>s, <1>d, <1>n DEF CallerStep, Startup, Attach, Shutdown, Detach

LEMMA ShutdownCutting ==
  ASSUME TypeOK, Cutting, NEW c \in Callers, ShutdownStep(c)
  PROVE  Cutting'
<1>1. c \in Tasks /\ UNCHANGED <<reqVars, worker>>
  BY DEF Tasks, ShutdownStep, LoopStopped, DeregisteredOne, Drained, DrainTimesOut, Joined, EndDrain,
         W!Cancel, taskVars
<1>2. \E s : t' = [t EXCEPT ![c] = s]
  BY DEF ShutdownStep, LoopStopped, DeregisterAll, DeregisteredOne, Drained, DrainTimesOut, EndDrain,
         Joined, Finish
<1>3. \A q \in Tasks, w \in Workers : worker[w] = "run" /\ WaitsFor(q, w) => WaitsFor(q, w)'
  BY <1>1, <1>2, OneTaskWaits, DoneIdle
     DEF ShutdownStep, LoopStopped, DeregisteredOne, Drained, DrainTimesOut, EndDrain, Joined
<1>4. CASE LoopStopped(c) \/ DeregisteredOne(c) \/ Joined(c)
  BY <1>1, <1>3, <1>4, CuttingKept DEF LoopStopped, DeregisteredOne, Joined, taskVars
<1>5. CASE Drained(c)
  <2>1. \A r \in Requests : req[r] # "active"
    BY <1>5 DEF Drained, Active
  <2> QED
    BY <1>1, <1>3, <2>1, CuttingKept
<1>6. CASE DrainTimesOut(c)
  <2>1. ASSUME NEW w \in Workers, cancel'[w], ~ cancel[w] PROVE WaitsFor(c, w)'
    <3>1. w \in WorkersOf(Existing) /\ Existing # {}
      BY <1>6, <2>1 DEF DrainTimesOut, EndDrain, W!Cancel, WorkersOf
    <3> DEFINE s == [At("abort") EXCEPT !.waits = WorkersOf(Existing)]
    <3>2. s.pc = "abort" /\ w \in s.waits
      BY <3>1 DEF At
    <3>3. t' = [t EXCEPT ![c] = s]
      BY <1>6, <3>1 DEF DrainTimesOut, EndDrain
    <3> HIDE DEF s
    <3>4. t'[c] = s
      BY <1>1, <3>3 DEF TypeOK
    <3> QED
      BY <3>2, <3>4 DEF WaitsFor
  <2> QED
    BY <1>1, <1>3, <2>1, CuttingKept
<1> QED
  BY <1>4, <1>5, <1>6 DEF ShutdownStep

LEMMA LoopCutting ==
  ASSUME TypeOK, Cutting, NEW l \in Loops, LoopStep(l)
  PROVE  Cutting'
<1>1. l \in Tasks /\ (\E s : t' = [t EXCEPT ![l] = s]) /\ UNCHANGED <<reqVars, taskVars>>
  BY DEF Tasks, LoopStep, LoopBegins, LoopWakes, LoopCancelled
<1>2. \A q \in Tasks, w \in Workers : worker[w] = "run" /\ WaitsFor(q, w) => WaitsFor(q, w)'
  <2>1. t[l].pc # "abort"
    BY DEF TypeOK, LoopPlaces
  <2> QED
    BY <1>1, <2>1, OneTaskWaits, DoneIdle DEF LoopStep, LoopBegins, LoopWakes, LoopCancelled
<1> QED
  BY <1>1, <1>2, CuttingKept DEF taskVars

LEMMA RequestCutting ==
  ASSUME TypeOK, Cutting, NEW r \in Requests,
         RequestFinishes(r) \/ \E w \in Workers : RequestStarts(r, w)
  PROVE  Cutting'
<1>1. UNCHANGED <<t, worker, cancel>>
  BY DEF RequestFinishes, RequestStarts, taskVars
<1>2. CASE RequestFinishes(r)
  BY <1>1, <1>2 DEF RequestFinishes, Cutting, WaitsFor, TypeOK
<1>3. ASSUME NEW w \in Workers, RequestStarts(r, w) PROVE Cutting'
  BY <1>1, <1>3 DEF RequestStarts, Cutting, WaitsFor, TypeOK
<1> QED
  BY <1>2, <1>3

LEMMA WorkerCutting ==
  ASSUME TypeOK, Cutting, NEW w \in Workers, WorkerRuns(w) \/ NetworkStep(w)
  PROVE  Cutting'
<1>1. AroundWorker(w) /\ W!WorkerTypeOK /\ (W!WorkerRuns(w) \/ W!NetworkStep(w))
  BY TypeParts DEF WorkerRuns, NetworkStep
<1>2. /\ \A v \in Workers \ {w} : worker'[v] = worker[v] /\ cancel'[v] = cancel[v]
      /\ cancel'[w] => cancel[w]
  BY <1>1, WorkerStep
<1>3. ASSUME NEW r \in Requests, req'[r] = "active"
      PROVE  req[r] = "active" /\ ~ (home[r] = w /\ worker[w] = "run") /\ home'[r] = home[r]
  BY <1>1, <1>3 DEF AroundWorker
<1> QED
  BY <1>1, <1>2, <1>3 DEF Cutting, WaitsFor, AroundWorker

LEMMA CuttingStep ==
  ASSUME TypeOK, Cutting, [Next]_vars
  PROVE  Cutting'
<1>1. CASE DnsChanges
  BY <1>1 DEF DnsChanges, Cutting, WaitsFor, reqVars, taskVars
<1>2. CASE UNCHANGED vars
  BY <1>2 DEF vars, Cutting, WaitsFor, reqVars, taskVars
<1> QED
  BY <1>1, <1>2, CallerCutting, ShutdownCutting, RefreshCutting, LoopCutting, RequestCutting,
     WorkerCutting DEF Next

LEMMA DrainStep ==
  ASSUME TypeOK, Cutting, [Next]_vars, NEW r \in Requests, req[r] = "active", req'[r] = "cut"
  PROVE  \/ ~ cancel[home[r]]
         \/ \E p \in Tasks : home[r] \in t[p].waits /\ t[p].pc \in {"reap", "abort"}
BY DEF Cutting, WaitsFor

(***************************************************************************)
(* With any number of tasks that attach, detach, refresh and shut down at  *)
(* once: a request that is active is cut by the end of its link, or by a   *)
(* task that waits for the worker it has cancelled, because the router is  *)
(* gone or the drain has timed out.  A request that starts on a session    *)
(* whose cancellation is on its way was never active.                      *)
(***************************************************************************)
THEOREM GracefulDrainHolds == SafeSpec => GracefulDrain
<1>1. Init => Cutting
  BY DEF Init, Cutting
<1>2. TypeOK /\ Cutting /\ [Next]_vars =>
        [\A r \in Requests : req[r] = "active" /\ req'[r] = "cut" =>
           \/ ~ cancel[home[r]]
           \/ \E p \in Tasks : home[r] \in t[p].waits /\ t[p].pc \in {"reap", "abort"}]_vars
  BY DrainStep
<1> QED
  BY <1>1, <1>2, TypeInit, TypeStep, CuttingStep, PTL DEF SafeSpec, GracefulDrain

-----------------------------------------------------------------------------
(* One caller, which calls the operations in turn.  Lifecycle says which   *)
(* tasks are where together: one refresh loop at most, which no startup or *)
(* drain meets.                                                            *)

OneCaller == \A c, d \in Callers : c = d

Lifecycle ==
  /\ refreshTask # NoTask => started
  /\ \A l \in Loops : t[l].pc # "idle" => l = refreshTask
  /\ \A l \in stopping : t[l].pc # "idle" /\ \E c \in Callers : t[c].pc = "stoploop"
  /\ \A c \in Callers :
       /\ t[c].pc \notin {"dereg", "reap"}
       /\ t[c].pc # "idle" => started
       /\ t[c].pc \in {"resolve", "deregall", "drain", "join", "abort"} => refreshTask = NoTask
       /\ t[c].pc = "stoploop" =>
            /\ refreshTask # NoTask /\ t[c].waits = {refreshTask}
            /\ t[refreshTask].pc # "idle" => refreshTask \in stopping
       /\ t[c].pc \in {"join", "abort"} => t[c].waits = WorkersOf(Existing)
       /\ t[c].pc = "resolve" => Existing = {}
  /\ ~ started => Existing = {} /\ known = {}

LEMMA TablesSame ==
  ASSUME UNCHANGED table
  PROVE  UNCHANGED Existing /\ WorkersOf(Existing)' = WorkersOf(Existing)
BY DEF Existing, WorkersOf

(* A refresh is of the loop, when no call is in progress, or of a startup, *)
(* which finds no loop and an empty table.                                 *)
LEMMA WhoRefreshes ==
  ASSUME TypeOK, Lifecycle, NEW p \in Tasks, RefreshStep(p)
  PROVE  /\ started
         /\ p \in Loops => /\ p = refreshTask /\ p \notin stopping
                           /\ \A c \in Callers : t[c].pc = "idle"
         /\ p \in Callers => /\ t[p].pc = "resolve" /\ refreshTask = NoTask /\ Existing = {}
                             /\ \A l \in Loops : t[l].pc = "idle"
<1>1. t[p].pc \in {"resolve", "dereg", "reap"} /\ p \notin stopping
  BY DEF RefreshStep, Resolve, ResolveFails, Deregistered, Reaped
<1>2. CASE p \in Loops
  <2>1. p = refreshTask /\ started /\ p # NoTask
    BY <1>1, <1>2, ConnectorAssumption DEF Lifecycle
  <2>2. ASSUME NEW c \in Callers PROVE t[c].pc = "idle"
    <3>1. t[c].pc # "stoploop"
      BY <1>1, <2>1, <2>2 DEF Lifecycle
    <3>2. t[c].pc \in CallerPlaces
      BY <2>2 DEF TypeOK
    <3> QED
      BY <2>1, <3>1, <3>2 DEF Lifecycle, CallerPlaces
  <2> QED
    BY <1>1, <1>2, <2>1, <2>2, ConnectorAssumption
<1>3. CASE p \in Callers
  <2>1. t[p].pc = "resolve" /\ refreshTask = NoTask /\ Existing = {} /\ started
    BY <1>1, <1>3 DEF Lifecycle
  <2>2. \A l \in Loops : t[l].pc = "idle"
    BY <2>1, ConnectorAssumption DEF Lifecycle
  <2> QED
    BY <1>3, <2>1, <2>2, ConnectorAssumption
<1> QED
  BY <1>2, <1>3 DEF Tasks

LEMMA RefreshTask ==
  ASSUME TypeOK, NEW p \in Tasks, RefreshStep(p)
  PROVE  /\ UNCHANGED <<app, started, stopping>>
         /\ \/ (\E s : t' = [t EXCEPT ![p] = s]) /\ UNCHANGED refreshTask
            \/ /\ p \in Callers /\ refreshTask' \in FreeLoops
               /\ t' = [t EXCEPT ![p] = Idle, ![refreshTask'] = At("new")]
<1>1. ASSUME NEW K, AddWorkers(p, K)
      PROVE  \/ (\E s : t' = [t EXCEPT ![p] = s]) /\ UNCHANGED refreshTask
             \/ /\ p \in Callers /\ refreshTask' \in FreeLoops
                /\ t' = [t EXCEPT ![p] = Idle, ![refreshTask'] = At("new")]
  BY <1>1, AddWorkersTask
<1>2. ASSUME NEW gone, NEW add, PopNext(p, gone, add)
      PROVE  \/ (\E s : t' = [t EXCEPT ![p] = s]) /\ UNCHANGED refreshTask
             \/ /\ p \in Callers /\ refreshTask' \in FreeLoops
                /\ t' = [t EXCEPT ![p] = Idle, ![refreshTask'] = At("new")]
  <2>1. CASE gone = {}
    BY <1>1, <1>2, <2>1 DEF PopNext
  <2>2. CASE gone # {}
    BY <1>2, <2>2 DEF PopNext, Raise
  <2> QED
    BY <2>1, <2>2
<1>3. CASE Resolve(p)
  <2>1. UNCHANGED <<app, started, stopping>>
    BY <1>3 DEF Resolve
  <2>2. CASE Existing \ (ResolvedUrls \X Slots) = {}
    BY <1>1, <1>3, <2>1, <2>2 DEF Resolve, Reconcile
  <2>3. CASE Existing \ (ResolvedUrls \X Slots) # {}
    BY <1>3, <2>1, <2>3 DEF Resolve, Reconcile
  <2> QED
    BY <2>2, <2>3
<1>4. CASE ResolveFails(p)
  BY <1>4 DEF ResolveFails, Raise, lifeVars
<1>5. CASE Deregistered(p)
  BY <1>2, <1>5 DEF Deregistered
<1>6. CASE Reaped(p)
  BY <1>2, <1>6 DEF Reaped
<1> QED
  BY <1>3, <1>4, <1>5, <1>6 DEF RefreshStep

LEMMA StartupStep ==
  ASSUME TypeOK, Lifecycle, NEW c \in Callers, RefreshStep(c)
  PROVE  /\ t'[c] = Idle
         /\ \/ ResolveFails(c)
            \/ Resolve(c) /\ AddWorkers(c, ResolvedUrls \X Slots) /\ known' = ResolvedUrls
<1>1. t[c].pc = "resolve" /\ Existing = {} /\ c \in Tasks /\ c \notin Loops
  BY WhoRefreshes, ConnectorAssumption DEF Tasks
<1>2. CASE ResolveFails(c)
  BY <1>1, <1>2 DEF ResolveFails, Raise, TypeOK
<1>3. CASE Resolve(c)
  <2>1. AddWorkers(c, ResolvedUrls \X Slots) /\ known' = ResolvedUrls
    <3>1. (ResolvedUrls \X Slots) \ Existing = ResolvedUrls \X Slots /\ Existing \ (ResolvedUrls \X Slots) = {}
      BY <1>1
    <3> QED
      BY <1>3, <3>1 DEF Resolve, Reconcile
  <2>2. t'[c] = Idle
    <3>1. \/ t' = [t EXCEPT ![c] = Idle]
          \/ refreshTask' \in FreeLoops /\ t' = [t EXCEPT ![c] = Idle, ![refreshTask'] = At("new")]
      BY <1>1, <2>1, AddWorkersTask
    <3> QED
      BY <1>1, <3>1 DEF FreeLoops, TypeOK
  <2> QED
    BY <1>3, <2>1, <2>2
<1> QED
  BY <1>1, <1>2, <1>3 DEF RefreshStep, Deregistered, Reaped

LEMMA RefreshLifecycle ==
  ASSUME OneCaller, TypeOK, TypeOK', Lifecycle, NEW p \in Tasks, RefreshStep(p)
  PROVE  Lifecycle'
<1>1. started /\ UNCHANGED <<app, started, stopping>>
  BY WhoRefreshes, RefreshTask
<1>2. CASE p \in Loops
  <2>1. p = refreshTask /\ p \notin stopping /\ \A c \in Callers : t[c].pc = "idle"
    BY <1>2, WhoRefreshes
  <2>2. UNCHANGED refreshTask /\ \A q \in Tasks \ {p} : t'[q] = t[q]
    BY <1>2, RefreshTask, ConnectorAssumption DEF TypeOK
  <2> QED
    BY <1>1, <1>2, <2>1, <2>2, ConnectorAssumption DEF Lifecycle, Tasks
<1>3. CASE p \in Callers
  <2>1. refreshTask = NoTask /\ \A l \in Loops : t[l].pc = "idle"
    BY <1>3, WhoRefreshes
  <2>2. \A c \in Callers : t'[c] = Idle
    BY <1>3, StartupStep DEF OneCaller
  <2>3. \A l \in Loops : t'[l].pc # "idle" => l = refreshTask'
    BY <1>3, <2>1, RefreshTask, ConnectorAssumption DEF TypeOK, Tasks
  <2>4. stopping' = {}
    BY <1>1, <2>1 DEF Lifecycle, TypeOK
  <2> QED
    BY <1>1, <2>2, <2>3, <2>4 DEF Lifecycle, Idle, At
<1> QED
  BY <1>2, <1>3 DEF Tasks

LEMMA CallerLifecycle ==
  ASSUME OneCaller, TypeOK, Lifecycle, NEW c \in Callers, CallerStep(c)
  PROVE  Lifecycle'
<1>1. /\ t[c].pc = "idle" /\ t \in [Tasks -> TaskState] /\ c \in Tasks /\ c \notin Loops
      /\ started \in BOOLEAN /\ refreshTask \in Loops \cup {NoTask} /\ stopping \in SUBSET Loops
      /\ \A d \in Callers : d = c
  BY ConnectorAssumption, TypeParts
     DEF CallerStep, Startup, Attach, Shutdown, Detach, Calls, TaskTypes, LifeTypes, Tasks, OneCaller
<1>2. UNCHANGED <<table, known>> /\ UNCHANGED Existing /\ WorkersOf(Existing)' = WorkersOf(Existing)
  BY TablesSame DEF CallerStep, Startup, Attach, Shutdown, Detach, BeginStartup, BeginShutdown
<1>3. stopping = {}
  BY <1>1 DEF Lifecycle
<1>s. ASSUME BeginStartup(c), ~ started PROVE Lifecycle'
  <2>1. t'[c] = At("resolve") /\ \A l \in Loops : t'[l] = t[l]
    BY <1>1, <1>s DEF BeginStartup, Tasks
  <2>2. refreshTask = NoTask /\ Existing = {}
    BY <1>1, <1>s DEF Lifecycle
  <2> QED
    BY <1>1, <1>2, <1>3, <1>s, <2>1, <2>2 DEF BeginStartup, Lifecycle, At
<1>d. ASSUME BeginShutdown(c), started PROVE Lifecycle'
  <2>1. \A l \in Loops : t'[l] = t[l]
    BY <1>1, <1>d DEF BeginShutdown, DeregisterAll, Tasks
  <2>2. CASE refreshTask = NoTask
    <3>1. t'[c].pc \in {"drain", "deregall"}
      BY <1>1, <1>d, <2>2 DEF BeginShutdown, DeregisterAll, At
    <3> QED
      BY <1>1, <1>2, <1>3, <1>d, <2>1, <2>2, <3>1 DEF BeginShutdown, Lifecycle
  <2>3. CASE refreshTask # NoTask
    <3>1. t'[c].pc = "stoploop" /\ t'[c].waits = {refreshTask}
      BY <1>1, <1>d, <2>3 DEF BeginShutdown, At
    <3>2. /\ stopping' = IF t[refreshTask].pc = "idle" THEN {} ELSE {refreshTask}
          /\ UNCHANGED <<started, refreshTask>> /\ refreshTask \in Loops
      BY <1>1, <1>3, <1>d, <2>3 DEF BeginShutdown
    <3> QED
      BY <1>1, <1>2, <1>d, <2>1, <2>3, <3>1, <3>2 DEF Lifecycle
  <2> QED
    BY <2>2, <2>3
<1>n. ASSUME UNCHANGED <<started, refreshTask, stopping, t>> PROVE Lifecycle'
  BY <1>2, <1>n DEF Lifecycle
<1> QED
  BY <1>s, <1>d, <1>n DEF CallerStep, Startup, Attach, Shutdown, Detach

LEMMA FinishLifecycle ==
  ASSUME OneCaller, TypeOK, Lifecycle, NEW c \in Callers, t[c].pc \in {"drain", "join", "abort"},
         Finish(c), UNCHANGED <<refreshTask, stopping>>
  PROVE  Lifecycle'
<1>1. /\ t \in [Tasks -> TaskState] /\ c \in Tasks /\ c \notin Loops /\ refreshTask = NoTask
      /\ \A d \in Callers : d = c
  BY TypeParts, ConnectorAssumption DEF TaskTypes, Tasks, OneCaller, Lifecycle
<1>2. t'[c].pc = "idle" /\ \A l \in Loops : t'[l] = t[l]
  BY <1>1 DEF Finish, Idle, At, Tasks
<1>3. Existing' = {} /\ known' = {} /\ started' = FALSE
  BY DEF Finish, Existing
<1> QED
  BY <1>1, <1>2, <1>3, ConnectorAssumption DEF Lifecycle

LEMMA DeregisterAllPlace ==
  ASSUME NEW c \in Callers, DeregisterAll(c)
  PROVE  \E s : t' = [t EXCEPT ![c] = s] /\ s.pc \in {"drain", "deregall"}
<1>1. CASE Existing = {}
  <2>1. At("drain").pc = "drain" /\ t' = [t EXCEPT ![c] = At("drain")]
    BY <1>1 DEF DeregisterAll, At
  <2> QED
    BY <2>1
<1>2. CASE Existing # {}
  <2> DEFINE s == [At("deregall") EXCEPT !.urls = RoutersOf(Existing)]
  <2>1. s.pc = "deregall"
    BY DEF At
  <2>2. t' = [t EXCEPT ![c] = s]
    BY <1>2 DEF DeregisterAll
  <2> QED
    BY <2>1, <2>2
<1> QED
  BY <1>1, <1>2

LEMMA ShutdownLifecycle ==
  ASSUME OneCaller, TypeOK, Lifecycle, NEW c \in Callers, ShutdownStep(c)
  PROVE  Lifecycle'
<1>1. /\ t \in [Tasks -> TaskState] /\ c \in Tasks /\ c \notin Loops /\ UNCHANGED stopping
      /\ started \in BOOLEAN /\ refreshTask \in Loops \cup {NoTask} /\ stopping \in SUBSET Loops
      /\ \A d \in Callers : d = c
  BY TypeParts, ConnectorAssumption
     DEF TaskTypes, LifeTypes, Tasks, OneCaller, ShutdownStep, LoopStopped, DeregisteredOne, Drained,
         DrainTimesOut, EndDrain, Joined, lifeVars
<1>2. t[c].pc # "idle" /\ started
  BY DEF Lifecycle, ShutdownStep, LoopStopped, DeregisteredOne, Drained, DrainTimesOut, EndDrain, Joined
<1>k. ASSUME UNCHANGED <<started, table, known>>, refreshTask' = NoTask, NEW s,
             t' = [t EXCEPT ![c] = s], s.pc \in {"deregall", "drain", "join", "abort"},
             s.pc \in {"join", "abort"} => s.waits = WorkersOf(Existing),
             \A l \in Loops : t[l].pc = "idle"
      PROVE  Lifecycle'
  <2>1. t'[c] = s /\ \A l \in Loops : t'[l] = t[l]
    BY <1>1, <1>k DEF Tasks
  <2>2. Existing' = Existing /\ WorkersOf(Existing)' = WorkersOf(Existing)
    BY <1>k, TablesSame
  <2>3. stopping = {}
    BY <1>1, <1>k DEF Lifecycle
  <2> QED
    BY <1>1, <1>2, <1>k, <2>1, <2>2, <2>3 DEF Lifecycle
<1>l. t[c].pc # "stoploop" => refreshTask = NoTask /\ \A l \in Loops : t[l].pc = "idle"
  <2>1. t[c].pc \in {"stoploop", "deregall", "drain", "join", "abort"}
    BY DEF ShutdownStep, LoopStopped, DeregisteredOne, Drained, DrainTimesOut, EndDrain, Joined
  <2> QED
    BY <2>1, ConnectorAssumption DEF Lifecycle
<1>e. ASSUME NEW how \in {"join", "abort"}, EndDrain(c, how) PROVE Lifecycle'
  <2>1. CASE Existing = {}
    BY <1>e, <2>1, FinishLifecycle DEF EndDrain
  <2>2. CASE Existing # {}
    <3> DEFINE s == [At(how) EXCEPT !.waits = WorkersOf(Existing)]
    <3>1. s.pc = how /\ s.waits = WorkersOf(Existing)
      BY DEF At
    <3>2. t' = [t EXCEPT ![c] = s]
      BY <1>e, <2>2 DEF EndDrain
    <3> HIDE DEF s
    <3> QED
      BY <1>e, <1>k, <1>l, <2>2, <3>1, <3>2 DEF EndDrain
  <2> QED
    BY <2>1, <2>2
<1>3. CASE LoopStopped(c)
  <2>1. \A l \in Loops : t[l].pc = "idle"
    <3>1. t[c].waits = {refreshTask} /\ refreshTask \in Loops
      BY <1>1, <1>3 DEF LoopStopped, Lifecycle
    <3>2. t[refreshTask].pc = "idle"
      BY <1>3, <3>1 DEF LoopStopped, Done
    <3> QED
      BY <3>2 DEF Lifecycle
  <2>2. \E s : t' = [t EXCEPT ![c] = s] /\ s.pc \in {"drain", "deregall"}
    BY <1>3, DeregisterAllPlace DEF LoopStopped
  <2> QED
    BY <1>3, <1>k, <2>1, <2>2 DEF LoopStopped
<1>4. CASE DeregisteredOne(c)
  <2>1. \E s : t' = [t EXCEPT ![c] = s] /\ s.pc \in {"drain", "deregall"}
    <3>1. PICK url \in t[c].urls :
            IF t[c].urls = {url} THEN t' = [t EXCEPT ![c] = At("drain")]
                                 ELSE t' = [t EXCEPT ![c].urls = @ \ {url}]
      BY <1>4 DEF DeregisteredOne
    <3>2. CASE t[c].urls = {url}
      <4>1. At("drain").pc = "drain" /\ t' = [t EXCEPT ![c] = At("drain")]
        BY <3>1, <3>2 DEF At
      <4> QED
        BY <4>1
    <3>3. CASE t[c].urls # {url}
      <4> DEFINE s == [t[c] EXCEPT !.urls = @ \ {url}]
      <4>1. s.pc = "deregall"
        BY <1>1, <1>4 DEF DeregisteredOne, TaskState
      <4>2. t' = [t EXCEPT ![c] = s]
        BY <3>1, <3>3
      <4> QED
        BY <4>1, <4>2
    <3> QED
      BY <3>2, <3>3
  <2> QED
    BY <1>4, <1>k, <1>l, <2>1 DEF DeregisteredOne, lifeVars
<1>5. CASE Joined(c)
  BY <1>5, FinishLifecycle DEF Joined
<1> QED
  BY <1>e, <1>3, <1>4, <1>5 DEF ShutdownStep, Drained, DrainTimesOut

LEMMA LoopLifecycle ==
  ASSUME TypeOK, Lifecycle, NEW l \in Loops, LoopStep(l)
  PROVE  Lifecycle'
<1>1. /\ t \in [Tasks -> TaskState] /\ l \in Tasks /\ l \notin Callers
      /\ UNCHANGED <<started, refreshTask, known, table>>
      /\ UNCHANGED Existing /\ WorkersOf(Existing)' = WorkersOf(Existing)
  BY TypeParts, ConnectorAssumption, TablesSame
     DEF TaskTypes, Tasks, LoopStep, LoopBegins, LoopWakes, LoopCancelled, lifeVars
<1>2. l = refreshTask /\ t[l].pc # "idle"
  BY DEF LoopStep, LoopBegins, LoopWakes, LoopCancelled, Lifecycle
<1>3. \A q \in Tasks \ {l} : t'[q] = t[q]
  BY <1>1 DEF LoopStep, LoopBegins, LoopWakes, LoopCancelled
<1>4. CASE LoopBegins(l) \/ LoopWakes(l)
  <2>1. l \notin stopping /\ UNCHANGED stopping
    BY <1>4 DEF LoopBegins, LoopWakes, lifeVars
  <2> QED
    <3>1. \A c \in Callers : t[c].pc # "stoploop" /\ t'[c] = t[c]
      BY <1>1, <1>2, <1>3, <2>1, ConnectorAssumption DEF Lifecycle, Tasks
    <3>2. \A k \in Loops \ {l} : t'[k] = t[k]
      BY <1>3 DEF Tasks
    <3>3. stopping \in SUBSET Loops
      BY DEF TypeOK
    <3> QED
      BY <1>1, <1>2, <2>1, <3>1, <3>2, <3>3 DEF Lifecycle
<1>5. CASE LoopCancelled(l)
  <2>1. t'[l].pc = "idle" /\ stopping' = stopping \ {l}
    BY <1>1, <1>5 DEF LoopCancelled, Idle, At
  <2>2. stopping' = {}
    BY <1>2, <2>1 DEF TypeOK, Lifecycle
  <2>3. \A c \in Callers : t'[c] = t[c]
    BY <1>1, <1>3 DEF Tasks
  <2>4. \A k \in Loops : t'[k].pc = "idle"
    BY <1>2, <1>3, <2>1 DEF Tasks, Lifecycle
  <2> QED
    BY <1>1, <1>2, <2>2, <2>3, <2>4 DEF Lifecycle
<1> QED
  BY <1>4, <1>5 DEF LoopStep

(* The workers, the requests and the names are no part of it. *)
LEMMA Elsewhere ==
  ASSUME \/ \E w \in Workers : WorkerRuns(w) \/ NetworkStep(w)
         \/ \E r \in Requests : RequestFinishes(r) \/ \E w \in Workers : RequestStarts(r, w)
         \/ DnsChanges \/ UNCHANGED vars
  PROVE  UNCHANGED <<lifeVars, table, t>>
BY DEF WorkerRuns, NetworkStep, AroundWorker, RequestFinishes, RequestStarts, DnsChanges, vars

LEMMA LifecycleStep ==
  ASSUME OneCaller, TypeOK, TypeOK', Lifecycle, [Next]_vars
  PROVE  Lifecycle'
<1>1. ASSUME UNCHANGED <<lifeVars, table, t>> PROVE Lifecycle'
  BY <1>1 DEF Lifecycle, lifeVars, Existing, WorkersOf
<1> QED
  BY <1>1, Elsewhere, CallerLifecycle, ShutdownLifecycle, RefreshLifecycle, LoopLifecycle DEF Next

-----------------------------------------------------------------------------
(* The table has every live worker, but for the one that the refresh loop  *)
(* has popped and waits for.  While the loop works off its list the keys   *)
(* are as it has read them, less those it has popped.                      *)

InTable(w) == keyOf[w] \in Keys /\ table[keyOf[w]] = w
Reaps(l, w) == t[l].pc = "reap" /\ t[l].waits = {w}

Table ==
  /\ \A j, k \in Existing : table[j] = table[k] => j = k
  /\ \A w \in Workers : Alive(w) =>
       keyOf[w] \in Keys /\ (InTable(w) \/ \E l \in Loops : Reaps(l, w))
  /\ \A l \in Loops : t[l].pc = "reap" =>
       \E w \in Workers :
         Reaps(l, w) /\ w \notin WorkersOf(Existing) /\ (Alive(w) => keyOf[w] \notin Existing)
  /\ \A l \in Loops : t[l].pc \in {"dereg", "reap"} =>
       t[l].gone \subseteq Existing /\ t[l].add \cap Existing = {}

LEMMA InTableExists ==
  ASSUME NEW w \in Workers, InTable(w)
  PROVE  keyOf[w] \in Existing
BY ConnectorAssumption DEF InTable, Existing

LEMMA NoneAlive ==
  ASSUME TypeOK, Lifecycle, Table, refreshTask = NoTask, \A k \in Existing : ~ Alive(table[k])
  PROVE  \A w \in Workers : ~ Alive(w)
<1> SUFFICES ASSUME NEW w \in Workers, Alive(w) PROVE FALSE
  OBVIOUS
<1>1. CASE InTable(w)
  BY <1>1, InTableExists DEF InTable
<1>2. ASSUME NEW l \in Loops, Reaps(l, w) PROVE FALSE
  BY <1>2, ConnectorAssumption DEF Lifecycle, Reaps
<1> QED
  BY <1>1, <1>2 DEF Table

(* Steps that leave the table and the loops as they are. *)
LEMMA TableKept ==
  ASSUME TypeOK, Table, UNCHANGED <<table, keyOf, worker>>,
         \A l \in Loops : t'[l] = t[l] \/ (t'[l].pc \notin {"dereg", "reap"} /\ \A w \in Workers : Reaps(l, w) => ~ Alive(w))
  PROVE  Table'
<1>1. UNCHANGED Existing /\ WorkersOf(Existing)' = WorkersOf(Existing)
  BY TablesSame
<1>2. \A w \in Workers : Alive(w)' = Alive(w) /\ InTable(w)' = InTable(w)
  BY DEF Alive, InTable
<1>3. \A w \in Workers, l \in Loops : Alive(w) /\ Reaps(l, w) => Reaps(l, w)'
  BY DEF Reaps
<1>4. \A l \in Loops : t'[l].pc = "reap" => t'[l] = t[l] /\ \A w \in Workers : Reaps(l, w)' = Reaps(l, w)
  BY DEF Reaps
<1> QED
  BY <1>1, <1>2, <1>3, <1>4 DEF Table

LEMMA AddWorkersTable ==
  ASSUME TypeOK, Table, NEW p, NEW K \in SUBSET Keys, AddWorkers(p, K), K \cap Existing = {},
         \A w \in Workers : Alive(w) => InTable(w),
         \A l \in Loops : t'[l].pc \notin {"dereg", "reap"}
  PROVE  /\ Table' /\ Existing' = Existing \cup K
         /\ \A k \in K : /\ table'[k] \in Workers /\ keyOf'[table'[k]] = k
                         /\ worker'[table'[k]] = "new"
                         /\ ~ cancel'[table'[k]] /\ why'[table'[k]] = "none"
         /\ \A k \in Existing : /\ table'[k] = table[k] /\ keyOf'[table[k]] = keyOf[table[k]]
                                /\ worker'[table[k]] = worker[table[k]]
                                /\ cancel'[table[k]] = cancel[table[k]] /\ why'[table[k]] = why[table[k]]
<1>1. PICK new \in [K -> FreeWorkers] :
           /\ \A j, k \in K : new[j] = new[k] => j = k
           /\ UNCHANGED <<cancel, why>>
           /\ \A k \in K : worker'[new[k]] = "new" /\ ~ cancel[new[k]] /\ why[new[k]] = "none"
           /\ \A w \in Workers : (\A k \in K : new[k] # w) =>
                worker'[w] = worker[w] /\ keyOf'[w] = keyOf[w]
           /\ table' = [k \in Keys |-> IF k \in K THEN new[k] ELSE table[k]]
           /\ \A k \in K : keyOf'[new[k]] = k
  BY NewWorkers
<1>2. \A k \in K : new[k] \in Workers /\ new[k] # NoTask /\ ~ Alive(new[k])
  BY ConnectorAssumption DEF FreeWorkers, Alive
<1>3. \A k \in K, j \in Keys : new[k] # table[j]
  BY DEF FreeWorkers, Range, TypeOK
<1>4. \A k \in Keys : table'[k] = IF k \in K THEN new[k] ELSE table[k]
  BY <1>1
<1>5. Existing' = Existing \cup K
  BY <1>2, <1>4 DEF Existing
<1>6. \A k \in Existing : /\ table'[k] = table[k] /\ table[k] \in Workers
                          /\ keyOf'[table[k]] = keyOf[table[k]]
                          /\ worker'[table[k]] = worker[table[k]]
                          /\ cancel'[table[k]] = cancel[table[k]] /\ why'[table[k]] = why[table[k]]
  BY <1>1, <1>3, <1>4 DEF Existing, TypeOK
<1>7. \A k \in K : /\ table'[k] = new[k] /\ keyOf'[table'[k]] = k /\ worker'[table'[k]] = "new"
                   /\ ~ cancel'[table'[k]] /\ why'[table'[k]] = "none"
  BY <1>1, <1>4
<1>8. \A j, k \in Existing' : table'[j] = table'[k] => j = k
  BY <1>1, <1>3, <1>5, <1>6, <1>7 DEF Table, Existing
<1>9. ASSUME NEW w \in Workers, Alive(w)' PROVE InTable(w)'
  <2>1. CASE \E k \in K : new[k] = w
    BY <1>1, <1>4, <2>1 DEF InTable
  <2>2. CASE \A k \in K : new[k] # w
    <3>1. Alive(w) /\ keyOf'[w] = keyOf[w]
      BY <1>1, <1>9, <2>2 DEF Alive
    <3>2. InTable(w) /\ keyOf[w] \in Existing
      BY <3>1, InTableExists
    <3> QED
      BY <1>6, <3>1, <3>2 DEF InTable
  <2> QED
    BY <2>1, <2>2
<1>10. Table'
  BY <1>8, <1>9 DEF Table, InTable, Reaps
<1> QED
  BY <1>2, <1>5, <1>6, <1>7, <1>10

(* The loop pops a key: its worker goes from the table to the gather. *)
LEMMA PopTable ==
  ASSUME TypeOK, Lifecycle, Table, NEW l \in Loops, l = refreshTask, NEW k \in Existing, NEW s,
         table' = [table EXCEPT ![k] = NoTask], UNCHANGED <<keyOf, worker>>,
         t' = [t EXCEPT ![l] = s], s.pc = "reap", s.waits = {table[k]},
         s.gone \subseteq Existing \ {k}, s.add \cap Existing = {},
         \A w \in Workers : Alive(w) => InTable(w)
  PROVE  Table' /\ Existing' = Existing \ {k}
<1>1. /\ k \in Keys /\ table[k] \in Workers /\ l \in Tasks /\ t'[l] = s
      /\ \A j \in Keys : table'[j] = IF j = k THEN NoTask ELSE table[j]
  BY DEF TypeOK, Existing, Tasks
<1>2. Existing' = Existing \ {k}
  BY <1>1 DEF Existing
<1>3. \A m \in Loops : t'[m].pc # "idle" => m = l
  BY <1>1 DEF Lifecycle, TypeOK, Tasks
<1>4. \A i, j \in Existing' : table'[i] = table'[j] => i = j
  BY <1>1, <1>2 DEF Table, Existing
<1>5. ASSUME NEW w \in Workers, Alive(w)'
      PROVE  keyOf'[w] \in Keys /\ (InTable(w)' \/ \E m \in Loops : Reaps(m, w)')
  <2>1. Alive(w) /\ InTable(w) /\ keyOf[w] \in Keys
    BY <1>5 DEF Alive, InTable
  <2>2. CASE keyOf[w] = k
    <3>1. Reaps(l, w)'
      BY <1>1, <2>1, <2>2 DEF Reaps, InTable
    <3> QED
      BY <2>1, <3>1
  <2>3. CASE keyOf[w] # k
    BY <1>1, <2>1, <2>3 DEF InTable
  <2> QED
    BY <2>2, <2>3
<1>6. ASSUME NEW m \in Loops, t'[m].pc = "reap"
      PROVE  \E w \in Workers : Reaps(m, w)' /\ w \notin WorkersOf(Existing)'
                                /\ (Alive(w)' => keyOf'[w] \notin Existing')
  <2>v. PICK v \in Workers : v = table[k]
    BY <1>1
  <2>1. m = l /\ Reaps(l, v)'
    BY <1>1, <1>3, <1>6, <2>v DEF Reaps
  <2>2. v \notin WorkersOf(Existing)'
    BY <1>1, <1>2, <2>v DEF WorkersOf, Table
  <2>3. ASSUME Alive(v)' PROVE keyOf'[v] \notin Existing'
    <3>1. Alive(v) /\ keyOf'[v] = keyOf[v]
      BY <2>3 DEF Alive
    <3>2. InTable(v) /\ keyOf[v] \in Existing
      BY <3>1, InTableExists
    <3>3. keyOf[v] = k
      BY <2>v, <3>2 DEF InTable, Table
    <3> QED
      BY <1>2, <3>1, <3>3
  <2> QED
    BY <2>1, <2>2, <2>3
<1>7. ASSUME NEW m \in Loops, t'[m].pc \in {"dereg", "reap"}
      PROVE  t'[m].gone \subseteq Existing' /\ t'[m].add \cap Existing' = {}
  BY <1>1, <1>2, <1>3, <1>7
<1> QED
  BY <1>2, <1>4, <1>5, <1>6, <1>7 DEF Table

LEMMA NobodyReaps ==
  ASSUME TypeOK, Lifecycle, Table, NEW p \in Tasks, RefreshStep(p)
  PROVE  \A w \in Workers : Alive(w) => InTable(w)
<1> SUFFICES ASSUME NEW w \in Workers, Alive(w), NEW l \in Loops, Reaps(l, w) PROVE FALSE
  BY DEF Table
<1>1. p = l /\ t[p].pc = "reap"
  <2>1. CASE p \in Callers
    BY <2>1, WhoRefreshes DEF Reaps
  <2>2. CASE p \in Loops
    BY <2>2, WhoRefreshes DEF Reaps, Lifecycle
  <2> QED
    BY <2>1, <2>2 DEF Tasks, Reaps
<1>2. Done({w})
  BY <1>1 DEF RefreshStep, Resolve, ResolveFails, Deregistered, Reaped, Reaps
<1> QED
  BY <1>2, ConnectorAssumption DEF Done, Alive

(* The last part of a refresh of the loop. *)
LEMMA PopNextTable ==
  ASSUME TypeOK, TypeOK', Lifecycle, Lifecycle', Table, NEW l \in Loops, RefreshStep(l),
         NEW gone \in SUBSET Existing, NEW add \in SUBSET Keys, add \cap Existing = {},
         PopNext(l, gone, add) \/ (gone = {} /\ AddWorkers(l, add))
  PROVE  Table'
<1>1. l \in Tasks /\ l = refreshTask /\ \A w \in Workers : Alive(w) => InTable(w)
  BY WhoRefreshes, NobodyReaps DEF Tasks
<1>2. CASE gone = {}
  <2>1. AddWorkers(l, add)
    BY <1>2 DEF PopNext
  <2>2. t' = [t EXCEPT ![l] = LoopTest] /\ refreshTask' = refreshTask
    BY <1>1, <2>1, AddWorkersTask, ConnectorAssumption
  <2>3. t'[l].pc \in {"idle", "sleep"}
    BY <1>1, <2>2 DEF TypeOK, LoopTest, Idle, At
  <2>4. \A m \in Loops : t'[m].pc \notin {"dereg", "reap"}
    BY <1>1, <2>2, <2>3 DEF Lifecycle
  <2> QED
    BY <1>1, <2>1, <2>4, AddWorkersTable
<1>3. CASE gone # {}
  <2>1. PICK k \in gone :
          /\ IF table[k] = NoTask
               THEN Raise(l) /\ UNCHANGED <<table, cancel>>
               ELSE /\ table' = [table EXCEPT ![k] = NoTask]
                    /\ W!Cancel({table[k]})
                    /\ t' = [t EXCEPT ![l] = [At("reap") EXCEPT !.gone = gone \ {k}, !.add = add,
                                                              !.waits = {table[k]}]]
          /\ UNCHANGED <<refreshTask, keyOf, worker, attempts, why, waited, shutdown>>
    BY <1>3 DEF PopNext
  <2>2. k \in Existing /\ table[k] # NoTask
    BY <2>1 DEF Existing
  <2> DEFINE s == [At("reap") EXCEPT !.gone = gone \ {k}, !.add = add, !.waits = {table[k]}]
  <2>3. s.pc = "reap" /\ s.gone = gone \ {k} /\ s.add = add /\ s.waits = {table[k]}
    BY DEF At
  <2>4. t' = [t EXCEPT ![l] = s] /\ table' = [table EXCEPT ![k] = NoTask] /\ UNCHANGED <<keyOf, worker>>
    BY <2>1, <2>2
  <2> HIDE DEF s
  <2> QED
    BY <1>1, <2>2, <2>3, <2>4, PopTable
<1> QED
  BY <1>2, <1>3

LEMMA RefreshTable ==
  ASSUME OneCaller, TypeOK, TypeOK', Lifecycle, Lifecycle', Table, NEW p \in Tasks, RefreshStep(p)
  PROVE  Table'
<1>u. ASSUME UNCHANGED <<table, keyOf, taskVars>>, NEW s, t' = [t EXCEPT ![p] = s], p \in Loops,
             t[p].pc # "reap", s.pc \in {"dereg", "reap"} => s.pc = "dereg" /\ s.gone \subseteq Existing /\ s.add \cap Existing = {}
      PROVE  Table'
  <2>1. UNCHANGED Existing /\ WorkersOf(Existing)' = WorkersOf(Existing)
    BY <1>u, TablesSame
  <2>2. t'[p] = s /\ \A l \in Loops \ {p} : t'[l] = t[l]
    BY <1>u DEF TypeOK, Tasks
  <2>3. \A w \in Workers : Alive(w)' = Alive(w) /\ InTable(w)' = InTable(w) /\ keyOf'[w] = keyOf[w]
    BY <1>u DEF Alive, InTable, taskVars
  <2>4. \A l \in Loops, w \in Workers : Reaps(l, w)' = Reaps(l, w)
    BY <1>u, <2>2 DEF Reaps
  <2>5. \A l \in Loops : t'[l].pc = "reap" => t[l].pc = "reap"
    BY <1>u, <2>2
  <2>6. \A l \in Loops : t'[l].pc \in {"dereg", "reap"} =>
          t'[l].gone \subseteq Existing /\ t'[l].add \cap Existing = {}
    BY <1>u, <2>2 DEF Table
  <2>7. \A j, k \in Existing' : table'[j] = table'[k] => j = k
    BY <1>u, <2>1 DEF Table
  <2>8. \A w \in Workers : Alive(w)' => keyOf'[w] \in Keys /\ (InTable(w)' \/ \E l \in Loops : Reaps(l, w)')
    BY <2>3, <2>4 DEF Table
  <2>9. \A l \in Loops : t'[l].pc = "reap" =>
          \E w \in Workers : Reaps(l, w)' /\ w \notin WorkersOf(Existing)'
                             /\ (Alive(w)' => keyOf'[w] \notin Existing')
    BY <2>1, <2>3, <2>4, <2>5 DEF Table
  <2> QED
    BY <2>1, <2>6, <2>7, <2>8, <2>9 DEF Table
<1>1. CASE p \in Callers
  <2>1. /\ Existing = {} /\ \A l \in Loops : t[l].pc = "idle"
        /\ \A w \in Workers : Alive(w) => InTable(w)
    BY <1>1, WhoRefreshes, NobodyReaps
  <2>2. CASE ResolveFails(p)
    <3>1. t' = [t EXCEPT ![p] = Idle] /\ UNCHANGED <<table, keyOf, worker>>
      BY <1>1, <2>2, ConnectorAssumption DEF ResolveFails, Raise, taskVars
    <3> QED
      BY <1>1, <3>1, TableKept, ConnectorAssumption DEF TypeOK, Tasks
  <2>3. CASE Resolve(p) /\ AddWorkers(p, ResolvedUrls \X Slots)
    <3>1. ResolvedUrls \X Slots \in SUBSET Keys
      BY DEF ResolvedUrls, Range, TypeOK, Keys
    <3>2. \A l \in Loops : t'[l].pc \in {"idle", "new"}
      BY <1>1, <2>1, <2>3, AddWorkersTask, ConnectorAssumption DEF TypeOK, Tasks, Idle, At
    <3> QED
      BY <2>1, <2>3, <3>1, <3>2, AddWorkersTable
  <2> QED
    BY <1>1, <2>2, <2>3, StartupStep
<1>2. CASE p \in Loops
  <2>1. CASE Resolve(p)
    <3> DEFINE gone == Existing \ (ResolvedUrls \X Slots)
               add == (ResolvedUrls \X Slots) \ Existing
    <3>1. gone \in SUBSET Existing /\ add \in SUBSET Keys /\ add \cap Existing = {}
      BY DEF Existing, Keys, ResolvedUrls, Range, TypeOK
    <3>2. CASE gone = {}
      <4>1. AddWorkers(p, add)
        BY <2>1, <3>2 DEF Resolve, Reconcile
      <4> HIDE DEF add, gone
      <4> QED
        BY <1>2, <3>1, <3>2, <4>1, PopNextTable
    <3>3. CASE gone # {}
      <4> DEFINE s == [At("dereg") EXCEPT !.urls = RoutersOf(gone), !.gone = gone, !.add = add]
      <4>1. s.pc = "dereg" /\ s.gone = gone /\ s.add = add
        BY DEF At
      <4>2. t' = [t EXCEPT ![p] = s] /\ UNCHANGED <<table, keyOf, taskVars>> /\ t[p].pc # "reap"
        BY <2>1, <3>3 DEF Resolve, Reconcile
      <4> HIDE DEF s, gone, add
      <4> QED
        BY <1>2, <1>u, <3>1, <4>1, <4>2
    <3> QED
      BY <3>2, <3>3
  <2>2. CASE ResolveFails(p)
    <3>1. LoopTest.pc \in {"idle", "sleep"}
      BY DEF LoopTest, Idle, At
    <3> QED
      BY <1>2, <1>u, <2>2, <3>1 DEF ResolveFails, Raise
  <2>3. CASE Deregistered(p)
    <3>1. t[p].pc = "dereg" /\ t[p].gone \in SUBSET Existing /\ t[p].add \cap Existing = {}
          /\ t[p].add \in SUBSET Keys
      BY <1>2, <2>3 DEF Deregistered, Table, TypeOK
    <3>2. PICK url \in t[p].urls :
            IF t[p].urls = {url}
              THEN PopNext(p, t[p].gone, t[p].add)
              ELSE /\ t' = [t EXCEPT ![p].urls = @ \ {url}]
                   /\ UNCHANGED <<refreshTask, table, keyOf, taskVars, shutdown>>
      BY <2>3 DEF Deregistered
    <3>3. CASE t[p].urls = {url}
      BY <1>2, <3>1, <3>2, <3>3, PopNextTable
    <3>4. CASE t[p].urls # {url}
      <4> DEFINE s == [t[p] EXCEPT !.urls = @ \ {url}]
      <4>1. s.pc = "dereg" /\ s.gone = t[p].gone /\ s.add = t[p].add
        BY <3>1 DEF TypeOK
      <4>2. t' = [t EXCEPT ![p] = s] /\ UNCHANGED <<table, keyOf, taskVars>>
        BY <3>2, <3>4
      <4> HIDE DEF s
      <4> QED
        BY <1>2, <1>u, <3>1, <4>1, <4>2
    <3> QED
      BY <3>3, <3>4
  <2>4. CASE Reaped(p)
    <3>1. t[p].gone \in SUBSET Existing /\ t[p].add \cap Existing = {} /\ t[p].add \in SUBSET Keys
      BY <1>2, <2>4 DEF Reaped, Table, TypeOK
    <3> QED
      BY <1>2, <2>4, <3>1, PopNextTable DEF Reaped
  <2> QED
    BY <2>1, <2>2, <2>3, <2>4 DEF RefreshStep
<1> QED
  BY <1>1, <1>2 DEF Tasks

LEMMA CallerTable ==
  ASSUME TypeOK, Table, NEW c \in Callers, CallerStep(c)
  PROVE  Table'
<1>1. UNCHANGED <<table, keyOf, worker>>
  BY DEF CallerStep, Startup, Attach, Shutdown, Detach, BeginStartup, BeginShutdown, W!Cancel, taskVars
<1>2. \A l \in Loops : t'[l] = t[l]
  <2>1. UNCHANGED t \/ \E s : t' = [t EXCEPT ![c] = s]
    BY DEF CallerStep, Startup, Attach, Shutdown, Detach, BeginStartup, BeginShutdown, DeregisterAll
  <2> QED
    BY <2>1, ConnectorAssumption DEF TypeOK, Tasks
<1> QED
  BY <1>1, <1>2, TableKept

(* When shutdown is over no worker is left. *)
LEMMA FinishFindsNone ==
  ASSUME TypeOK, Lifecycle, Table, NEW c \in Callers,
         (t[c].pc = "drain" /\ Existing = {}) \/ Joined(c)
  PROVE  \A w \in Workers : ~ Alive(w)
<1>1. refreshTask = NoTask
  BY DEF Lifecycle, Joined
<1>2. CASE Existing = {}
  BY <1>1, <1>2, NoneAlive
<1>3. CASE Joined(c)
  <2>1. Done(WorkersOf(Existing))
    BY <1>3 DEF Joined, Lifecycle
  <2>2. \A k \in Existing : ~ Alive(table[k])
    BY <2>1, ConnectorAssumption DEF Done, Alive, WorkersOf, Existing, TypeOK
  <2> QED
    BY <1>1, <2>2, NoneAlive
<1> QED
  BY <1>2, <1>3

LEMMA FinishTable ==
  ASSUME TypeOK, Lifecycle, NEW c \in Callers, Finish(c), UNCHANGED worker,
         \A w \in Workers : ~ Alive(w), refreshTask = NoTask
  PROVE  Table'
<1>1. \A w \in Workers : ~ Alive(w)'
  BY DEF Alive
<1>2. \A l \in Loops : t'[l].pc = "idle"
  BY ConnectorAssumption DEF Finish, Lifecycle, TypeOK, Tasks
<1>3. Existing' = {}
  BY DEF Existing, Finish
<1> QED
  BY <1>1, <1>2, <1>3 DEF Table

LEMMA ShutdownTable ==
  ASSUME TypeOK, Lifecycle, Table, NEW c \in Callers, ShutdownStep(c)
  PROVE  Table'
<1>1. UNCHANGED <<keyOf, worker>>
  BY DEF ShutdownStep, LoopStopped, DeregisteredOne, Drained, DrainTimesOut, EndDrain, Joined, W!Cancel,
         taskVars
<1>2. \A l \in Loops : t'[l] = t[l]
  <2>1. \E s : t' = [t EXCEPT ![c] = s]
    BY DEF ShutdownStep, LoopStopped, DeregisterAll, DeregisteredOne, Drained, DrainTimesOut, EndDrain,
           Joined, Finish
  <2> QED
    BY <2>1, ConnectorAssumption DEF TypeOK, Tasks
<1>3. CASE UNCHANGED table
  BY <1>1, <1>2, <1>3, TableKept
<1>4. CASE Finish(c) /\ ((t[c].pc = "drain" /\ Existing = {}) \/ Joined(c))
  <2>1. refreshTask = NoTask
    BY <1>4 DEF Lifecycle, Joined
  <2> QED
    BY <1>1, <1>4, <2>1, FinishFindsNone, FinishTable
<1> QED
  BY <1>3, <1>4
     DEF ShutdownStep, LoopStopped, DeregisteredOne, Drained, DrainTimesOut, EndDrain, Joined, lifeVars

LEMMA LoopTable ==
  ASSUME TypeOK, Table, NEW l \in Loops, LoopStep(l)
  PROVE  Table'
<1>1. UNCHANGED <<table, keyOf, worker>> /\ l \in Tasks /\ \A m \in Loops \ {l} : t'[m] = t[m]
  BY DEF LoopStep, LoopBegins, LoopWakes, LoopCancelled, taskVars, Tasks, TypeOK
<1>2. t'[l].pc \notin {"dereg", "reap"}
  BY <1>1 DEF LoopStep, LoopBegins, LoopWakes, LoopCancelled, LoopTest, Idle, At, TypeOK
<1>3. \A w \in Workers : Reaps(l, w) => ~ Alive(w)
  BY ConnectorAssumption DEF LoopStep, LoopBegins, LoopWakes, LoopCancelled, Reaps, Done, Alive
<1> QED
  BY <1>1, <1>2, <1>3, TableKept

LEMMA WorkerTable ==
  ASSUME TypeOK, Table, NEW w \in Workers, WorkerRuns(w) \/ NetworkStep(w)
  PROVE  Table'
<1>1. /\ UNCHANGED <<table, t>>
      /\ UNCHANGED Existing /\ WorkersOf(Existing)' = WorkersOf(Existing)
  BY TablesSame DEF WorkerRuns, NetworkStep, AroundWorker
<1>2. Alive(w) /\ \A v \in Workers \ {w} : worker'[v] = worker[v] /\ keyOf'[v] = keyOf[v]
  <2>1. AroundWorker(w) /\ W!WorkerTypeOK /\ (W!WorkerRuns(w) \/ W!NetworkStep(w))
    BY TypeParts DEF WorkerRuns, NetworkStep
  <2>2. \A v \in Workers \ {w} : keyOf'[v] = keyOf[v]
    BY <2>1 DEF AroundWorker, TypeOK
  <2> QED
    BY <2>1, <2>2, WorkerStep
<1>3. worker'[w] \notin W!Ended => keyOf'[w] = keyOf[w]
  BY DEF WorkerRuns, NetworkStep, AroundWorker
<1>4. \A v \in Workers : Alive(v)' => /\ Alive(v) /\ keyOf'[v] = keyOf[v]
                                      /\ InTable(v)' = InTable(v)
  BY <1>1, <1>2, <1>3 DEF Alive, InTable
<1>5. \A l \in Loops, v \in Workers : Reaps(l, v)' = Reaps(l, v)
  BY <1>1 DEF Reaps
<1> QED
  BY <1>1, <1>4, <1>5 DEF Table

LEMMA TableStep ==
  ASSUME OneCaller, TypeOK, TypeOK', Lifecycle, Lifecycle', Table, [Next]_vars
  PROVE  Table'
<1>1. ASSUME UNCHANGED <<table, t, keyOf, worker>> PROVE Table'
  BY <1>1, TableKept
<1>2. ASSUME NEW r \in Requests, RequestFinishes(r) \/ \E w \in Workers : RequestStarts(r, w)
      PROVE  Table'
  BY <1>1, <1>2 DEF RequestFinishes, RequestStarts, taskVars
<1>3. CASE DnsChanges \/ UNCHANGED vars
  BY <1>1, <1>3 DEF DnsChanges, vars, taskVars
<1> QED
  BY <1>2, <1>3, CallerTable, ShutdownTable, RefreshTable, LoopTable, WorkerTable DEF Next

LEMMA LifeInit ==
  ASSUME Init
  PROVE  Lifecycle /\ Table
<1>1. Existing = {} /\ (\A p \in Tasks : t[p].pc = "idle") /\ \A w \in Workers : ~ Alive(w)
  BY DEF Init, Existing, Idle, At, W!WorkerInit, Alive, W!Ended
<1>2. Lifecycle
  BY <1>1, ConnectorAssumption DEF Init, Lifecycle, Tasks
<1>3. Table
  BY <1>1 DEF Table, Tasks
<1> QED
  BY <1>2, <1>3

LEMMA LifeCorrect ==
  ASSUME OneCaller
  PROVE  SafeSpec => [](TypeOK /\ Lifecycle /\ Table)
<1>1. TypeOK /\ TypeOK' /\ Lifecycle /\ Table /\ [Next]_vars => Lifecycle' /\ Table'
  BY LifecycleStep, TableStep
<1> QED
  BY <1>1, TypeInit, TypeStep, LifeInit, PTL DEF SafeSpec

(***************************************************************************)
(* A shutdown that has returned leaves nothing behind, whatever a refresh  *)
(* was doing when it began.                                                *)
(***************************************************************************)
THEOREM NothingLeftHolds ==
  ASSUME OneCaller
  PROVE  SafeSpec => []NothingLeft
<1>1. ASSUME TypeOK, Lifecycle, Table PROVE NothingLeft
  <2> SUFFICES ASSUME NoCall, ~ started
               PROVE  /\ Existing = {} /\ refreshTask = NoTask
                      /\ \A w \in Workers : worker[w] \in W!Ended
                      /\ \A l \in Loops : t[l].pc = "idle"
    BY DEF NothingLeft
  <2>1. Existing = {} /\ refreshTask = NoTask
    BY <1>1 DEF Lifecycle
  <2>2. \A w \in Workers : worker[w] \in W!Ended
    BY <1>1, <2>1, NoneAlive DEF Alive
  <2>3. \A l \in Loops : t[l].pc = "idle"
    BY <1>1, <2>1, ConnectorAssumption DEF Lifecycle
  <2> QED
    BY <2>1, <2>2, <2>3
<1> QED
  BY <1>1, LifeCorrect, PTL

(***************************************************************************)
(* One registration for a slot of a router, however often its address goes *)
(* and comes back, and however long a removed worker takes to end.         *)
(***************************************************************************)
THEOREM OneWorkerPerSlotHolds ==
  ASSUME OneCaller
  PROVE  SafeSpec => []OneWorkerPerSlot
<1>1. ASSUME TypeOK, Lifecycle, Table PROVE OneWorkerPerSlot
  <2> SUFFICES ASSUME NEW v \in Workers, NEW w \in Workers, v # w, Alive(v), Alive(w),
                      keyOf[v] = keyOf[w]
               PROVE  FALSE
    BY DEF OneWorkerPerSlot, Alive
  <2>1. ASSUME NEW x \in Workers, NEW y \in Workers, Alive(y), keyOf[x] = keyOf[y], InTable(x),
               NEW l \in Loops, Reaps(l, y)
        PROVE  FALSE
    <3>1. keyOf[y] \in Existing
      BY <2>1, InTableExists
    <3> QED
      BY <1>1, <2>1, <3>1 DEF Table, Reaps
  <2>2. CASE InTable(v) /\ InTable(w)
    BY <2>2 DEF InTable
  <2>3. ASSUME NEW l \in Loops, NEW m \in Loops, Reaps(l, v), Reaps(m, w) PROVE FALSE
    <3>1. l = m
      BY <1>1, <2>3 DEF Lifecycle, Reaps
    <3> QED
      BY <2>3, <3>1 DEF Reaps
  <2> QED
    BY <1>1, <2>1, <2>2, <2>3 DEF Table
<1> QED
  BY <1>1, LifeCorrect, PTL

LEMMA AppStep ==
  ASSUME OneCaller, TypeOK, Lifecycle, Table, [Next]_vars, app # NoApp, app' = NoApp
  PROVE  \A w \in Workers : worker[w] \in W!Ended
<1>1. ASSUME NEW c \in Callers, CallerStep(c) PROVE \A w \in Workers : ~ Alive(w)
  <2>1. ~ started
    BY <1>1, ConnectorAssumption
       DEF CallerStep, Startup, Attach, Shutdown, Detach, BeginShutdown
  <2>2. Existing = {} /\ refreshTask = NoTask
    BY <2>1 DEF Lifecycle
  <2> QED
    BY <2>2, NoneAlive
<1>2. ASSUME NEW c \in Callers, ShutdownStep(c) PROVE \A w \in Workers : ~ Alive(w)
  <2>1. (t[c].pc = "drain" /\ Existing = {}) \/ Joined(c)
    BY <1>2 DEF ShutdownStep, LoopStopped, DeregisteredOne, Drained, DrainTimesOut, EndDrain, KeepApp, lifeVars
  <2> QED
    BY <2>1, FinishFindsNone
<1>3. ASSUME NEW p \in Tasks, RefreshStep(p) PROVE FALSE
  BY <1>3, RefreshTask
<1>4. ASSUME NEW l \in Loops, LoopStep(l) PROVE FALSE
  BY <1>4 DEF LoopStep, LoopBegins, LoopWakes, LoopCancelled, lifeVars
<1> QED
  BY <1>1, <1>2, <1>3, <1>4, Elsewhere DEF Next, Alive, lifeVars

(***************************************************************************)
(* The app goes when the last worker has ended, and no earlier.            *)
(***************************************************************************)
THEOREM AppWhileServingHolds ==
  ASSUME OneCaller
  PROVE  SafeSpec => AppWhileServing
<1>1. TypeOK /\ Lifecycle /\ Table /\ [Next]_vars =>
        [app # NoApp /\ app' = NoApp => \A w \in Workers : worker[w] \in W!Ended]_vars
  BY AppStep
<1>2. TypeOK /\ TypeOK' /\ Lifecycle /\ Table /\ [Next]_vars => Lifecycle' /\ Table'
  BY LifecycleStep, TableStep
<1> QED
  BY <1>1, <1>2, TypeInit, TypeStep, LifeInit, PTL DEF SafeSpec, AppWhileServing

-----------------------------------------------------------------------------
(* As long as no delay overflows, a worker that nobody stops stays alive,  *)
(* and the table follows the resolved routers.                             *)

FewFailures == 0 < MaxExponent /\ MaxAttempts <= MaxExponent

NoCrash == WP!Headroom /\ WP!KeepsReconnecting

LEMMA OthersCrashNone ==
  ASSUME NoCrash, UNCHANGED <<attempts, why>>,
         \A w \in Workers : worker'[w] = worker[w] \/ worker'[w] = "new"
  PROVE  NoCrash'
BY DEF NoCrash, WP!Headroom, WP!KeepsReconnecting

LEMMA RefreshWorkers ==
  ASSUME TypeOK, NEW p \in Tasks, RefreshStep(p)
  PROVE  UNCHANGED <<attempts, why, shutdown>> /\ \A w \in Workers : worker'[w] = worker[w] \/ worker'[w] = "new"
<1>1. ASSUME NEW K \in SUBSET Keys, AddWorkers(p, K)
      PROVE  /\ UNCHANGED <<attempts, why, shutdown>>
             /\ \A w \in Workers : worker'[w] = worker[w] \/ worker'[w] = "new"
  <2>1. PICK new \in [K -> FreeWorkers] :
           /\ UNCHANGED <<attempts, cancel, why, shutdown>>
           /\ \A k \in K : worker'[new[k]] = "new"
           /\ \A w \in Workers : (\A k \in K : new[k] # w) => worker'[w] = worker[w]
    BY <1>1, NewWorkers
  <2> QED
    BY <2>1
<1>2. ASSUME NEW gone \in SUBSET Keys, NEW add \in SUBSET Keys, PopNext(p, gone, add)
      PROVE  /\ UNCHANGED <<attempts, why, shutdown>>
             /\ \A w \in Workers : worker'[w] = worker[w] \/ worker'[w] = "new"
  BY <1>1, <1>2 DEF PopNext
<1>3. CASE Resolve(p)
  <2>1. (ResolvedUrls \X Slots) \ Existing \in SUBSET Keys
    BY DEF ResolvedUrls, Range, TypeOK, Keys
  <2> QED
    BY <1>1, <1>3, <2>1 DEF Resolve, Reconcile, taskVars
<1>4. CASE ResolveFails(p)
  BY <1>4 DEF ResolveFails, taskVars
<1>5. CASE Deregistered(p) \/ Reaped(p)
  <2>1. t[p].gone \in SUBSET Keys /\ t[p].add \in SUBSET Keys
    BY DEF TypeOK
  <2> QED
    BY <1>2, <1>5, <2>1 DEF Deregistered, Reaped, taskVars
<1> QED
  BY <1>3, <1>4, <1>5 DEF RefreshStep

LEMMA NoCrashStep ==
  ASSUME FewFailures, TypeOK, NoCrash, [Next]_vars
  PROVE  NoCrash'
<1>1. ASSUME NEW w \in Workers, WorkerRuns(w) \/ NetworkStep(w) PROVE NoCrash'
  <2>1. WP!WorkerTypeOK /\ [WP!WorkerNext]_(WP!workerVars)
    BY <1>1, TypeParts, SameWorkerType, SameWorkerStep DEF WorkerRuns, NetworkStep
  <2> QED
    BY <2>1, WorkerAssumption, WP!NextHeadroom, WP!NextKeepsReconnecting DEF NoCrash, FewFailures
<1>2. ASSUME NEW c \in Callers, CallerStep(c) \/ ShutdownStep(c) PROVE NoCrash'
  <2>1. UNCHANGED <<attempts, why, worker>>
    BY <1>2 DEF CallerStep, Startup, Attach, Shutdown, Detach, BeginStartup, BeginShutdown, W!Cancel,
       taskVars, ShutdownStep, LoopStopped, DeregisteredOne, Drained, DrainTimesOut, EndDrain, Joined
  <2> QED
    BY <2>1, OthersCrashNone
<1>3. ASSUME NEW p \in Tasks, RefreshStep(p) PROVE NoCrash'
  BY <1>3, RefreshWorkers, OthersCrashNone
<1>4. ASSUME UNCHANGED taskVars PROVE NoCrash'
  BY <1>4, OthersCrashNone DEF taskVars
<1>5. ASSUME NEW l \in Loops, LoopStep(l) PROVE UNCHANGED taskVars
  BY <1>5 DEF LoopStep, LoopBegins, LoopWakes, LoopCancelled
<1>6. ASSUME NEW r \in Requests, RequestFinishes(r) \/ \E w \in Workers : RequestStarts(r, w)
      PROVE  UNCHANGED taskVars
  BY <1>6 DEF RequestFinishes, RequestStarts
<1>7. CASE DnsChanges \/ UNCHANGED vars
  BY <1>4, <1>7 DEF DnsChanges, vars
<1> QED
  BY <1>1, <1>2, <1>3, <1>4, <1>5, <1>6, <1>7 DEF Next

Serves(k) ==
  /\ Alive(table[k]) /\ keyOf[table[k]] = k
  /\ ~ cancel[table[k]] /\ why[table[k]] # "cancelled"

Quiet == started /\ \A c \in Callers : t[c].pc \in {"idle", "resolve"}

Reconciles(l) == t[l].pc \in {"dereg", "reap"}

Following ==
  Quiet =>
    /\ ~ shutdown
    /\ \A k \in Existing : Serves(k)
    /\ \A l \in Loops : Reconciles(l) => (Existing \ t[l].gone) \cup t[l].add = known \X Slots
    /\ (\A l \in Loops : ~ Reconciles(l)) => Existing = known \X Slots

LEMMA CallerFollowing ==
  ASSUME TypeOK, Lifecycle, Table, Following, NEW c \in Callers, CallerStep(c)
  PROVE  Following'
<1>1. /\ t[c].pc = "idle" /\ t \in [Tasks -> TaskState] /\ c \in Tasks /\ c \notin Loops
      /\ UNCHANGED <<table, known, keyOf>> /\ UNCHANGED Existing
  BY ConnectorAssumption, TypeParts, TablesSame
     DEF CallerStep, Startup, Attach, Shutdown, Detach, Calls, TaskTypes, Tasks, BeginStartup, BeginShutdown
<1>s. ASSUME BeginStartup(c), ~ started PROVE Following'
  <2>1. refreshTask = NoTask /\ Existing = {} /\ known = {} /\ \A l \in Loops : t'[l] = t[l]
    BY <1>1, <1>s DEF BeginStartup, Lifecycle, Tasks
  <2>2. \A l \in Loops : t'[l].pc = "idle"
    BY <2>1, ConnectorAssumption DEF Lifecycle
  <2>3. shutdown' = FALSE
    BY <1>s DEF BeginStartup
  <2> QED
    BY <1>1, <2>1, <2>2, <2>3 DEF Following, Reconciles
<1>d. ASSUME BeginShutdown(c), started PROVE Following'
  <2>1. t'[c].pc \in {"stoploop", "drain", "deregall"}
    <3>1. CASE refreshTask = NoTask
      <4>1. DeregisterAll(c)
        BY <1>d, <3>1 DEF BeginShutdown
      <4> QED
        BY <1>1, <4>1, DeregisterAllPlace
    <3>2. CASE refreshTask # NoTask
      BY <1>1, <1>d, <3>2 DEF BeginShutdown, At
    <3> QED
      BY <3>1, <3>2
  <2> QED
    BY <2>1 DEF Following, Quiet
<1>n. ASSUME UNCHANGED <<started, t, taskVars, shutdown>> PROVE Following'
  BY <1>1, <1>n DEF Following, Quiet, Serves, Reconciles, Alive, taskVars
<1> QED
  BY <1>s, <1>d, <1>n DEF CallerStep, Startup, Attach, Shutdown, Detach

LEMMA ShutdownFollowing ==
  ASSUME TypeOK, NEW c \in Callers, ShutdownStep(c)
  PROVE  Following'
<1>1. started' = FALSE \/ t'[c].pc \in {"stoploop", "drain", "deregall", "join", "abort"}
  <2>t. t \in [Tasks -> TaskState] /\ c \in Tasks
    BY TypeParts DEF TaskTypes, Tasks
  <2>1. CASE LoopStopped(c)
    BY <2>t, <2>1, DeregisterAllPlace DEF LoopStopped
  <2>2. CASE DeregisteredOne(c)
    <3>1. t[c].pc = "deregall" /\ t[c] \in TaskState
      BY <2>t, <2>2 DEF DeregisteredOne
    <3>2. \/ t' = [t EXCEPT ![c] = At("drain")]
          \/ \E url \in t[c].urls : t' = [t EXCEPT ![c].urls = @ \ {url}]
      BY <2>2 DEF DeregisteredOne
    <3> QED
      BY <2>t, <3>1, <3>2 DEF At, TaskState
  <2>3. ASSUME NEW how \in {"join", "abort"}, EndDrain(c, how)
        PROVE  started' = FALSE \/ t'[c].pc \in {"join", "abort"}
    BY <2>t, <2>3 DEF EndDrain, Finish, At
  <2>4. CASE Joined(c)
    BY <2>4 DEF Joined, Finish
  <2> QED
    BY <2>1, <2>2, <2>3, <2>4 DEF ShutdownStep, Drained, DrainTimesOut
<1> QED
  BY <1>1 DEF Following, Quiet

LEMMA LoopFollowing ==
  ASSUME TypeOK, Lifecycle, Following, NEW l \in Loops, LoopStep(l)
  PROVE  Following'
<1>1. /\ t \in [Tasks -> TaskState] /\ l \in Tasks /\ l \notin Callers
      /\ UNCHANGED <<started, known, table, keyOf, taskVars, shutdown>> /\ UNCHANGED Existing
  BY TypeParts, ConnectorAssumption, TablesSame
     DEF TaskTypes, Tasks, LoopStep, LoopBegins, LoopWakes, LoopCancelled, lifeVars
<1>2. \A q \in Tasks \ {l} : t'[q] = t[q]
  BY <1>1 DEF LoopStep, LoopBegins, LoopWakes, LoopCancelled
<1>3. CASE LoopBegins(l) \/ LoopWakes(l)
  <2>1. ~ Reconciles(l) /\ ~ Reconciles(l)'
    BY <1>1, <1>3 DEF LoopBegins, LoopWakes, Reconciles, LoopTest, Idle, At
  <2>2. Quiet' = Quiet /\ \A k \in Existing : Serves(k)' = Serves(k)
    BY <1>1, <1>2, ConnectorAssumption DEF Quiet, Serves, Alive, taskVars, Tasks
  <2>3. \A m \in Loops : Reconciles(m)' => Reconciles(m) /\ t'[m] = t[m]
    BY <1>1, <1>2, <2>1 DEF Reconciles, Tasks
  <2>4. (\A m \in Loops : ~ Reconciles(m)') => \A m \in Loops : ~ Reconciles(m)
    BY <1>1, <1>2, <2>1 DEF Reconciles, Tasks
  <2> QED
    BY <1>1, <2>2, <2>3, <2>4 DEF Following
<1>4. CASE LoopCancelled(l)
  <2>1. PICK c \in Callers : t[c].pc = "stoploop"
    BY <1>4 DEF LoopCancelled, Lifecycle
  <2>2. t'[c].pc = "stoploop"
    BY <1>1, <1>2, <2>1 DEF Tasks
  <2> QED
    BY <2>2 DEF Following, Quiet
<1> QED
  BY <1>3, <1>4 DEF LoopStep

LEMMA ServesKept ==
  ASSUME NEW k, Serves(k), table'[k] = table[k], keyOf'[table[k]] = keyOf[table[k]],
         worker'[table[k]] = worker[table[k]], cancel'[table[k]] = cancel[table[k]],
         why'[table[k]] = why[table[k]]
  PROVE  Serves(k)'
BY DEF Serves, Alive

(* The keys that a refresh adds complete the list. *)
LEMMA AddWorkersFollowing ==
  ASSUME TypeOK, Table, NEW p, NEW K \in SUBSET Keys, AddWorkers(p, K), K \cap Existing = {},
         \A w \in Workers : Alive(w) => InTable(w),
         \A l \in Loops : t'[l].pc \notin {"dereg", "reap"},
         Existing \cup K = known' \X Slots, \A k \in Existing : Serves(k), ~ shutdown'
  PROVE  Following'
<1>1. Existing' = known' \X Slots
  BY AddWorkersTable
<1>2. ASSUME NEW k \in K PROVE Serves(k)'
  <2>1. /\ keyOf'[table'[k]] = k /\ worker'[table'[k]] = "new"
        /\ ~ cancel'[table'[k]] /\ why'[table'[k]] = "none"
    BY AddWorkersTable
  <2> QED
    BY <2>1 DEF Serves, Alive, W!Ended
<1>3. ASSUME NEW k \in Existing PROVE Serves(k)'
  <2>1. /\ table'[k] = table[k] /\ keyOf'[table[k]] = keyOf[table[k]]
        /\ worker'[table[k]] = worker[table[k]]
        /\ cancel'[table[k]] = cancel[table[k]] /\ why'[table[k]] = why[table[k]]
    BY AddWorkersTable
  <2> QED
    BY <2>1, ServesKept
<1>4. \A k \in Existing' : Serves(k)'
  <2>1. Existing' = Existing \cup K
    BY AddWorkersTable
  <2> QED
    BY <1>2, <1>3, <2>1
<1> QED
  BY <1>1, <1>4 DEF Following, Reconciles

LEMMA PopNextFollowing ==
  ASSUME TypeOK, TypeOK', Lifecycle, Lifecycle', Table, NEW l \in Loops, RefreshStep(l),
         NEW gone \in SUBSET Existing, NEW add \in SUBSET Keys, add \cap Existing = {},
         PopNext(l, gone, add) \/ (gone = {} /\ AddWorkers(l, add)),
         (Existing \ gone) \cup add = known' \X Slots, \A k \in Existing : Serves(k), ~ shutdown
  PROVE  Following'
<1>1. /\ l \in Tasks /\ l = refreshTask /\ (\A w \in Workers : Alive(w) => InTable(w)) /\ ~ shutdown'
      /\ t \in [Tasks -> TaskState]
  BY WhoRefreshes, NobodyReaps, RefreshWorkers, TypeParts DEF Tasks, TaskTypes
<1>2. CASE gone = {}
  <2>1. AddWorkers(l, add)
    BY <1>2 DEF PopNext
  <2>2. t' = [t EXCEPT ![l] = LoopTest] /\ refreshTask' = refreshTask
    BY <1>1, <2>1, AddWorkersTask, ConnectorAssumption
  <2>3. t'[l].pc \in {"idle", "sleep"}
    BY <1>1, <2>2 DEF LoopTest, Idle, At
  <2>4. \A m \in Loops : t'[m].pc \notin {"dereg", "reap"}
    BY <1>1, <2>2, <2>3 DEF Lifecycle
  <2>5. Existing \cup add = known' \X Slots
    BY <1>2
  <2> QED
    BY <1>1, <2>1, <2>4, <2>5, AddWorkersFollowing
<1>3. CASE gone # {}
  <2>1. PICK k \in gone :
          /\ IF table[k] = NoTask
               THEN Raise(l) /\ UNCHANGED <<table, cancel>>
               ELSE /\ table' = [table EXCEPT ![k] = NoTask]
                    /\ W!Cancel({table[k]})
                    /\ t' = [t EXCEPT ![l] = [At("reap") EXCEPT !.gone = gone \ {k}, !.add = add,
                                                              !.waits = {table[k]}]]
          /\ UNCHANGED <<refreshTask, keyOf, worker, attempts, why, waited, shutdown>>
    BY <1>3 DEF PopNext
  <2>2. k \in Existing /\ table[k] # NoTask
    BY <2>1 DEF Existing
  <2> DEFINE s == [At("reap") EXCEPT !.gone = gone \ {k}, !.add = add, !.waits = {table[k]}]
  <2>3. s.pc = "reap" /\ s.gone = gone \ {k} /\ s.add = add /\ s.waits = {table[k]}
    BY DEF At
  <2>4. t' = [t EXCEPT ![l] = s] /\ table' = [table EXCEPT ![k] = NoTask] /\ W!Cancel({table[k]})
    BY <2>1, <2>2
  <2> HIDE DEF s
  <2>5. Existing' = Existing \ {k} /\ \A j \in Existing \ {k} : table'[j] = table[j]
    BY <2>4, <2>2 DEF Existing, TypeOK
  <2>6. ASSUME NEW j \in Existing' PROVE Serves(j)'
    <3>1. j \in Existing /\ table[j] # table[k] /\ table[j] \in Workers /\ table'[j] = table[j]
      BY <2>2, <2>5 DEF Table, TypeOK, Existing
    <3>2. cancel'[table[j]] = cancel[table[j]]
      <4>1. W!WorkerTypeOK
        BY <1>1, TypeParts
      <4> shutdown' \in BOOLEAN
        BY <2>1, <4>1 DEF W!WorkerTypeOK
      <4>2. \A w \in Workers : w \notin {table[k]} => cancel'[w] = cancel[w]
        BY <2>4, <4>1, CancelStep
      <4> QED
        BY <3>1, <4>2
    <3> QED
      BY <2>1, <3>1, <3>2, ServesKept
  <2>7. t'[l] = s /\ \A m \in Loops \ {l} : t'[m] = t[m] /\ ~ Reconciles(m)
    BY <1>1, <2>4 DEF Tasks, Lifecycle, Reconciles
  <2>8. ASSUME NEW m \in Loops, Reconciles(m)'
        PROVE  (Existing' \ t'[m].gone) \cup t'[m].add = known' \X Slots
    <3>1. m = l
      BY <2>7, <2>8 DEF Reconciles
    <3>2. Existing' \ t'[l].gone = Existing \ gone
      BY <2>1, <2>3, <2>5, <2>7
    <3> QED
      BY <2>3, <2>7, <3>1, <3>2
  <2>9. Reconciles(l)'
    BY <2>3, <2>7 DEF Reconciles
  <2> QED
    BY <1>1, <2>6, <2>8, <2>9 DEF Following
<1> QED
  BY <1>2, <1>3

LEMMA RefreshFollowing ==
  ASSUME OneCaller, TypeOK, TypeOK', Lifecycle, Lifecycle', Table, Following,
         NEW p \in Tasks, RefreshStep(p)
  PROVE  Following'
<1>1. Quiet /\ ~ shutdown /\ UNCHANGED shutdown /\ \A k \in Existing : Serves(k)
  <2>1. Quiet
    BY WhoRefreshes DEF Quiet, OneCaller, Tasks
  <2> QED
    BY <2>1, RefreshWorkers DEF Following
<1>2. ResolvedUrls \X Slots \in SUBSET Keys /\ t \in [Tasks -> TaskState] /\ UNCHANGED started
  BY TypeParts, RefreshTask DEF ResolvedUrls, Range, TypeOK, Keys, TaskTypes
<1>u. ASSUME UNCHANGED <<table, keyOf, taskVars>>, NEW s, t' = [t EXCEPT ![p] = s], p \in Loops,
             s.pc \in {"dereg", "reap"} => (Existing \ s.gone) \cup s.add = known' \X Slots,
             s.pc \notin {"dereg", "reap"} => ~ Reconciles(p) /\ UNCHANGED known
      PROVE  Following'
  <2>1. p = refreshTask /\ UNCHANGED Existing
    BY <1>u, WhoRefreshes, TablesSame
  <2>2. t'[p] = s /\ \A l \in Loops \ {p} : t'[l] = t[l] /\ ~ Reconciles(l)
    BY <1>2, <1>u, <2>1 DEF Lifecycle, Reconciles, Tasks
  <2>3. \A k \in Existing : Serves(k)'
    BY <1>1, <1>u, ServesKept DEF taskVars
  <2>4. CASE s.pc \in {"dereg", "reap"}
    <3>1. Reconciles(p)' /\ \A l \in Loops : Reconciles(l)' => l = p
      BY <1>u, <2>2, <2>4 DEF Reconciles
    <3> QED
      BY <1>1, <1>u, <2>1, <2>2, <2>3, <2>4, <3>1 DEF Following
  <2>5. CASE s.pc \notin {"dereg", "reap"}
    <3>1. \A l \in Loops : ~ Reconciles(l)' /\ ~ Reconciles(l)
      BY <1>u, <2>2, <2>5 DEF Reconciles
    <3>2. Existing = known \X Slots
      BY <1>1, <3>1 DEF Following
    <3> QED
      BY <1>1, <1>u, <2>1, <2>3, <2>5, <3>1, <3>2 DEF Following
  <2> QED
    BY <2>4, <2>5
<1>3. CASE p \in Callers
  <2>1. /\ Existing = {} /\ \A l \in Loops : t[l].pc = "idle"
        /\ \A w \in Workers : Alive(w) => InTable(w)
    BY <1>3, WhoRefreshes, NobodyReaps
  <2>2. CASE ResolveFails(p)
    <3>1. t' = [t EXCEPT ![p] = Idle] /\ UNCHANGED <<known, table>>
      BY <1>3, <2>2, ConnectorAssumption DEF ResolveFails, Raise, lifeVars
    <3>2. \A l \in Loops : ~ Reconciles(l) /\ ~ Reconciles(l)'
      BY <1>2, <1>3, <2>1, <3>1, ConnectorAssumption DEF Reconciles, Tasks
    <3>3. Existing = known \X Slots /\ UNCHANGED Existing
      BY <1>1, <3>1, <3>2, TablesSame DEF Following
    <3> QED
      BY <1>1, <2>1, <3>1, <3>2, <3>3 DEF Following
  <2>3. CASE Resolve(p) /\ AddWorkers(p, ResolvedUrls \X Slots) /\ known' = ResolvedUrls
    <3>1. \A l \in Loops : t'[l].pc \in {"idle", "new"}
      BY <1>2, <1>3, <2>1, <2>3, AddWorkersTask, ConnectorAssumption DEF Tasks, Idle, At
    <3> QED
      BY <1>1, <1>2, <2>1, <2>3, <3>1, AddWorkersFollowing
  <2> QED
    BY <1>3, <2>2, <2>3, StartupStep
<1>4. CASE p \in Loops
  <2>1. CASE Resolve(p)
    <3> DEFINE gone == Existing \ (ResolvedUrls \X Slots)
               add == (ResolvedUrls \X Slots) \ Existing
    <3>1. gone \in SUBSET Existing /\ add \in SUBSET Keys /\ add \cap Existing = {}
      BY <1>2 DEF Existing
    <3>2. known' = ResolvedUrls /\ (Existing \ gone) \cup add = known' \X Slots
      BY <2>1 DEF Resolve
    <3>3. CASE gone = {}
      <4>1. AddWorkers(p, add)
        BY <2>1, <3>3 DEF Resolve, Reconcile
      <4> HIDE DEF add, gone
      <4> QED
        BY <1>1, <1>4, <3>1, <3>2, <3>3, <4>1, PopNextFollowing
    <3>4. CASE gone # {}
      <4> DEFINE s == [At("dereg") EXCEPT !.urls = RoutersOf(gone), !.gone = gone, !.add = add]
      <4>1. s.pc = "dereg" /\ s.gone = gone /\ s.add = add
        BY DEF At
      <4>2. t' = [t EXCEPT ![p] = s] /\ UNCHANGED <<table, keyOf, taskVars>>
        BY <2>1, <3>4 DEF Resolve, Reconcile
      <4> HIDE DEF s, gone, add
      <4> QED
        BY <1>4, <1>u, <3>2, <4>1, <4>2
    <3> QED
      BY <3>3, <3>4
  <2>2. CASE ResolveFails(p)
    <3>1. LoopTest.pc \in {"idle", "sleep"} /\ ~ Reconciles(p)
      BY <2>2 DEF LoopTest, Idle, At, ResolveFails, Reconciles
    <3> QED
      BY <1>4, <1>u, <2>2, <3>1 DEF ResolveFails, Raise, lifeVars
  <2>3. ASSUME t[p].pc \in {"dereg", "reap"}, UNCHANGED known
        PROVE  /\ t[p].gone \in SUBSET Existing /\ t[p].add \cap Existing = {}
               /\ t[p].add \in SUBSET Keys
               /\ (Existing \ t[p].gone) \cup t[p].add = known' \X Slots
    <3>1. Reconciles(p)
      BY <2>3 DEF Reconciles
    <3> QED
      BY <1>1, <1>2, <1>4, <2>3, <3>1 DEF Table, TaskState, Following
  <2>4. CASE Deregistered(p)
    <3>1. t[p].pc = "dereg" /\ UNCHANGED known
      BY <2>4 DEF Deregistered
    <3>2. PICK url \in t[p].urls :
            IF t[p].urls = {url}
              THEN PopNext(p, t[p].gone, t[p].add)
              ELSE /\ t' = [t EXCEPT ![p].urls = @ \ {url}]
                   /\ UNCHANGED <<refreshTask, table, keyOf, taskVars, shutdown>>
      BY <2>4 DEF Deregistered
    <3>3. CASE t[p].urls = {url}
      BY <1>1, <1>4, <2>3, <3>1, <3>2, <3>3, PopNextFollowing
    <3>4. CASE t[p].urls # {url}
      <4> DEFINE s == [t[p] EXCEPT !.urls = @ \ {url}]
      <4>1. s.pc = "dereg" /\ s.gone = t[p].gone /\ s.add = t[p].add
        BY <1>2, <3>1 DEF TaskState
      <4>2. t' = [t EXCEPT ![p] = s] /\ UNCHANGED <<table, keyOf, taskVars>>
        BY <3>2, <3>4
      <4> HIDE DEF s
      <4> QED
        BY <1>4, <1>u, <2>3, <3>1, <4>1, <4>2
    <3> QED
      BY <3>3, <3>4
  <2>5. CASE Reaped(p)
    BY <1>1, <1>4, <2>3, <2>5, PopNextFollowing DEF Reaped
  <2> QED
    BY <2>1, <2>2, <2>4, <2>5 DEF RefreshStep
<1> QED
  BY <1>3, <1>4 DEF Tasks

LEMMA WorkerFollowing ==
  ASSUME TypeOK, NoCrash', Following, NEW w \in Workers, WorkerRuns(w) \/ NetworkStep(w)
  PROVE  Following'
<1>1. /\ AroundWorker(w) /\ W!WorkerTypeOK /\ (W!WorkerRuns(w) \/ W!NetworkStep(w))
      /\ UNCHANGED <<lifeVars, table, t>> /\ UNCHANGED Existing
  BY TypeParts, TablesSame DEF WorkerRuns, NetworkStep, AroundWorker
<1>2. /\ UNCHANGED shutdown
      /\ \A v \in Workers \ {w} :
           worker'[v] = worker[v] /\ cancel'[v] = cancel[v] /\ why'[v] = why[v]
      /\ cancel'[w] => cancel[w]
      /\ ~ shutdown /\ ~ cancel[w] /\ why[w] # "cancelled" =>
           /\ worker'[w] \in W!Ended => worker'[w] = "crashed"
           /\ why'[w] # "cancelled"
  BY <1>1, WorkerStep
<1>3. /\ \A v \in Workers \ {w} : keyOf'[v] = keyOf[v]
      /\ worker'[w] \notin W!Ended => keyOf'[w] = keyOf[w]
  BY <1>1 DEF AroundWorker, TypeOK
<1>4. worker'[w] # "crashed"
  BY DEF NoCrash, WP!KeepsReconnecting
<1>5. ASSUME Quiet, NEW k \in Existing PROVE Serves(k)'
  <2>1. Serves(k) /\ ~ shutdown /\ table[k] \in Workers /\ table'[k] = table[k]
    BY <1>1, <1>5 DEF Following, Existing, TypeOK
  <2>2. CASE table[k] = w
    <3>1. worker'[w] \notin W!Ended /\ why'[w] # "cancelled" /\ ~ cancel'[w] /\ keyOf'[w] = k
      BY <1>2, <1>3, <1>4, <2>1, <2>2 DEF Serves
    <3> QED
      BY <2>1, <2>2, <3>1 DEF Serves, Alive
  <2>3. CASE table[k] # w
    BY <1>2, <1>3, <2>1, <2>3, ServesKept
  <2> QED
    BY <2>2, <2>3
<1>6. Quiet' = Quiet /\ \A l \in Loops : Reconciles(l)' = Reconciles(l)
  BY <1>1 DEF Quiet, Reconciles, lifeVars
<1> QED
  BY <1>1, <1>2, <1>5, <1>6 DEF Following, lifeVars

LEMMA FollowingStep ==
  ASSUME OneCaller, TypeOK, TypeOK', Lifecycle, Lifecycle', Table, NoCrash', Following, [Next]_vars
  PROVE  Following'
<1>1. ASSUME UNCHANGED <<lifeVars, table, t, keyOf, taskVars, shutdown>> PROVE Following'
  BY <1>1 DEF Following, Quiet, Reconciles, Serves, Alive, Existing, lifeVars, taskVars
<1>2. ASSUME NEW r \in Requests, RequestFinishes(r) \/ \E w \in Workers : RequestStarts(r, w)
      PROVE  Following'
  BY <1>1, <1>2 DEF RequestFinishes, RequestStarts
<1>3. CASE DnsChanges \/ UNCHANGED vars
  BY <1>1, <1>3 DEF DnsChanges, vars
<1> QED
  BY <1>2, <1>3, CallerFollowing, ShutdownFollowing, RefreshFollowing, LoopFollowing, WorkerFollowing
     DEF Next

(***************************************************************************)
(* Between two refreshes a started connector has a live worker for every   *)
(* slot of the routers it has resolved last and for nothing else, as long  *)
(* as no worker fails so often in a row that its delay overflows: that     *)
(* worker would be gone for good, and its key would stay in the table.     *)
(***************************************************************************)
THEOREM RegisteredHolds ==
  ASSUME OneCaller, FewFailures
  PROVE  SafeSpec => []Registered
<1>1. Init => NoCrash /\ Following
  BY DEF Init, W!WorkerInit, NoCrash, WP!Headroom, WP!KeepsReconnecting, Following, Quiet
<1>2. TypeOK /\ NoCrash /\ [Next]_vars => NoCrash'
  BY NoCrashStep
<1>3. /\ TypeOK /\ TypeOK' /\ Lifecycle /\ Lifecycle' /\ Table /\ NoCrash' /\ Following /\ [Next]_vars
      => Following'
  BY FollowingStep
<1>4. ASSUME TypeOK, Following PROVE Registered
  <2> SUFFICES ASSUME started, \A p \in Tasks : t[p].pc \in {"idle", "new", "sleep"}
               PROVE  /\ Existing = known \X Slots
                      /\ \A k \in Existing : worker[table[k]] \notin W!Ended /\ keyOf[table[k]] = k
    BY DEF Registered
  <2>1. ASSUME NEW c \in Callers PROVE t[c].pc = "idle"
    BY <1>4 DEF Tasks, TypeOK, CallerPlaces
  <2>2. Quiet /\ \A l \in Loops : ~ Reconciles(l)
    BY <2>1 DEF Quiet, Reconciles, Tasks
  <2> QED
    BY <1>4, <2>2 DEF Following, Serves, Alive
<1> QED
  BY <1>1, <1>2, <1>3, <1>4, LifeCorrect, TypeInit, TypeStep, PTL DEF SafeSpec
=============================================================================
