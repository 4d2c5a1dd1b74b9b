---------------------------- MODULE SocketWorker ----------------------------
(***************************************************************************)
(* The tasks that run _socket_worker: each keeps one registration alive by *)
(* connecting to its router, running a session on the WebSocket, and       *)
(* connecting again, after a delay when it has failed.  A session is what  *)
(* the worker sees of it: run() returns or raises, and a cancellation that *)
(* is delivered to it comes out as CancelledError or, when the session's   *)
(* writer had failed, as the writer's error (exit in module Session).      *)
(*                                                                         *)
(* cancel[w] is a cancellation that task w has not seen yet: the next time *)
(* it runs, the await it is in raises CancelledError.                      *)
(***************************************************************************)
EXTENDS Integers

CONSTANTS
  Workers,      (* the tasks                                               *)
  BaseDelay,    (* reconnect_delay_seconds, in milliseconds                *)
  MaxDelay,     (* the 10 seconds of _retry_delay_seconds                  *)
  MaxExponent,  (* 2 ** n is a float for n below this (1024 in Python)     *)
  MaxAttempts   (* bound: no more failures in a row than this              *)

ASSUME SocketWorkerAssumption ==
  /\ BaseDelay \in Nat \ {0} /\ MaxDelay \in Nat /\ BaseDelay <= MaxDelay
  /\ MaxExponent \in Nat /\ MaxAttempts \in Nat

VARIABLES
  worker,    (* where each task is                                         *)
  attempts,  (* its local variable                                         *)
  why,       (* how the body of its async with ended, while it leaves it   *)
  cancel,    (* it has been cancelled and has not run since                *)
  waited,    (* history: its last delay since a connection was accepted    *)
  shutdown   (* CrankerConnector._shutdown is set                          *)

taskVars == <<worker, attempts, why, cancel, waited>>
workerVars == <<taskVars, shutdown>>

Ended == {"none", "returned", "cancelled", "crashed"}
Place == Ended \cup {"new", "connect", "run", "leave", "sleep"}

(***************************************************************************)
(* Every variable keeps its shape; only a worker that leaves a connection  *)
(* remembers why, and a delay is one that _retry_delay_seconds can return. *)
(***************************************************************************)
WorkerTypeOK ==
  /\ worker \in [Workers -> Place]
  /\ attempts \in [Workers -> Nat]
  /\ why \in [Workers -> {"none", "ok", "error", "cancelled"}]
  /\ cancel \in [Workers -> BOOLEAN]
  /\ waited \in [Workers -> 0..MaxDelay]
  /\ shutdown \in BOOLEAN
  /\ \A w \in Workers :
       /\ why[w] # "none" <=> worker[w] = "leave"
       /\ waited[w] # 0 => attempts[w] # 0
       /\ worker[w] \in Ended => attempts[w] = 0 /\ ~ cancel[w]

WorkerInit ==
  /\ worker = [w \in Workers |-> "none"]
  /\ attempts = [w \in Workers |-> 0]
  /\ why = [w \in Workers |-> "none"]
  /\ cancel = [w \in Workers |-> FALSE]
  /\ waited = [w \in Workers |-> 0]
  /\ shutdown = FALSE

-----------------------------------------------------------------------------
Doublings(n) == IF n > 0 THEN n - 1 ELSE 0

(* Mutation of RetryDelay: no limit. *)
RetryDelayUncapped(n) == BaseDelay * 2^Doublings(n)

(* _retry_delay_seconds.  The power is not computed once it is beyond the  *)
(* limit, which gives the same minimum.                                    *)
RetryDelay(n) ==
  LET Reaches(k) == BaseDelay * 2^k >= MaxDelay
  IN IF \E k \in 0..Doublings(n) : Reaches(k) THEN MaxDelay ELSE BaseDelay * 2^Doublings(n)

(* A task that ends takes its local variable with it. *)
GoTo(w, place) ==
  /\ worker' = [worker EXCEPT ![w] = place]
  /\ IF place \in Ended
       THEN attempts' = [attempts EXCEPT ![w] = 0] /\ waited' = [waited EXCEPT ![w] = 0]
       ELSE UNCHANGED <<attempts, waited>>

(* The test of the loop, which is where a worker comes back to. *)
LoopTest(w) == GoTo(w, IF shutdown THEN "returned" ELSE "connect")

(* create_task, of a worker for a slot of a router. *)
Create(W) ==
  /\ worker' = [w \in Workers |-> IF w \in W THEN "new" ELSE worker[w]]
  /\ UNCHANGED <<attempts, why, cancel, waited, shutdown>>

(* task.cancel(): nothing happens to a task that is done. *)
Cancel(W) ==
  /\ cancel' = [w \in Workers |-> cancel[w] \/ (w \in W /\ worker[w] \notin Ended)]
  /\ UNCHANGED <<worker, attempts, why, waited>>

-----------------------------------------------------------------------------
Begin(w) ==
  /\ worker[w] = "new" /\ ~ cancel[w]
  /\ LoopTest(w)
  /\ UNCHANGED <<why, cancel, shutdown>>

(* connect() returns a connection with the subprotocol cranker_3.0. *)
Accepted(w) ==
  /\ worker[w] = "connect" /\ ~ cancel[w]
  /\ worker' = [worker EXCEPT ![w] = "run"]
  /\ attempts' = [attempts EXCEPT ![w] = 0]
  /\ waited' = [waited EXCEPT ![w] = 0]
  /\ UNCHANGED <<why, cancel, shutdown>>

(* The body of the async with is over; its exit closes the WebSocket. *)
Leave(w, how) ==
  /\ worker' = [worker EXCEPT ![w] = "leave"]
  /\ why' = [why EXCEPT ![w] = how]

(* A connection with another subprotocol is an error before any session. *)
WrongProtocol(w) ==
  /\ worker[w] = "connect" /\ ~ cancel[w]
  /\ attempts[w] < MaxAttempts
  /\ Leave(w, "error")
  /\ UNCHANGED <<attempts, cancel, waited, shutdown>>

SessionEnds(w, how) ==
  /\ worker[w] = "run" /\ ~ cancel[w]
  /\ Leave(w, how)
  /\ UNCHANGED <<attempts, cancel, waited, shutdown>>

(* CancelledError in session.run(): its finally awaits the writer, whose   *)
(* own exception takes the place of the CancelledError.                    *)
SessionCancelled(w, how) ==
  /\ worker[w] = "run" /\ cancel[w]
  /\ Leave(w, how)
  /\ cancel' = [cancel EXCEPT ![w] = FALSE]
  /\ UNCHANGED <<attempts, waited, shutdown>>

(* Mutation of Failed: the attempts are not counted. *)
FailedUncounted(w) ==
  /\ worker' = [worker EXCEPT ![w] = "sleep"]
  /\ waited' = [waited EXCEPT ![w] = RetryDelay(attempts[w] + 1)]
  /\ UNCHANGED attempts

(* except Exception: the delay is computed in the handler, so that what it *)
(* raises (float() of too large a power) leaves the task.                  *)
Failed(w) ==
  IF Doublings(attempts[w] + 1) < MaxExponent
    THEN /\ worker' = [worker EXCEPT ![w] = "sleep"]
         /\ attempts' = [attempts EXCEPT ![w] = @ + 1]
         /\ waited' = [waited EXCEPT ![w] = RetryDelay(attempts[w] + 1)]
    ELSE GoTo(w, "crashed")

ConnectFails(w) ==
  /\ worker[w] = "connect" /\ ~ cancel[w]
  /\ attempts[w] < MaxAttempts
  /\ Failed(w)
  /\ UNCHANGED <<why, cancel, shutdown>>

(* The WebSocket is closed: what ended the body goes on from here. *)
Left(w) ==
  /\ worker[w] = "leave" /\ ~ cancel[w]
  /\ \/ /\ why[w] = "ok"
        /\ LoopTest(w)
     \/ /\ why[w] = "error"
        /\ Failed(w)
     \/ /\ why[w] = "cancelled"
        /\ GoTo(w, "cancelled")
  /\ why' = [why EXCEPT ![w] = "none"]
  /\ UNCHANGED <<cancel, shutdown>>

(* Mutation of Wake: straight into connect. *)
WakeUntested(w) ==
  /\ worker[w] = "sleep" /\ ~ cancel[w]
  /\ worker' = [worker EXCEPT ![w] = "connect"]
  /\ UNCHANGED <<attempts, why, cancel, waited, shutdown>>

(* The sleep is over. *)
Wake(w) ==
  /\ worker[w] = "sleep" /\ ~ cancel[w]
  /\ LoopTest(w)
  /\ UNCHANGED <<why, cancel, shutdown>>

(* CancelledError anywhere else: before the first step, in connect, in the *)
(* close of the WebSocket, in the sleep of the handler.                    *)
Cancelled(w) ==
  /\ cancel[w] /\ worker[w] \notin Ended \cup {"run"}
  /\ GoTo(w, "cancelled")
  /\ why' = [why EXCEPT ![w] = "none"]
  /\ cancel' = [cancel EXCEPT ![w] = FALSE]
  /\ UNCHANGED shutdown

(* What the task does by itself, and what the network does to it. *)
WorkerRuns(w) ==
  \/ Begin(w)
  \/ Left(w)
  \/ Wake(w)
  \/ Cancelled(w)
  \/ \E how \in {"cancelled", "error"} : SessionCancelled(w, how)

NetworkStep(w) ==
  \/ Accepted(w)
  \/ WrongProtocol(w)
  \/ ConnectFails(w)
  \/ \E how \in {"ok", "error"} : SessionEnds(w, how)

-----------------------------------------------------------------------------
(* The connector of a lone worker: it creates the task, sets the event and *)
(* cancels, in any order.  Module Connector has the real one.              *)
ConnectorStep ==
  \/ /\ ~ shutdown /\ shutdown' = TRUE
     /\ UNCHANGED taskVars
  \/ \E w \in Workers : Cancel({w}) /\ UNCHANGED shutdown
  \/ \E w \in Workers : worker[w] = "none" /\ Create({w})

WorkerNext == ConnectorStep \/ \E w \in Workers : WorkerRuns(w) \/ NetworkStep(w)

WorkerSafeSpec == WorkerInit /\ [][WorkerNext]_workerVars

(* The event loop runs a task that is ready; a close and a sleep end. *)
WorkerSpec == WorkerSafeSpec /\ \A w \in Workers : WF_workerVars(WorkerRuns(w))

(***************************************************************************)
(* The delays between failures grow, up to the cap, for as long as no      *)
(* connection has been accepted in between, whichever way the attempts     *)
(* fail and whatever cancellations come between (verify_retry_backoff in   *)
(* verify_connector_behaviors.py asserts the shape of _retry_delay_seconds *)
(* alone).                                                                 *)
(***************************************************************************)
Backoff ==
  [][\A w \in Workers :
       worker[w] # "sleep" /\ worker'[w] = "sleep"
         => /\ waited'[w] \in BaseDelay..MaxDelay
            /\ waited'[w] > waited[w] \/ waited'[w] = MaxDelay]_workerVars

(***************************************************************************)
(* A worker that is cancelled when the event is set ends, also when its    *)
(* session turns the CancelledError into the error of its writer: the      *)
(* worker then sleeps as after a failure, and leaves by the loop's test.   *)
(***************************************************************************)
StopEnds ==
  \A w \in Workers : shutdown /\ cancel[w] ~> worker[w] \in Ended

(***************************************************************************)
(* A worker ends only when it was told to, by the event or a cancellation: *)
(* otherwise its task is there to reconnect.                               *)
(***************************************************************************)
KeepsReconnecting == \A w \in Workers : worker[w] # "crashed"
=============================================================================
