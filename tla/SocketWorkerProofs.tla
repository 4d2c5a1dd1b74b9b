------------------------- MODULE SocketWorkerProofs -------------------------
(* What holds of any number of workers, whatever the delays and bounds. *)
EXTENDS SocketWorker, FiniteSetTheorems, TLAPS

-----------------------------------------------------------------------------
(* The delays.  A power of two is the number of subsets of an interval. *)

LEMMA PowerIsCardinality ==
  ASSUME NEW k \in Nat
  PROVE  /\ IsFiniteSet(SUBSET (1..k))
         /\ Cardinality(SUBSET (1..k)) = 2^k
         /\ 2^k \in Nat \ {0}
PROOF
<1>1. IsFiniteSet(1..k) /\ Cardinality(1..k) = k
  BY FS_Interval
<1>2. IsFiniteSet(SUBSET (1..k)) /\ Cardinality(SUBSET (1..k)) = 2^k
  BY <1>1, FS_SUBSET
<1>3. SUBSET (1..k) # {}
  OBVIOUS
<1> QED
  BY <1>2, <1>3, FS_CardinalityType, FS_EmptySet

LEMMA PowerGrows ==
  ASSUME NEW k \in Nat
  PROVE  2^(k + 1) > 2^k
PROOF
<1> DEFINE S == SUBSET (1..k)
           T == SUBSET (1..(k + 1))
<1>1. S \in SUBSET T
  OBVIOUS
<1>2. S # T
  <2>1. {k + 1} \in T /\ {k + 1} \notin S
    OBVIOUS
  <2> QED BY <2>1
<1>3. /\ IsFiniteSet(T)
      /\ Cardinality(S) = 2^k /\ Cardinality(T) = 2^(k + 1)
      /\ 2^k \in Nat /\ 2^(k + 1) \in Nat
  BY PowerIsCardinality, k + 1 \in Nat
<1> HIDE DEF S, T
<1>4. Cardinality(S) <= Cardinality(T) /\ (Cardinality(T) = Cardinality(S) => T = S)
  BY <1>1, <1>3, FS_Subset
<1> QED
  BY <1>2, <1>3, <1>4

LEMMA DelayGrows ==
  ASSUME NEW d \in Nat \ {0}, NEW p \in Nat, NEW q \in Nat, q > p
  PROVE  d * q > d * p
PROOF
<1>1. d * q - d * p = d * (q - p)
  BY Z3
<1>2. d * (q - p) > 0
  BY Z3
<1> QED BY <1>1, <1>2, Z3

LEMMA DelayAtLeast ==
  ASSUME NEW d \in Nat \ {0}, NEW p \in Nat \ {0}
  PROVE  d * p >= d /\ d * p \in Nat
  BY Z3

LEMMA RetryDelayRange ==
  ASSUME NEW n \in Nat
  PROVE  RetryDelay(n) \in BaseDelay..MaxDelay /\ RetryDelay(n) > 0
PROOF
<1> USE SocketWorkerAssumption
<1>1. Doublings(n) \in Nat /\ Doublings(n) \in 0..Doublings(n)
  BY DEF Doublings
<1> DEFINE k == Doublings(n)
<1>2. 2^k \in Nat \ {0}
  BY <1>1, PowerIsCardinality
<1>3. BaseDelay * 2^k >= BaseDelay /\ BaseDelay * 2^k \in Nat
  BY <1>2, DelayAtLeast
<1>4. CASE BaseDelay * 2^k >= MaxDelay
  <2>1. RetryDelay(n) = MaxDelay
    BY <1>1, <1>4 DEF RetryDelay
  <2> QED BY <2>1
<1>5. CASE ~ (BaseDelay * 2^k >= MaxDelay)
  <2>1. RetryDelay(n) \in {MaxDelay, BaseDelay * 2^k}
    BY DEF RetryDelay
  <2> QED BY <2>1, <1>3, <1>5
<1> QED BY <1>4, <1>5

LEMMA RetryDelayGrows ==
  ASSUME NEW n \in Nat \ {0}
  PROVE  RetryDelay(n + 1) > RetryDelay(n) \/ RetryDelay(n + 1) = MaxDelay
PROOF
<1> DEFINE Reaches(j) == BaseDelay * 2^j >= MaxDelay
<1>1. Doublings(n) = n - 1 /\ Doublings(n + 1) = n
  BY DEF Doublings
<1>2. CASE \E j \in 0..n : Reaches(j)
  BY <1>1, <1>2 DEF RetryDelay
<1>3. CASE ~ \E j \in 0..n : Reaches(j)
  <2>1. ~ \E j \in 0..(n - 1) : Reaches(j)
    BY <1>3
  <2>2. RetryDelay(n) = BaseDelay * 2^(n - 1)
    BY <1>1, <2>1 DEF RetryDelay
  <2>3. RetryDelay(n + 1) = BaseDelay * 2^n
    BY <1>1, <1>3 DEF RetryDelay
  <2>4. 2^n > 2^(n - 1)
    BY PowerGrows, n - 1 \in Nat, (n - 1) + 1 = n
  <2>5. 2^n \in Nat /\ 2^(n - 1) \in Nat
    BY PowerIsCardinality, n - 1 \in Nat
  <2> QED
    BY <2>2, <2>3, <2>4, <2>5, DelayGrows, SocketWorkerAssumption
<1> QED BY <1>2, <1>3

-----------------------------------------------------------------------------
(* Types.  Each way of changing a worker is a lemma of its own.            *)

LEMMA InitTypeOK == WorkerInit => WorkerTypeOK
PROOF
<1> SUFFICES ASSUME WorkerInit PROVE WorkerTypeOK
  OBVIOUS
<1>1. /\ worker \in [Workers -> Place] /\ attempts \in [Workers -> Nat]
      /\ why \in [Workers -> {"none", "ok", "error", "cancelled"}]
      /\ cancel \in [Workers -> BOOLEAN] /\ shutdown \in BOOLEAN
  BY DEF WorkerInit, Place, Ended
<1>2. waited \in [Workers -> 0..MaxDelay]
  BY SocketWorkerAssumption DEF WorkerInit
<1>3. \A w \in Workers :
        /\ worker[w] = "none" /\ why[w] = "none" /\ waited[w] = 0
        /\ attempts[w] = 0 /\ ~ cancel[w]
  BY DEF WorkerInit
<1> QED
  BY <1>1, <1>2, <1>3 DEF WorkerTypeOK

LEMMA GoToKeepsTypes ==
  ASSUME WorkerTypeOK, NEW w \in Workers, NEW place \in Place, place # "leave",
         GoTo(w, place), UNCHANGED shutdown, why' = [why EXCEPT ![w] = "none"],
         cancel' = [cancel EXCEPT ![w] = FALSE]
  PROVE  WorkerTypeOK'
  BY SocketWorkerAssumption DEF GoTo, WorkerTypeOK, Place, Ended

LEMMA LeaveKeepsTypes ==
  ASSUME WorkerTypeOK, NEW w \in Workers, NEW how \in {"ok", "error", "cancelled"},
         Leave(w, how), UNCHANGED <<attempts, waited, shutdown>>,
         cancel' = [cancel EXCEPT ![w] = FALSE]
  PROVE  WorkerTypeOK'
  BY DEF Leave, WorkerTypeOK, Place, Ended

LEMMA FailedKeepsTypes ==
  ASSUME WorkerTypeOK, NEW w \in Workers,
         Failed(w), UNCHANGED <<cancel, shutdown>>, ~ cancel[w],
         why' = [why EXCEPT ![w] = "none"]
  PROVE  WorkerTypeOK'
PROOF
<1>1. cancel' = [cancel EXCEPT ![w] = FALSE]
  BY DEF WorkerTypeOK
<1>2. CASE Doublings(attempts[w] + 1) < MaxExponent
  <2>1. attempts[w] \in Nat /\ attempts[w] + 1 \in Nat
    BY DEF WorkerTypeOK
  <2>2. RetryDelay(attempts[w] + 1) \in 0..MaxDelay
    BY <2>1, RetryDelayRange, SocketWorkerAssumption
  <2> QED
    BY <1>2, <2>1, <2>2 DEF Failed, WorkerTypeOK, Place, Ended
<1>3. CASE ~ Doublings(attempts[w] + 1) < MaxExponent
  BY <1>1, <1>3, GoToKeepsTypes DEF Failed, Place, Ended
<1> QED BY <1>2, <1>3

LEMMA NextTypeOK == WorkerTypeOK /\ [WorkerNext]_workerVars => WorkerTypeOK'
PROOF
<1> SUFFICES ASSUME WorkerTypeOK, [WorkerNext]_workerVars
             PROVE  WorkerTypeOK'
  OBVIOUS
<1>1. ASSUME NEW w \in Workers, ~ cancel[w]
      PROVE  cancel = [cancel EXCEPT ![w] = FALSE]
  BY <1>1 DEF WorkerTypeOK
<1>2. ASSUME NEW w \in Workers, worker[w] # "leave"
      PROVE  why = [why EXCEPT ![w] = "none"]
  BY <1>2 DEF WorkerTypeOK
<1>3. CASE ConnectorStep
  <2>1. CASE ~ shutdown /\ shutdown' = TRUE /\ UNCHANGED taskVars
    BY <2>1 DEF WorkerTypeOK, taskVars
  <2>2. ASSUME NEW w \in Workers, Cancel({w}), UNCHANGED shutdown
        PROVE  WorkerTypeOK'
    BY <2>2 DEF Cancel, WorkerTypeOK, Ended
  <2>3. ASSUME NEW w \in Workers, worker[w] = "none", Create({w})
        PROVE  WorkerTypeOK'
    BY <2>3 DEF Create, WorkerTypeOK, Place, Ended
  <2> QED
    BY <1>3, <2>1, <2>2, <2>3 DEF ConnectorStep
<1>4. ASSUME NEW w \in Workers, WorkerRuns(w)
      PROVE  WorkerTypeOK'
  <2>1. CASE Begin(w)
    BY <1>1, <1>2, <2>1, GoToKeepsTypes DEF Begin, LoopTest, Place, Ended
  <2>2. CASE Left(w)
    <3>1. CASE why[w] = "ok"
      BY <1>1, <2>2, <3>1, GoToKeepsTypes DEF Left, LoopTest, Place, Ended
    <3>2. CASE why[w] = "error"
      BY <2>2, <3>2, FailedKeepsTypes DEF Left
    <3>3. CASE why[w] = "cancelled"
      BY <1>1, <2>2, <3>3, GoToKeepsTypes DEF Left, Place, Ended
    <3> QED
      BY <2>2, <3>1, <3>2, <3>3 DEF Left
  <2>3. CASE Wake(w)
    BY <1>1, <1>2, <2>3, GoToKeepsTypes DEF Wake, LoopTest, Place, Ended
  <2>4. CASE Cancelled(w)
    BY <2>4, GoToKeepsTypes DEF Cancelled, Place, Ended
  <2>5. ASSUME NEW how \in {"cancelled", "error"}, SessionCancelled(w, how)
        PROVE  WorkerTypeOK'
    BY <2>5, LeaveKeepsTypes DEF SessionCancelled
  <2> QED
    BY <1>4, <2>1, <2>2, <2>3, <2>4, <2>5 DEF WorkerRuns
<1>5. ASSUME NEW w \in Workers, NetworkStep(w)
      PROVE  WorkerTypeOK'
  <2>1. CASE Accepted(w)
    BY <2>1, SocketWorkerAssumption DEF Accepted, WorkerTypeOK, Place, Ended
  <2>2. CASE WrongProtocol(w)
    BY <1>1, <2>2, LeaveKeepsTypes DEF WrongProtocol
  <2>3. CASE ConnectFails(w)
    BY <1>2, <2>3, FailedKeepsTypes DEF ConnectFails
  <2>4. ASSUME NEW how \in {"ok", "error"}, SessionEnds(w, how)
        PROVE  WorkerTypeOK'
    BY <1>1, <2>4, LeaveKeepsTypes DEF SessionEnds
  <2> QED
    BY <1>5, <2>1, <2>2, <2>3, <2>4 DEF NetworkStep
<1>6. CASE UNCHANGED workerVars
  BY <1>6 DEF workerVars, taskVars, WorkerTypeOK
<1> QED
  BY <1>3, <1>4, <1>5, <1>6 DEF WorkerNext

(***************************************************************************)
(* Whatever the router and the connector do, each worker is at an await of *)
(* _socket_worker and a delay is in the range of _retry_delay_seconds.     *)
(***************************************************************************)
THEOREM WorkerTypeCorrect == WorkerSafeSpec => []WorkerTypeOK
  BY InitTypeOK, NextTypeOK, PTL DEF WorkerSafeSpec

-----------------------------------------------------------------------------
(* The delays grow.  A task that sleeps has failed, and the delay before   *)
(* is the one for the attempts it had then.                                *)

DelayKept ==
  \A w \in Workers : waited[w] # 0 => waited[w] = RetryDelay(attempts[w])

LEMMA NextDelayKept ==
  WorkerTypeOK /\ DelayKept /\ [WorkerNext]_workerVars => DelayKept'
PROOF
<1> SUFFICES ASSUME WorkerTypeOK, DelayKept, [WorkerNext]_workerVars
             PROVE  DelayKept'
  OBVIOUS
<1>1. ASSUME UNCHANGED <<attempts, waited>>
      PROVE  DelayKept'
  BY <1>1 DEF DelayKept, RetryDelay, Doublings
<1>2. ASSUME NEW w \in Workers, NEW place, GoTo(w, place)
      PROVE  DelayKept'
  BY <1>1, <1>2 DEF GoTo, DelayKept, WorkerTypeOK
<1>3. ASSUME NEW w \in Workers, Failed(w)
      PROVE  DelayKept'
  BY <1>2, <1>3 DEF Failed, DelayKept, WorkerTypeOK
<1>4. ASSUME NEW w \in Workers, WorkerRuns(w)
      PROVE  DelayKept'
  BY <1>1, <1>2, <1>3, <1>4
     DEF WorkerRuns, Begin, Left, Wake, Cancelled, SessionCancelled, LoopTest
<1>5. ASSUME NEW w \in Workers, NetworkStep(w)
      PROVE  DelayKept'
  <2>1. CASE Accepted(w)
    BY <2>1 DEF Accepted, DelayKept, WorkerTypeOK
  <2> QED
    BY <1>1, <1>3, <1>5, <2>1 DEF NetworkStep, WrongProtocol, ConnectFails, SessionEnds
<1> QED
  BY <1>1, <1>4, <1>5 DEF WorkerNext, ConnectorStep, Cancel, Create, taskVars, workerVars

LEMMA SleepsAfterFailure ==
  ASSUME WorkerTypeOK, [WorkerNext]_workerVars,
         NEW w \in Workers, worker[w] # "sleep", worker'[w] = "sleep"
  PROVE  waited'[w] = RetryDelay(attempts[w] + 1)
PROOF
<1>1. ASSUME NEW v \in Workers, NEW place, place # "sleep",
             worker' = [worker EXCEPT ![v] = place]
      PROVE  FALSE
  BY <1>1 DEF WorkerTypeOK
<1>2. ASSUME NEW v \in Workers, Failed(v)
      PROVE  waited'[w] = RetryDelay(attempts[w] + 1)
  BY <1>1, <1>2 DEF Failed, GoTo, WorkerTypeOK
<1>3. ASSUME NEW v \in Workers, WorkerRuns(v)
      PROVE  waited'[w] = RetryDelay(attempts[w] + 1)
  BY <1>1, <1>2, <1>3
     DEF WorkerRuns, Begin, Left, Wake, Cancelled, SessionCancelled, LoopTest, GoTo, Leave
<1>4. ASSUME NEW v \in Workers, NetworkStep(v)
      PROVE  waited'[w] = RetryDelay(attempts[w] + 1)
  BY <1>1, <1>2, <1>4
     DEF NetworkStep, Accepted, WrongProtocol, ConnectFails, SessionEnds, Leave
<1>5. CASE ConnectorStep
  BY <1>5 DEF ConnectorStep, Cancel, Create, taskVars
<1> QED
  BY <1>3, <1>4, <1>5 DEF WorkerNext, workerVars, taskVars

LEMMA StepBackoff ==
  ASSUME WorkerTypeOK, DelayKept, [WorkerNext]_workerVars,
         NEW w \in Workers, worker[w] # "sleep", worker'[w] = "sleep"
  PROVE  /\ waited'[w] \in BaseDelay..MaxDelay
         /\ waited'[w] > waited[w] \/ waited'[w] = MaxDelay
PROOF
<1>1. /\ attempts[w] \in Nat /\ attempts[w] + 1 \in Nat
      /\ waited[w] # 0 => attempts[w] \in Nat \ {0}
  BY DEF WorkerTypeOK
<1>2. waited'[w] = RetryDelay(attempts[w] + 1)
  BY SleepsAfterFailure
<1>3. waited'[w] \in BaseDelay..MaxDelay /\ waited'[w] > 0
  BY <1>1, <1>2, RetryDelayRange
<1>4. CASE waited[w] = 0
  BY <1>3, <1>4
<1>5. CASE waited[w] # 0
  BY <1>1, <1>2, <1>3, <1>5, RetryDelayGrows DEF DelayKept
<1> QED BY <1>3, <1>4, <1>5

(***************************************************************************)
(* For every base delay and cap: each delay is in range, and longer than   *)
(* the one before unless that was the cap, for as long as no connection    *)
(* was accepted in between.                                                *)
(***************************************************************************)
THEOREM BackoffHolds == WorkerSafeSpec => Backoff
PROOF
<1>1. WorkerInit => DelayKept
  BY DEF WorkerInit, DelayKept
<1>2. /\ WorkerTypeOK /\ DelayKept /\ [WorkerNext]_workerVars
      => [\A w \in Workers :
            worker[w] # "sleep" /\ worker'[w] = "sleep"
              => /\ waited'[w] \in BaseDelay..MaxDelay
                 /\ waited'[w] > waited[w] \/ waited'[w] = MaxDelay]_workerVars
  BY StepBackoff
<1> QED
  BY <1>1, <1>2, InitTypeOK, NextTypeOK, NextDelayKept, PTL DEF WorkerSafeSpec, Backoff

-----------------------------------------------------------------------------
(* Below the overflow of the power: a worker that is about to fail has     *)
(* room for one more attempt.  Lemmas, for the table of the connector.     *)
Headroom ==
  \A w \in Workers :
    /\ worker[w] = "run" => attempts[w] = 0
    /\ why[w] = "error" => attempts[w] = 0 \/ attempts[w] < MaxAttempts

LEMMA NextHeadroom ==
  WorkerTypeOK /\ Headroom /\ [WorkerNext]_workerVars => Headroom'
PROOF
<1> SUFFICES ASSUME WorkerTypeOK, Headroom, [WorkerNext]_workerVars
             PROVE  Headroom'
  OBVIOUS
<1> USE DEF WorkerTypeOK, Headroom
<1>1. ASSUME UNCHANGED taskVars
      PROVE  Headroom'
  BY <1>1 DEF taskVars
<1>2. ASSUME NEW w \in Workers, NEW place \in Place \ {"run"}, GoTo(w, place),
             why' = why \/ why' = [why EXCEPT ![w] = "none"]
      PROVE  Headroom'
  BY <1>2 DEF GoTo
<1>3. ASSUME NEW w \in Workers, Failed(w),
             (worker[w] # "leave" /\ why' = why) \/ why' = [why EXCEPT ![w] = "none"]
      PROVE  Headroom'
  BY <1>2, <1>3 DEF Failed, Place, Ended
<1>4. ASSUME NEW w \in Workers, NEW how, Leave(w, how), UNCHANGED attempts,
             attempts[w] = 0 \/ attempts[w] < MaxAttempts
      PROVE  Headroom'
  BY <1>4 DEF Leave
<1>5. ASSUME NEW w \in Workers, WorkerRuns(w)
      PROVE  Headroom'
  <2>1. CASE Begin(w) \/ Wake(w) \/ Cancelled(w)
    BY <1>2, <2>1 DEF Begin, Wake, Cancelled, LoopTest, Place, Ended
  <2>2. CASE Left(w)
    BY <1>2, <1>3, <2>2 DEF Left, LoopTest, Place, Ended
  <2>3. ASSUME NEW how, SessionCancelled(w, how)
        PROVE  Headroom'
    BY <1>4, <2>3 DEF SessionCancelled
  <2> QED
    BY <1>5, <2>1, <2>2, <2>3 DEF WorkerRuns
<1>6. ASSUME NEW w \in Workers, NetworkStep(w)
      PROVE  Headroom'
  <2>1. CASE Accepted(w)
    BY <2>1 DEF Accepted
  <2> QED
    BY <1>3, <1>4, <1>6, <2>1 DEF NetworkStep, WrongProtocol, ConnectFails, SessionEnds
<1>7. CASE ConnectorStep
  BY <1>1, <1>7 DEF ConnectorStep, Cancel, Create, taskVars
<1> QED
  BY <1>1, <1>5, <1>6, <1>7 DEF WorkerNext, workerVars

LEMMA NextKeepsReconnecting ==
  ASSUME 0 < MaxExponent, MaxAttempts <= MaxExponent
  PROVE  /\ WorkerTypeOK /\ Headroom /\ KeepsReconnecting /\ [WorkerNext]_workerVars
         => KeepsReconnecting'
PROOF
<1> SUFFICES ASSUME WorkerTypeOK, Headroom, KeepsReconnecting, [WorkerNext]_workerVars
             PROVE  KeepsReconnecting'
  OBVIOUS
<1> USE DEF WorkerTypeOK, KeepsReconnecting
<1>1. ASSUME NEW w \in Workers, NEW place, place # "crashed",
             worker' = [worker EXCEPT ![w] = place]
      PROVE  KeepsReconnecting'
  BY <1>1
<1>2. ASSUME NEW w \in Workers, Failed(w),
             attempts[w] = 0 \/ attempts[w] < MaxAttempts
      PROVE  KeepsReconnecting'
  <2>1. Doublings(attempts[w] + 1) = attempts[w]
    BY DEF Doublings
  <2> QED
    BY <1>1, <1>2, <2>1, SocketWorkerAssumption DEF Failed
<1>3. ASSUME NEW w \in Workers, WorkerRuns(w)
      PROVE  KeepsReconnecting'
  BY <1>1, <1>2, <1>3
     DEF Headroom, WorkerRuns, Begin, Left, Wake, Cancelled, SessionCancelled,
         LoopTest, GoTo, Leave
<1>4. ASSUME NEW w \in Workers, NetworkStep(w)
      PROVE  KeepsReconnecting'
  BY <1>1, <1>2, <1>4
     DEF NetworkStep, Accepted, WrongProtocol, ConnectFails, SessionEnds, Leave
<1>5. CASE ConnectorStep
  BY <1>5 DEF ConnectorStep, Cancel, Create, taskVars
<1> QED
  BY <1>3, <1>4, <1>5 DEF WorkerNext, workerVars, taskVars
=============================================================================
