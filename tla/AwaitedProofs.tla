---------------------------- MODULE AwaitedProofs ----------------------------
(***************************************************************************)
(* Proofs about Provisioning while no call outlives its caller: for every  *)
(* number of resources, slots and retries, and every budget that allows no *)
(* timeout, conductor crash, shutdown or broken call to the conductor.     *)
(***************************************************************************)
EXTENDS ProvisioningProofs

USE ResourceCountAssumption, ConductorAssumption, BudgetAssumption

\* AwaitedInv holds initially: there is no record, no saga and no request.
LEMMA AwaitedInit == CallsAreAwaited /\ Init => AwaitedInv
  <1> SUFFICES ASSUME CallsAreAwaited, Init PROVE AwaitedInv
    OBVIOUS
  <1>1. SafetyInv
    BY SafetyInit
  <1>2. /\ rec = NoRecord /\ prov = "none" /\ api = "up" /\ left = Budget
        /\ saga = "none" /\ \A h \in Handler : handler[h].pc = "idle"
    BY DEF Init, ApiInit, ConductorInit, WorkerInit, IdleHandler
  <1>3. \A d \in Abandons : left[d] = 0
    BY <1>2 DEF CallsAreAwaited
  <1>4. SequentialInv /\ QuietInv /\ OneFailureInv
    BY <1>2 DEF SequentialInv, QuietInv, OneFailureInv, AllIdle, Active, Working
  <1>5. ForwardInv /\ BackwardInv /\ RestInv
    BY <1>2 DEF ForwardInv, BackwardInv, RestInv, NoRecord
  <1> QED
    BY <1>1, <1>2, <1>3, <1>4, <1>5 DEF AwaitedInv

\* A disturbance that cannot happen cannot be paid for, and stays so.
LEMMA NoAbandons ==
    ASSUME AwaitedInv, [Next]_vars
    PROVE  /\ ~StepTimesOut /\ ~SagaTimesOut /\ ~CrashConductor /\ ~StopApi
           /\ ~CallFails /\ ~ExitApi
           /\ \A d \in Abandons : left'[d] = 0
           /\ api' # "stopping"
  <1>1. \A d \in Abandons : ~Spend(d)
    BY DEF AwaitedInv, Spend
  <1>2. /\ ~StepTimesOut /\ ~SagaTimesOut /\ ~CrashConductor /\ ~StopApi
        /\ ~CallFails /\ ~ExitApi
    BY <1>1 DEF AwaitedInv, Abandons, StepTimesOut, SagaTimesOut, CrashConductor,
                StopApi, CallFails, ExitApi, ApiExit
  <1>3. left' = left \/ \E d \in Disturbance : Spend(d)
    BY <1>2
    DEF Next, vars, ApiNext, Create, CreateEnvSaga, PersistSagaId, StartEnvSaga,
        StartEnvSagaTooLate, SagaEnds, StoreFailure, PutFails, CrashApi, RestartApi,
        ConductorNext, CallStep, StepReturns, StepUnreachable, Abort,
        WorkerNext, LoadEnv, SaveEnv, StepFails, AnswerLost, ReplyUnheard,
        CrashWorker, RestartWorker, CliNext, Poll, Interrupt, Disturbance
  <1>4. \A d \in Abandons : left'[d] = 0
    BY <1>1, <1>3 DEF AwaitedInv, SafetyInv, TypeOK, Spend, Abandons, Disturbance
  <1>5. api' # "stopping"
    BY <1>2
    DEF AwaitedInv, Next, vars, apiVars, ApiNext, Create, CreateEnv, CreateEnvSaga,
        SagaCreated, PersistSagaId, RecordSaga, StartEnvSaga, SagaStarted,
        StartEnvSagaTooLate, ProvisionFails, SagaEnds, SagaReturned, StoreFailure,
        MarkFailed, PutFails, MarkFailedLost, CrashApi, ApiCrash, RestartApi, ApiRestart,
        ConductorNext, CallStep, StepReturns, StepUnreachable, Abort,
        WorkerNext, LoadEnv, SaveEnv, StepFails, AnswerLost, PutEnv, ReplyUnheard,
        CrashWorker, RestartWorker, CliNext, Poll, Interrupt
  <1> QED
    BY <1>2, <1>4, <1>5

-----------------------------------------------------------------------------
(***************************************************************************)
(* What one awaited handler makes of the record it loaded: the copy it is  *)
(* about to store, or the reason why it has nothing to store.              *)
(***************************************************************************)
LEMMA EffectOfStep ==
    ASSUME NEW r \in Request, NEW env \in Record
    PROVE  LET e == Effect(r, env) IN
           /\ e.step = r.step
           /\ e.pc \in {"save", "ok", "error"}
           /\ e.pc = "save" =>
                 e.env = IF r.comp THEN Compensated(r.step, env) ELSE Executed(r.step, env)
           /\ e.pc = "ok" /\ r.comp => r.step = Health
           /\ e.pc = "ok" /\ ~r.comp => IsAlreadyDone(r.step, env) \/ r.step = Health
  <1> USE DEF Effect, Request
  <1>1. CASE ~r.comp /\ ExecuteFails(r.step, env)
    BY <1>1
  <1>2. CASE /\ r.comp \/ ~ExecuteFails(r.step, env)
             /\ (~r.comp /\ IsAlreadyDone(r.step, env)) \/ ~Writes(r.step)
    BY <1>2 DEF Writes
  <1>3. CASE /\ r.comp \/ ~ExecuteFails(r.step, env)
             /\ ~((~r.comp /\ IsAlreadyDone(r.step, env)) \/ ~Writes(r.step))
    BY <1>3
  <1>4. r.comp \in BOOLEAN
    OBVIOUS
  <1> QED
    BY <1>1, <1>2, <1>3, <1>4 DEF ExecuteFails, IsAlreadyDone, Writes

\* A step's effect on the record touches no identifier but its own, and no
\* status unless it is the registry step.
LEMMA EffectOnRecord ==
    ASSUME NEW s \in Step, NEW env \in Record
    PROVE  /\ Executed(s, env).ids = IF s \in Resource THEN env.ids \cup {s} ELSE env.ids
           /\ Executed(s, env).status = IF s = Registry THEN "ready" ELSE env.status
           /\ Compensated(s, env).ids = IF s \in Resource THEN env.ids \ {s} ELSE env.ids
           /\ Compensated(s, env).status = IF s = Registry THEN "destroyed" ELSE env.status
  <1>1. s \in Resource => s # Registry
    BY DEF Resource, Registry
  <1>2. /\ env = [status |-> env.status, saga |-> env.saga, fail |-> env.fail,
                 ids |-> env.ids]
    BY DEF Record
  <1>3. CASE s \in Resource
    BY <1>1, <1>2, <1>3 DEF Executed, Compensated, Provisioned, Removed
  <1>4. CASE s = Registry
    BY <1>1, <1>2, <1>4 DEF Executed, Compensated, Committed, Destroyed
  <1>5. CASE s \notin Resource /\ s # Registry
    BY <1>5 DEF Executed, Compensated
  <1> QED
    BY <1>3, <1>4, <1>5

(***************************************************************************)
(* AwaitedInv is inductive: one step for each action that can happen.      *)
(***************************************************************************)
LEMMA AwaitedNext ==
    ASSUME AwaitedInv, [Next]_vars
    PROVE  AwaitedInv'
  <1> DEFINE Rest == SequentialInv /\ QuietInv /\ OneFailureInv
                       /\ ForwardInv /\ BackwardInv /\ RestInv
  <1>s. SafetyInv /\ SafetyInv'
    BY SafetyNext DEF AwaitedInv
  <1>a. /\ \A d \in Abandons : left'[d] = 0
        /\ api' # "stopping"
    BY NoAbandons
  <1>r. SequentialInv /\ QuietInv /\ OneFailureInv /\ ForwardInv /\ BackwardInv /\ RestInv
    BY DEF AwaitedInv
  <1>q. ASSUME Rest' PROVE AwaitedInv'
    BY <1>s, <1>a, <1>q DEF AwaitedInv
  <1>t. /\ rec \in Record /\ mem \in Record
        /\ handler \in [Handler -> Request]
        /\ saga \in {"none", "pending"} \cup Active \cup Terminal
        /\ cur \in 0..Registry /\ failedStep \in 0..Registry
        /\ call \in Handler \cup {NoCall}
    BY <1>s DEF SafetyInv, TypeOK, ApiTypeOK, ConductorTypeOK, WorkerTypeOK
  <1>g. GoroutineInv /\ SagaInv /\ CallInv
    BY <1>s DEF SafetyInv
  <1> USE DEF SequentialInv, QuietInv, OneFailureInv, ForwardInv, BackwardInv, RestInv,
              AllIdle, Working, Started, Active, Terminal
  <1>1. ASSUME UNCHANGED <<rec, prov, saga, cur, failedStep, call, handler>>
        PROVE  Rest'
    BY <1>1, <1>r
  <1>2. ASSUME NEW fail \in BOOLEAN, Create(fail)
        PROVE  Rest'
    BY <1>2, <1>r, <1>g
    DEF Create, CreateEnv, NewEnv, conductorVars, workerVars, GoroutineInv
  <1>3. ASSUME CreateEnvSaga PROVE Rest'
    BY <1>3, <1>r, <1>g DEF CreateEnvSaga, SagaCreated, CreateSaga, workerVars
  <1>4. ASSUME PersistSagaId PROVE Rest'
    BY <1>4, <1>r, <1>g
    DEF PersistSagaId, RecordSaga, conductorVars, workerVars, GoroutineInv
  <1>5. ASSUME StartEnvSaga PROVE Rest'
    BY <1>5, <1>r, <1>g
    DEF StartEnvSaga, SagaStarted, StartSaga, workerVars, Registry, Resource, SagaInv
  <1>6. ASSUME StartEnvSagaTooLate PROVE Rest'
    BY <1>6, <1>r DEF StartEnvSagaTooLate, ProvisionFails, conductorVars, workerVars
  <1>7. ASSUME SagaEnds PROVE Rest'
    BY <1>7, <1>r, <1>g
    DEF SagaEnds, SagaReturned, ProvisionFails, conductorVars, workerVars, SagaInv
  <1>8. ASSUME StoreFailure PROVE Rest'
    BY <1>8, <1>r, <1>g
    DEF StoreFailure, MarkFailed, conductorVars, workerVars, GoroutineInv
  <1>10. ASSUME PutFails PROVE Rest'
    BY <1>10, <1>r DEF PutFails, ProvisionFails, MarkFailedLost, conductorVars, workerVars
  <1>11. ASSUME CrashApi PROVE Rest'
    BY <1>11, <1>r DEF CrashApi, ApiCrash, conductorVars, workerVars
  <1>12. ASSUME NEW h \in Handler, CallStep(h)
        PROVE  Rest'
    BY <1>12, <1>r, <1>t, <1>g
    DEF CallStep, Issue, Accept, apiVars, SagaInv
  <1>13. ASSUME StepReturns \/ StepUnreachable PROVE Rest'
    <2>1. /\ saga \in Active /\ cur \in 1..Registry /\ call' = NoCall
          /\ UNCHANGED <<rec, prov>>
          /\ AllIdle'
      BY <1>13, <1>r, <1>t, <1>g
      DEF StepReturns, StepUnreachable, Advance, AttemptFails, Reply, IdleHandler,
          apiVars, workerVars, SagaInv
    <2>2. \/ Advance /\ handler[call].pc = "ok" /\ call # NoCall
          \/ AttemptFails
      BY <1>13 DEF StepReturns, StepUnreachable
    <2>3. ~(prov \in {"none", "create", "record", "start", "failing"} \/ rec.status = "failed")
      BY <2>1, <1>r
    <2>4. SequentialInv' /\ QuietInv' /\ OneFailureInv'
      BY <2>1, <2>3, <1>r
    <2>5. ASSUME saga = "running", Advance, handler[call].pc = "ok", call # NoCall
          PROVE  ForwardInv' /\ BackwardInv' /\ RestInv'
      <3>1. failedStep' = failedStep /\ failedStep = 0
        BY <2>5, <1>g DEF Advance, SagaInv
      <3>2. CASE cur = Registry
        <4>1. \A s \in Resource : s \in rec.ids
          BY <2>5, <3>2, <1>r DEF Resource, Registry
        <4>2. rec.ids = Resource /\ rec.status = "ready"
          BY <2>5, <3>2, <4>1, <1>r, <1>t DEF Record
        <4> QED
          BY <2>1, <2>5, <3>2, <4>2 DEF Advance
      <3>3. CASE cur # Registry
        BY <2>1, <2>5, <3>1, <3>3, <1>r, <1>t DEF Advance, Resource, Registry
      <3> QED
        BY <3>2, <3>3
    <2>6. ASSUME saga = "compensating", Advance, handler[call].pc = "ok", call # NoCall
          PROVE  ForwardInv' /\ BackwardInv' /\ RestInv'
      BY <2>1, <2>6, <1>r, <1>t DEF Advance, Resource, Registry, Record
    <2>7. ASSUME saga = "running", AttemptFails
          PROVE  ForwardInv' /\ BackwardInv' /\ RestInv'
      BY <2>1, <2>7, <1>r, <1>t DEF AttemptFails, GiveUp, Resource, Registry, Record
    <2>8. ASSUME saga = "compensating", AttemptFails
          PROVE  ForwardInv' /\ BackwardInv' /\ RestInv'
      BY <2>1, <2>8, <1>r, <1>t DEF AttemptFails, GiveUp, Resource, Registry
    <2> QED
      BY <2>1, <2>2, <2>4, <2>5, <2>6, <2>7, <2>8
  <1>18. ASSUME Abort PROVE Rest'
    BY <1>18, <1>r DEF Abort, AbortSaga, apiVars, workerVars
  <1>19. ASSUME NEW h \in Handler, LoadEnv(h)
         PROVE  Rest'
    <2> DEFINE e == Effect(handler[h], rec)
    <2>1. /\ handler' = [handler EXCEPT ![h] = e]
          /\ handler[h] \in Request /\ handler[h].pc = "load"
          /\ UNCHANGED <<rec, prov, saga, cur, failedStep, call>>
      BY <1>19, <1>t DEF LoadEnv, Load, apiVars, conductorVars
    <2>2. handler'[h] = e /\ \A k \in Handler \ {h} : handler'[k] = handler[k]
      BY <2>1, <1>t
    <2>3. /\ e.step = handler[h].step
          /\ e.pc = "save" => e.env = IF handler[h].comp THEN Compensated(e.step, rec)
                                                        ELSE Executed(e.step, rec)
          /\ e.pc = "ok" /\ handler[h].comp => e.step = Health
          /\ e.pc = "ok" /\ ~handler[h].comp => IsAlreadyDone(e.step, rec) \/ e.step = Health
      BY <2>1, <1>t, EffectOfStep
    <2>4. handler[h].step \in Step /\ handler[h].comp \in BOOLEAN
      BY <2>1 DEF Request
    <2> HIDE DEF e
    <2>5. LET s == handler[h].step IN
          /\ Executed(s, rec).ids = IF s \in Resource THEN rec.ids \cup {s} ELSE rec.ids
          /\ Executed(s, rec).status = IF s = Registry THEN "ready" ELSE rec.status
          /\ Compensated(s, rec).ids = IF s \in Resource THEN rec.ids \ {s} ELSE rec.ids
          /\ Compensated(s, rec).status = IF s = Registry THEN "destroyed" ELSE rec.status
      BY <2>4, <1>t, EffectOnRecord
    <2>6. SequentialInv' /\ QuietInv'
      BY <2>1, <2>2, <1>r
    <2>7. rec.status # "failed"
      BY <2>1, <1>r
    <2>8. OneFailureInv'
      BY <2>1, <2>2, <2>3, <2>4, <2>5, <2>7, <1>r
    <2>9. RestInv'
      BY <2>1, <1>r
    <2>10. CASE h # call
      <3>1. saga = "aborted"
        BY <2>1, <2>10, <1>r
      <3> QED
        BY <2>1, <2>6, <2>8, <2>9, <3>1
    <2>11. CASE h = call
      <3>1. call # NoCall /\ e.step = cur /\ handler[h].comp = (saga = "compensating")
        BY <2>1, <2>3, <2>11, <1>g DEF CallInv
      <3>2. ForwardInv'
        <4> SUFFICES ASSUME saga = "running" PROVE ForwardInv'
          BY <2>1
        <4>1. e.pc = "save" => e.env = Executed(cur, rec)
          BY <2>3, <3>1
        <4>2. e.pc = "save" =>
                 /\ \A s \in Resource : s \in e.env.ids <=> s <= cur
                 /\ e.env.status = IF cur = Registry THEN "ready" ELSE "provisioning"
          BY <4>1, <2>3, <2>5, <3>1, <1>r, <1>t DEF Resource, Registry
        <4>3. e.pc = "ok" => /\ cur \in Resource => cur \in rec.ids
                             /\ cur = Registry => rec.status = "ready"
          BY <2>3, <3>1 DEF IsAlreadyDone, Resource, Health, Registry
        <4> QED
          BY <2>1, <2>2, <2>11, <4>2, <4>3, <1>r
      <3>3. BackwardInv'
        <4> SUFFICES ASSUME saga = "compensating" PROVE BackwardInv'
          BY <2>1
        <4>1. e.pc = "save" => e.env = Compensated(cur, rec)
          BY <2>3, <3>1
        <4>2. e.pc = "save" =>
                 \A s \in Resource \ {failedStep} : s \in e.env.ids <=> s < cur
          BY <4>1, <2>3, <2>5, <3>1, <1>r, <1>t DEF Resource, Registry
        <4>3. e.pc = "ok" => cur = Health
          BY <2>3, <3>1
        <4>4. rec.ids \subseteq Resource /\ Health \notin Resource
          BY <1>t DEF Record, Resource, Health
        <4> QED
          BY <2>1, <2>2, <2>11, <4>2, <4>3, <4>4, <1>r
      <3> QED
        BY <2>6, <2>8, <2>9, <3>2, <3>3
    <2> QED
      BY <2>10, <2>11
  <1>20. ASSUME NEW h \in Handler, SaveEnv(h) \/ AnswerLost(h)
         PROVE  Rest'
    <2>1. /\ handler[h].pc = "save" /\ handler'[h].pc \in {"ok", "error"}
          /\ \A k \in Handler \ {h} : handler'[k] = handler[k]
          /\ rec' = handler[h].env
          /\ UNCHANGED <<prov, saga, cur, failedStep, call>>
      <3>1. CASE SaveEnv(h)
        BY <3>1, <1>t DEF SaveEnv, Saved, PutEnv, conductorVars, Request
      <3>2. CASE AnswerLost(h)
        BY <3>2, <1>t DEF AnswerLost, SavedUnacknowledged, PutEnv, conductorVars, Request
      <3> QED
        BY <1>20, <3>1, <3>2
    <2>2. /\ handler[h].env \in Record
          /\ handler[h].env.status # "failed"
      BY <2>1, <1>t, <1>r DEF Request
    <2>3. SequentialInv' /\ QuietInv' /\ OneFailureInv'
      BY <2>1, <2>2, <1>r
    <2>4. CASE h # call
      <3>1. saga = "aborted"
        BY <2>1, <2>4, <1>r
      <3> QED
        BY <2>1, <2>3, <3>1
    <2>5. CASE h = call
      <3>1. call # NoCall /\ saga \in Active
        BY <2>1, <2>5, <1>t, <1>g DEF SagaInv
      <3>2. ForwardInv'
        <4> SUFFICES ASSUME saga = "running" PROVE ForwardInv'
          BY <2>1
        <4> QED
          BY <2>1, <2>2, <2>5, <3>1, <1>r, <1>t DEF Resource, Registry
      <3>3. BackwardInv'
        <4> SUFFICES ASSUME saga = "compensating" PROVE BackwardInv'
          BY <2>1
        <4>1. cur < failedStep
          BY <1>g DEF SagaInv
        <4>2. cur \in rec'.ids => cur \in Resource
          BY <2>1, <2>2 DEF Record
        <4> QED
          BY <2>1, <2>2, <2>5, <3>1, <4>1, <4>2, <1>r, <1>t DEF Resource, Registry
      <3> QED
        BY <2>1, <2>3, <3>1, <3>2, <3>3
    <2> QED
      BY <2>4, <2>5
  <1>21. ASSUME NEW h \in Handler, StepFails(h)
        PROVE  Rest'
    BY <1>21, <1>r, <1>t
    DEF StepFails, RequestFails, apiVars, conductorVars
  <1>22. ASSUME NEW h \in Handler, ReplyUnheard(h)
        PROVE  Rest'
    BY <1>22, <1>r, <1>t
    DEF ReplyUnheard, Reply, IdleHandler, apiVars, conductorVars
  <1>23. ASSUME CrashWorker PROVE Rest'
    BY <1>23, <1>r, <1>t
    DEF CrashWorker, WorkerCrash, IdleHandler, apiVars, conductorVars
  <1>24. ASSUME RestartApi \/ RestartWorker \/ CliNext \/ UNCHANGED vars
         PROVE  Rest'
    <2>1. UNCHANGED <<rec, prov, saga, cur, failedStep, call, handler>>
      BY <1>24
      DEF RestartApi, RestartWorker, ApiRestart, WorkerRestart, CliNext, Poll, Interrupt,
          vars, apiVars, conductorVars, workerVars
    <2> QED
      BY <1>1, <2>1
  <1> HIDE DEF Rest
  <1> QED
    BY <1>q, <1>2, <1>3, <1>4, <1>5, <1>6, <1>7, <1>8, <1>10, <1>11, <1>12, <1>13,
       <1>18, <1>19, <1>20, <1>21, <1>22, <1>23, <1>24, NoAbandons
    DEF Next, ApiNext, ConductorNext, WorkerNext

(***************************************************************************)
(* While calls are awaited, one handler at a time changes the record, and  *)
(* the record follows the saga step by step.                               *)
(***************************************************************************)
THEOREM AwaitedInvariance ==
    ASSUME CallsAreAwaited
    PROVE  Spec => []AwaitedInv
  <1>1. Init => AwaitedInv
    BY AwaitedInit
  <1>2. AwaitedInv /\ [Next]_vars => AwaitedInv'
    BY AwaitedNext
  <1> QED
    BY <1>1, <1>2, PTL DEF Spec

-----------------------------------------------------------------------------
(* The properties that the runs check.                                     *)

(***************************************************************************)
(* The stored record tells how far the saga is: which resources were       *)
(* provisioned and not removed, give or take that of the step at hand and  *)
(* that of the step that failed (Execute and Compensate of the steps, the  *)
(* worker's load and store of the record).                                 *)
(***************************************************************************)
THEOREM RecordFollowsSaga ==
    ASSUME CallsAreAwaited
    PROVE  Spec => []RecordTracksSaga
  <1>1. AwaitedInv => RecordTracksSaga
    <2> SUFFICES ASSUME AwaitedInv PROVE RecordTracksSaga
      OBVIOUS
    <2>1. rec \in Record /\ cur \in 0..Registry
      BY DEF AwaitedInv, SafetyInv, TypeOK, ApiTypeOK, ConductorTypeOK
    <2>2. rec.ids \subseteq Resource
      BY <2>1 DEF Record
    <2>3. \A s \in Resource : s \in 1..(cur - 1) <=> s < cur
      BY <2>1 DEF Resource, Registry
    <2>4. CASE saga \in {"none", "pending"}
      BY <2>4 DEF AwaitedInv, RestInv, Started, RecordTracksSaga
    <2>5. CASE saga = "running"
      <3>1. \A s \in Resource \ {cur} : s \in rec.ids <=> s < cur
        BY <2>5 DEF AwaitedInv, ForwardInv
      <3>2. rec.ids \ {cur} = Resource \cap 1..(cur - 1)
        BY <2>1, <2>2, <2>3, <3>1
      <3> QED
        BY <2>5, <3>2 DEF RecordTracksSaga
    <2>6. CASE saga = "compensating"
      <3>1. \A s \in Resource \ {failedStep, cur} : s \in rec.ids <=> s < cur
        BY <2>6 DEF AwaitedInv, BackwardInv
      <3>2. cur < failedStep /\ failedStep \in 0..Registry
        BY <2>6 DEF AwaitedInv, SafetyInv, TypeOK, ConductorTypeOK, SagaInv
      <3>3. rec.ids \ {failedStep, cur} = Resource \cap 1..(cur - 1)
        BY <2>1, <2>2, <2>3, <3>1, <3>2
      <3> QED
        BY <2>6, <3>3 DEF RecordTracksSaga
    <2>7. CASE saga \in {"completed", "failed"}
      BY <2>7 DEF AwaitedInv, RestInv, RecordTracksSaga
    <2>8. CASE saga \notin {"none", "pending", "running", "compensating", "completed", "failed"}
      BY <2>8 DEF RecordTracksSaga
    <2> QED
      BY <2>4, <2>5, <2>6, <2>7, <2>8
  <1> QED
    BY <1>1, AwaitedInvariance, PTL

(***************************************************************************)
(* The goroutine marks an environment failed only if nothing is going to   *)
(* be provisioned for it any more (the error path of handleCreateEnv).     *)
(***************************************************************************)
THEOREM FailedEnvironmentIsOver ==
    ASSUME CallsAreAwaited
    PROVE  Spec => []FailedMeansOver
  <1>1. AwaitedInv => FailedMeansOver
    BY DEF AwaitedInv, QuietInv, Active, FailedMeansOver
  <1> QED
    BY <1>1, AwaitedInvariance, PTL

(***************************************************************************)
(* No handler, no goroutine and no request changes the record of a failed  *)
(* environment: the status that "forge create" took for final stays.       *)
(***************************************************************************)
THEOREM FailedStays ==
    ASSUME CallsAreAwaited
    PROVE  Spec => FailedIsFinal
  <1>1. ASSUME AwaitedInv, [Next]_vars, rec.status = "failed"
        PROVE  rec' = rec
    <2>1. AllIdle /\ prov \notin {"create", "record", "start", "waiting", "failing"}
      BY <1>1 DEF AwaitedInv, QuietInv, OneFailureInv, Working
    <2>2. rec # NoRecord
      BY <1>1 DEF NoRecord
    <2>3. /\ \A fail \in BOOLEAN : ~Create(fail)
          /\ ~PersistSagaId /\ ~StoreFailure
      BY <2>1, <2>2 DEF Create, CreateEnv, PersistSagaId, RecordSaga, StoreFailure, MarkFailed
    <2>4. \A h \in Handler : ~SaveEnv(h) /\ ~AnswerLost(h)
      BY <2>1 DEF AllIdle, SaveEnv, Saved, AnswerLost, SavedUnacknowledged
    <2>5. ~CallFails /\ ~StopApi /\ ~ExitApi /\ ~StepTimesOut /\ ~SagaTimesOut
          /\ ~CrashConductor
      BY <1>1, NoAbandons
    <2> QED
      BY <1>1, <2>3, <2>4, <2>5
      DEF Next, vars, apiVars, ApiNext, CreateEnvSaga, SagaCreated, StartEnvSaga,
          SagaStarted, StartEnvSagaTooLate, ProvisionFails, SagaEnds, SagaReturned,
          PutFails, MarkFailedLost, CrashApi, ApiCrash, RestartApi, ApiRestart,
          ConductorNext, CallStep, StepReturns, StepUnreachable, Abort,
          WorkerNext, LoadEnv, StepFails, ReplyUnheard, CrashWorker, RestartWorker,
          CliNext, Poll, Interrupt
  <1>2. AwaitedInv /\ [Next]_vars => [rec.status = "failed" => rec' = rec]_vars
    BY <1>1
  <1> QED
    BY <1>2, AwaitedInvariance, PTL DEF Spec, FailedIsFinal
=============================================================================
