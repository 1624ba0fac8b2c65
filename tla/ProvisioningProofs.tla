------------------------- MODULE ProvisioningProofs -------------------------
(***************************************************************************)
(* Proofs about Provisioning, for every number of resources, set of        *)
(* request slots, number of retries and budget.                            *)
(***************************************************************************)
EXTENDS ProvisioningInv, TLAPS

USE ResourceCountAssumption, ConductorAssumption, BudgetAssumption

-----------------------------------------------------------------------------
(* The operators on records.                                               *)

LEMMA RecordOperators ==
    /\ NoRecord \in Record
    /\ \A fail \in BOOLEAN : NewEnv(fail) \in Record
    /\ \A s \in Step, env \in Record :
          Executed(s, env) \in Record /\ Compensated(s, env) \in Record
  BY DEF NoRecord, NewEnv, Executed, Compensated, Provisioned, Removed, Committed,
         Destroyed, Record, Status, Step, Resource

\* A handler's request stays well-formed when the step runs on a record.
LEMMA EffectType ==
    ASSUME NEW r \in Request, NEW env \in Record
    PROVE  Effect(r, env) \in Request
  <1>1. Executed(r.step, env) \in Record /\ Compensated(r.step, env) \in Record
    BY RecordOperators DEF Request
  <1> QED
    BY <1>1 DEF Effect, Request

LEMMA IdleHandlerType == IdleHandler \in Request
  BY RecordOperators DEF IdleHandler, Request, Step, Registry

-----------------------------------------------------------------------------
(* Type correctness.                                                       *)

LEMMA TypeInit == Init => TypeOK
  <1> SUFFICES ASSUME Init PROVE TypeOK
    OBVIOUS
  <1>1. ApiTypeOK
    BY RecordOperators DEF Init, ApiInit, ApiTypeOK, ProvState
  <1>2. ConductorTypeOK
    BY DEF Init, ConductorInit, ConductorTypeOK, Registry
  <1>3. WorkerTypeOK
    BY IdleHandlerType DEF Init, WorkerInit, WorkerTypeOK
  <1>4. CliTypeOK
    BY DEF Init, CliInit, CliTypeOK, Status
  <1> QED
    BY <1>1, <1>2, <1>3, <1>4 DEF Init, TypeOK

(***************************************************************************)
(* Each component's actions keep the types of its variables.               *)
(***************************************************************************)
LEMMA ApiTypes ==
    ASSUME ApiTypeOK,
           \/ UNCHANGED apiVars
           \/ \E fail \in BOOLEAN : CreateEnv(fail)
           \/ SagaCreated \/ RecordSaga \/ SagaStarted
           \/ \E at \in ProvState : ProvisionFails(at)
           \/ SagaReturned(saga) \/ MarkFailed \/ MarkFailedLost
           \/ \E env \in Record : PutEnv(env)
           \/ ApiStop \/ ApiExit \/ ApiCrash \/ ApiRestart
    PROVE  ApiTypeOK'
  <1> USE RecordOperators DEF ApiTypeOK, ProvState, Record, Status
  <1>1. CASE UNCHANGED apiVars \/ \E fail \in BOOLEAN : CreateEnv(fail)
    BY <1>1 DEF apiVars, CreateEnv
  <1>2. CASE SagaCreated \/ RecordSaga \/ SagaStarted
    BY <1>2 DEF SagaCreated, RecordSaga, SagaStarted
  <1>3. CASE SagaReturned(saga) \/ \E at \in ProvState : ProvisionFails(at)
    BY <1>3 DEF ProvisionFails, SagaReturned
  <1>4. CASE MarkFailed \/ MarkFailedLost \/ \E env \in Record : PutEnv(env)
    BY <1>4 DEF MarkFailed, MarkFailedLost, PutEnv
  <1>5. CASE ApiStop \/ ApiExit \/ ApiCrash \/ ApiRestart
    BY <1>5 DEF ApiStop, ApiExit, ApiCrash, ApiRestart
  <1> QED
    BY <1>1, <1>2, <1>3, <1>4, <1>5

LEMMA ConductorTypes ==
    ASSUME ConductorTypeOK,
           \/ UNCHANGED conductorVars
           \/ CreateSaga \/ StartSaga \/ \E h \in Handler : Issue(h)
           \/ (saga \in Active /\ cur # 0) /\ (Advance \/ AttemptFails)
           \/ AbortSaga \/ (SagaTimeout /\ cur # 0) \/ Crash
    PROVE  ConductorTypeOK'
  BY DEF ConductorTypeOK, conductorVars, CreateSaga, StartSaga, Issue, Advance,
      AttemptFails, GiveUp, AbortSaga, SagaTimeout, Crash, Active, Terminal, Registry

LEMMA WorkerTypes ==
    ASSUME WorkerTypeOK,
           \/ UNCHANGED workerVars
           \/ \E h \in Handler :
                 \/ \E s \in Step, comp \in BOOLEAN : Accept(h, s, comp)
                 \/ \E env \in Record : Load(h, env)
                 \/ RequestFails(h) \/ Saved(h) \/ SavedUnacknowledged(h) \/ Reply(h)
           \/ WorkerCrash \/ WorkerRestart
    PROVE  WorkerTypeOK'
  <1>1. CASE UNCHANGED workerVars
    BY <1>1 DEF WorkerTypeOK, workerVars
  <1>2. ASSUME NEW h \in Handler, NEW s \in Step, NEW comp \in BOOLEAN, Accept(h, s, comp)
        PROVE  WorkerTypeOK'
    BY <1>2, RecordOperators DEF Accept, WorkerTypeOK, Request
  <1>3. ASSUME NEW h \in Handler, NEW env \in Record, Load(h, env)
        PROVE  WorkerTypeOK'
    BY <1>3, EffectType DEF Load, WorkerTypeOK
  <1>4. ASSUME NEW h \in Handler, RequestFails(h) \/ Saved(h) \/ SavedUnacknowledged(h)
        PROVE  WorkerTypeOK'
    BY <1>4, RecordOperators
    DEF RequestFails, Saved, SavedUnacknowledged, WorkerTypeOK, Request
  <1>5. ASSUME NEW h \in Handler, Reply(h)
        PROVE  WorkerTypeOK'
    BY <1>5, IdleHandlerType DEF Reply, WorkerTypeOK
  <1>6. CASE WorkerCrash \/ WorkerRestart
    BY <1>6, IdleHandlerType DEF WorkerCrash, WorkerRestart, WorkerTypeOK
  <1> QED
    BY <1>1, <1>2, <1>3, <1>4, <1>5, <1>6

LEMMA CliTypes ==
    ASSUME CliTypeOK,
           \/ UNCHANGED cliVars
           \/ Watch \/ WatchFails
           \/ \E env \in Record : PollEnds(env)
    PROVE  CliTypeOK'
  BY DEF CliTypeOK, cliVars, Watch, WatchFails, PollEnds, Record

LEMMA BudgetTypes ==
    ASSUME left \in [Disturbance -> Nat],
           left' = left \/ \E d \in Disturbance : Spend(d)
    PROVE  left' \in [Disturbance -> Nat]
  BY DEF Spend

(***************************************************************************)
(* A step of the system is, for each component, one of its actions.  That  *)
(* the current step is not 0 while the saga is active is what types need   *)
(* from the invariant.                                                     *)
(***************************************************************************)
LEMMA TypeNext ==
    ASSUME TypeOK, SagaInv, [Next]_vars
    PROVE  TypeOK'
  <1> USE DEF TypeOK
  <1>1. CASE UNCHANGED vars
    BY <1>1, ApiTypes, ConductorTypes, WorkerTypes, CliTypes DEF vars
  <1>2. CASE ApiNext
    <2>1. ApiTypeOK'
      BY <1>2, ApiTypes
      DEF ApiNext, Create, CreateEnvSaga, PersistSagaId, StartEnvSaga,
          StartEnvSagaTooLate, SagaEnds, StoreFailure, CallFails, PutFails,
          StopApi, ExitApi, CrashApi, RestartApi, ProvState
    <2>2. ConductorTypeOK'
      BY <1>2, ConductorTypes
      DEF ApiNext, Create, CreateEnvSaga, PersistSagaId, StartEnvSaga,
          StartEnvSagaTooLate, SagaEnds, StoreFailure, CallFails, PutFails,
          StopApi, ExitApi, CrashApi, RestartApi
    <2>3. WorkerTypeOK'
      BY <1>2, WorkerTypes
      DEF ApiNext, Create, CreateEnvSaga, PersistSagaId, StartEnvSaga,
          StartEnvSagaTooLate, SagaEnds, StoreFailure, CallFails, PutFails,
          StopApi, ExitApi, CrashApi, RestartApi
    <2>4. CliTypeOK'
      BY <1>2, CliTypes
      DEF ApiNext, Create, CreateEnvSaga, PersistSagaId, StartEnvSaga,
          StartEnvSagaTooLate, SagaEnds, StoreFailure, CallFails, PutFails,
          StopApi, ExitApi, CrashApi, RestartApi
    <2>5. left' \in [Disturbance -> Nat]
      BY <1>2, BudgetTypes
      DEF ApiNext, Create, CreateEnvSaga, PersistSagaId, StartEnvSaga,
          StartEnvSagaTooLate, SagaEnds, StoreFailure, CallFails, PutFails,
          StopApi, ExitApi, CrashApi, RestartApi, Disturbance
    <2> QED
      BY <2>1, <2>2, <2>3, <2>4, <2>5
  <1>3. CASE ConductorNext
    <2>1. ApiTypeOK'
      BY <1>3, ApiTypes
      DEF ConductorNext, CallStep, StepReturns, StepUnreachable, StepTimesOut,
          SagaTimesOut, CrashConductor, Abort, ProvState
    <2>2. ConductorTypeOK'
      <3>1. saga \in Active => cur # 0
        BY DEF SagaInv, Active
      <3>2. call # NoCall => saga \in Active
        BY DEF SagaInv
      <3>3. ASSUME NEW h \in Handler, CallStep(h)
            PROVE  ConductorTypeOK'
        BY <3>3, ConductorTypes DEF CallStep
      <3>4. CASE StepReturns \/ StepUnreachable \/ StepTimesOut
        <4>1. saga \in Active /\ cur # 0 /\ (Advance \/ AttemptFails)
          BY <3>4, <3>1, <3>2 DEF StepReturns, StepUnreachable, StepTimesOut
        <4> QED
          BY <4>1, ConductorTypes
      <3>5. CASE SagaTimesOut
        <4>1. SagaTimeout /\ cur # 0
          BY <3>5, <3>1 DEF SagaTimesOut, SagaTimeout, Active
        <4> QED
          BY <4>1, ConductorTypes
      <3>6. CASE CrashConductor
        BY <3>6, ConductorTypes DEF CrashConductor
      <3>7. CASE Abort
        BY <3>7 DEF Abort, AbortSaga, ConductorTypeOK, Terminal
      <3> QED
        BY <1>3, <3>3, <3>4, <3>5, <3>6, <3>7 DEF ConductorNext
    <2>3. WorkerTypeOK'
      <3>1. ASSUME NEW h \in Handler, CallStep(h)
            PROVE  WorkerTypeOK'
        <4>1. saga \in Active
          BY <3>1 DEF CallStep, Issue
        <4>2. cur \in Step
          BY <4>1 DEF SagaInv, Active, Step, ConductorTypeOK, Registry
        <4> QED
          BY <3>1, <4>2, WorkerTypes DEF CallStep
      <3>2. CASE StepReturns
        BY <3>2, WorkerTypes DEF StepReturns, ConductorTypeOK
      <3> QED
        BY <1>3, <3>1, <3>2, WorkerTypes
        DEF ConductorNext, StepUnreachable, StepTimesOut, SagaTimesOut,
            CrashConductor, Abort
    <2>4. CliTypeOK'
      BY <1>3, CliTypes
      DEF ConductorNext, CallStep, StepReturns, StepUnreachable, StepTimesOut,
          SagaTimesOut, CrashConductor, Abort
    <2>5. left' \in [Disturbance -> Nat]
      BY <1>3, BudgetTypes
      DEF ConductorNext, CallStep, StepReturns, StepUnreachable, StepTimesOut,
          SagaTimesOut, CrashConductor, Abort, Disturbance
    <2> QED
      BY <2>1, <2>2, <2>3, <2>4, <2>5
  <1>4. CASE WorkerNext
    <2>1. ApiTypeOK'
      <3>1. \A h \in Handler : handler[h].env \in Record
        BY DEF WorkerTypeOK, Request
      <3> QED
        BY <1>4, <3>1, ApiTypes
        DEF WorkerNext, LoadEnv, SaveEnv, StepFails, AnswerLost, ReplyUnheard,
            CrashWorker, RestartWorker
    <2>2. ConductorTypeOK'
      BY <1>4, ConductorTypes
      DEF WorkerNext, LoadEnv, SaveEnv, StepFails, AnswerLost, ReplyUnheard,
          CrashWorker, RestartWorker
    <2>3. WorkerTypeOK'
      BY <1>4, WorkerTypes
      DEF WorkerNext, LoadEnv, SaveEnv, StepFails, AnswerLost, ReplyUnheard,
          CrashWorker, RestartWorker, ApiTypeOK
    <2>4. CliTypeOK'
      BY <1>4, CliTypes
      DEF WorkerNext, LoadEnv, SaveEnv, StepFails, AnswerLost, ReplyUnheard,
          CrashWorker, RestartWorker
    <2>5. left' \in [Disturbance -> Nat]
      BY <1>4, BudgetTypes
      DEF WorkerNext, LoadEnv, SaveEnv, StepFails, AnswerLost, ReplyUnheard,
          CrashWorker, RestartWorker, Disturbance
    <2> QED
      BY <2>1, <2>2, <2>3, <2>4, <2>5
  <1>5. CASE CliNext
    <2>1. ApiTypeOK' /\ ConductorTypeOK' /\ WorkerTypeOK'
      BY <1>5, ApiTypes, ConductorTypes, WorkerTypes
      DEF CliNext, Poll, Interrupt
    <2>2. CliTypeOK'
      BY <1>5, CliTypes DEF CliNext, Poll, Interrupt, ApiTypeOK
    <2>3. left' \in [Disturbance -> Nat]
      BY <1>5, BudgetTypes DEF CliNext, Poll, Interrupt, Disturbance
    <2> QED
      BY <2>1, <2>2, <2>3
  <1> QED
    BY <1>1, <1>2, <1>3, <1>4, <1>5 DEF Next

-----------------------------------------------------------------------------
(* The invariant that holds whatever happens.                              *)

LEMMA SafetyInit == Init => SafetyInv
  <1> SUFFICES ASSUME Init PROVE SafetyInv
    OBVIOUS
  <1>1. TypeOK
    BY TypeInit
  <1>2. /\ rec = NoRecord /\ prov = "none"
        /\ saga = "none" /\ cur = 0 /\ failedStep = 0 /\ call = NoCall
        /\ \A h \in Handler : handler[h].pc = "idle"
    BY DEF Init, ApiInit, ConductorInit, WorkerInit, IdleHandler
  <1>3. GoroutineInv /\ SagaInv /\ CallInv /\ HealthInv
    BY <1>2 DEF GoroutineInv, SagaInv, CallInv, HealthInv, Working, Started, Reach,
                Active, Health
  <1>4. HandlerInv /\ StartedSagaIsRecorded /\ NothingAhead /\ ReadyOnlyAtRegistry
    BY <1>2 DEF HandlerInv, StartedSagaIsRecorded, NothingAhead, ReadyOnlyAtRegistry,
                NoRecord
  <1> QED
    BY <1>1, <1>3, <1>4 DEF SafetyInv

\* What a handler is about to store after it ran its step is not ahead of the
\* saga either, and a health check that is answered 200 did not fail.
LEMMA EffectNotAhead ==
    ASSUME NEW r \in Request, NEW env \in Record, NEW reach \in 0..Registry,
           r.step <= reach, env.ids \subseteq 1..reach,
           env.status = "ready" => reach = Registry
    PROVE  /\ Effect(r, env).step = r.step /\ Effect(r, env).comp = r.comp
           /\ Effect(r, env).pc \in {"save", "ok", "error"}
           /\ Effect(r, env).pc = "save" =>
                 /\ Writes(r.step)
                 /\ Effect(r, env).env.saga = env.saga
                 /\ Effect(r, env).env.fail = env.fail
                 /\ Effect(r, env).env.ids \subseteq 1..reach
                 /\ Effect(r, env).env.status = "ready" => reach = Registry
           /\ Effect(r, env).pc = "ok" /\ r.step = Health /\ ~r.comp => ~env.fail
  <1>1. /\ Executed(r.step, env).saga = env.saga
        /\ Executed(r.step, env).fail = env.fail
        /\ Executed(r.step, env).ids \subseteq 1..reach
        /\ Executed(r.step, env).status = "ready" => reach = Registry
    BY DEF Executed, Provisioned, Committed, Request, Record, Resource, Registry
  <1>2. /\ Compensated(r.step, env).saga = env.saga
        /\ Compensated(r.step, env).fail = env.fail
        /\ Compensated(r.step, env).ids \subseteq 1..reach
        /\ Compensated(r.step, env).status = "ready" => reach = Registry
    BY DEF Compensated, Removed, Destroyed, Request, Record, Resource, Registry
  <1>3. r.step = Health => /\ ~IsAlreadyDone(r.step, env) /\ ~Writes(r.step)
                           /\ (ExecuteFails(r.step, env) <=> env.fail)
    BY DEF IsAlreadyDone, ExecuteFails, Writes, Resource, Health, Registry
  <1>4. CASE ~r.comp /\ IsAlreadyDone(r.step, env)
    BY <1>3, <1>4 DEF Effect, Request
  <1>5. CASE ~r.comp /\ ~IsAlreadyDone(r.step, env) /\ ExecuteFails(r.step, env)
    <2>1. Effect(r, env) = [r EXCEPT !.pc = "error"]
      BY <1>3, <1>5 DEF Effect, ExecuteFails, IsAlreadyDone
    <2> QED
      BY <2>1 DEF Request
  <1>6. CASE /\ r.comp \/ (~IsAlreadyDone(r.step, env) /\ ~ExecuteFails(r.step, env))
             /\ ~Writes(r.step)
    BY <1>3, <1>6 DEF Effect, Request
  <1>7. CASE /\ r.comp \/ (~IsAlreadyDone(r.step, env) /\ ~ExecuteFails(r.step, env))
             /\ Writes(r.step)
    BY <1>1, <1>2, <1>7 DEF Effect, Request
  <1>8. r.comp \in BOOLEAN
    BY DEF Request
  <1> QED
    BY <1>4, <1>5, <1>6, <1>7, <1>8 DEF IsAlreadyDone, ExecuteFails, Writes

(***************************************************************************)
(* Most steps disturb few of the conjuncts, and the provers see which; the *)
(* steps of a handler, and the answer to a call, are taken apart.          *)
(***************************************************************************)
LEMMA SafetyNext ==
    ASSUME SafetyInv, [Next]_vars
    PROVE  SafetyInv'
  <1> USE DEF SafetyInv, GoroutineInv, SagaInv, CallInv, HandlerInv, HealthInv,
              StartedSagaIsRecorded, NothingAhead, ReadyOnlyAtRegistry,
              Working, Started, Reach, Active, Terminal,
              TypeOK, ApiTypeOK, ConductorTypeOK, WorkerTypeOK, Record, Request,
              Step, Resource, Health, Registry, apiVars, conductorVars, workerVars
  <1>0. TypeOK'
    <2> HIDE DEF TypeOK, SagaInv
    <2> QED
      BY TypeNext
  <1>1. ASSUME UNCHANGED <<rec, prov, mem, saga, cur, failedStep, call, handler>>
        PROVE  SafetyInv'
    BY <1>0, <1>1
  <1>2. ASSUME NEW fail \in BOOLEAN, Create(fail)
        PROVE  SafetyInv'
    BY <1>0, <1>2 DEF Create, CreateEnv, Watch, NewEnv, NoRecord
  <1>3. CASE CreateEnvSaga
    BY <1>0, <1>3 DEF CreateEnvSaga, SagaCreated, CreateSaga
  <1>4. CASE PersistSagaId
    BY <1>0, <1>4 DEF PersistSagaId, RecordSaga
  <1>5. CASE StartEnvSaga
    BY <1>0, <1>5 DEF StartEnvSaga, SagaStarted, StartSaga
  <1>6. CASE StartEnvSagaTooLate
    BY <1>0, <1>6 DEF StartEnvSagaTooLate, ProvisionFails
  <1>7. CASE SagaEnds
    BY <1>0, <1>7 DEF SagaEnds, SagaReturned, ProvisionFails, NoRecord
  <1>8. CASE StoreFailure
    BY <1>0, <1>8 DEF StoreFailure, MarkFailed, NoRecord
  <1>9. CASE CallFails
    BY <1>0, <1>9 DEF CallFails, ProvisionFails, CreateSaga, StartSaga
  <1>10. CASE PutFails
    BY <1>0, <1>10 DEF PutFails, ProvisionFails, MarkFailedLost, NoRecord
  <1>11. CASE CrashApi
    BY <1>0, <1>11 DEF CrashApi, ApiCrash, NoRecord
  <1>12. ASSUME NEW h \in Handler, CallStep(h)
        PROVE  SafetyInv'
    BY <1>0, <1>12 DEF CallStep, Issue, Accept
  \* Handlers that fail, or are done with, need not be looked at again.
  <1>a. ASSUME rec' = rec, Reach' = Reach,
               \A h \in Handler :
                  \/ handler'[h] = handler[h]
                  \/ handler'[h].pc = "idle"
                  \/ /\ handler[h].pc # "idle" /\ handler'[h].pc = "error"
                     /\ handler'[h].step = handler[h].step
        PROVE  HandlerInv'
    <2> SUFFICES ASSUME NEW h \in Handler
                 PROVE  HandlerInv!(h)'
      OBVIOUS
    <2> HIDE DEF Reach, TypeOK, Request, Record, SagaInv, GoroutineInv, CallInv
    <2>1. CASE handler'[h] = handler[h]
      BY <1>a, <2>1
    <2>2. CASE handler'[h].pc \in {"idle", "error"}
      BY <1>a, <2>2
    <2> QED
      BY <1>a, <2>1, <2>2
  <1>13. CASE StepReturns
    <2>1. call # NoCall /\ call \in Handler /\ saga \in Active
      BY <1>13 DEF StepReturns
    <2>2. saga = "running" /\ cur = Health /\ handler[call].pc = "ok" => ~rec.fail
      BY <2>1
    <2>3. CASE handler[call].pc = "ok" /\ Advance
      <3>1. Reach' >= Reach /\ (Reach' # Reach => saga = "running" /\ Reach' = Reach + 1)
        BY <1>0, <2>1, <2>3 DEF Advance
      <3>2. HealthInv'
        BY <1>0, <1>13, <2>1, <2>2, <2>3 DEF StepReturns, Advance
      <3>3. HandlerInv'
        <4>1. /\ rec' = rec
              /\ \A h \in Handler : handler'[h] = handler[h] \/ handler'[h].pc = "idle"
          BY <1>13 DEF StepReturns, Reply, IdleHandler
        <4>2. Reach \in Int /\ Reach' \in Int /\ (Reach = Registry => Reach' = Registry)
          BY <1>0, <2>1, <2>3 DEF Advance
        <4>3. 1..Reach \subseteq 1..Reach'
          BY <3>1, <4>2
        <4> QED
          BY <3>1, <4>1, <4>2, <4>3
      <3> QED
        BY <1>0, <1>13, <2>1, <2>3, <3>2, <3>3 DEF StepReturns, Advance, Reply, IdleHandler
    <2>4. CASE handler[call].pc = "error" /\ AttemptFails
      <3>1. Reach' = Reach /\ call' = NoCall /\ saga' # "none"
        BY <2>1, <2>4 DEF AttemptFails, GiveUp
      <3>2. /\ UNCHANGED <<rec, prov, mem>>
            /\ \A h \in Handler : handler'[h] = handler[h] \/ handler'[h].pc = "idle"
        BY <1>13, <2>1 DEF StepReturns, Reply, IdleHandler
      <3>3. HandlerInv'
        BY <1>a, <3>1, <3>2
      <3>4. SagaInv' /\ CallInv'
        BY <2>1, <2>4, <3>1, <3>2 DEF AttemptFails, GiveUp
      <3>5. GoroutineInv' /\ HealthInv' /\ StartedSagaIsRecorded'
        BY <2>1, <3>1, <3>2
      <3>6. NothingAhead' /\ ReadyOnlyAtRegistry'
        BY <3>1, <3>2
      <3> HIDE DEF TypeOK, SagaInv, GoroutineInv, CallInv, HandlerInv, HealthInv,
                   StartedSagaIsRecorded, NothingAhead, ReadyOnlyAtRegistry
      <3> QED
        BY <1>0, <3>3, <3>4, <3>5, <3>6
    <2> QED
      BY <1>13, <2>3, <2>4 DEF StepReturns
  <1>b. ASSUME AttemptFails, saga \in Active, UNCHANGED <<rec, prov, mem, handler>>
        PROVE  SafetyInv'
    <2>1. Reach' = Reach /\ call' = NoCall /\ saga' # "none"
      BY <1>b DEF AttemptFails, GiveUp
    <2>2. HandlerInv'
      BY <1>a, <1>b, <2>1
    <2>3. SagaInv' /\ CallInv'
      BY <1>b, <2>1 DEF AttemptFails, GiveUp
    <2> QED
      BY <1>0, <1>b, <2>1, <2>2, <2>3
  <1>14. CASE StepUnreachable
    BY <1>14, <1>b DEF StepUnreachable
  <1>15. CASE StepTimesOut
    BY <1>15, <1>b DEF StepTimesOut
  <1>16. CASE SagaTimesOut
    BY <1>0, <1>16 DEF SagaTimesOut, SagaTimeout
  <1>17. CASE CrashConductor
    BY <1>0, <1>17 DEF CrashConductor, Crash, ProvisionFails
  <1>18. CASE Abort
    BY <1>0, <1>18 DEF Abort, AbortSaga
  <1>19. ASSUME NEW h \in Handler, LoadEnv(h)
        PROVE  SafetyInv'
    <2>1. UNCHANGED <<rec, api, prov, mem, saga, cur, failedStep, call>>
      BY <1>19 DEF LoadEnv
    <2>2. handler[h].pc = "load" /\ handler' = [handler EXCEPT ![h] = Effect(handler[h], rec)]
      BY <1>19 DEF LoadEnv, Load
    <2>3. /\ handler'[h].step = handler[h].step /\ handler'[h].comp = handler[h].comp
          /\ handler'[h].pc \in {"save", "ok", "error"}
          /\ handler'[h].pc = "save" =>
                /\ Writes(handler'[h].step)
                /\ handler'[h].env.saga = rec.saga /\ handler'[h].env.fail = rec.fail
                /\ handler'[h].env.ids \subseteq 1..Reach
                /\ handler'[h].env.status = "ready" => Reach = Registry
          /\ handler'[h].pc = "ok" /\ handler'[h].step = Health /\ ~handler'[h].comp
               => ~rec.fail
      <3>1. handler[h] \in Request /\ rec \in Record /\ Reach \in 0..Registry
        OBVIOUS
      <3>2. /\ handler[h].step <= Reach /\ rec.ids \subseteq 1..Reach
            /\ rec.status = "ready" => Reach = Registry
        BY <2>2
      <3>3. handler'[h] = Effect(handler[h], rec)
        BY <2>2
      <3> HIDE DEF Reach, Request, Record, Registry, Health
      <3> QED
        BY <3>1, <3>2, <3>3, EffectNotAhead
    <2>4. Started /\ rec.saga
      BY <2>2
    <2>5. HandlerInv'
      <3> SUFFICES ASSUME NEW g \in Handler
                   PROVE  HandlerInv!(g)'
        OBVIOUS
      <3>1. Reach' = Reach
        BY <2>1
      <3>2. g # h => handler'[g] = handler[g]
        BY <2>2
      <3>3. handler[h].pc # "idle"
        BY <2>2
      <3> HIDE DEF Reach, TypeOK, Request, Record, SagaInv, GoroutineInv, CallInv
      <3>4. CASE g = h
        BY <2>1, <2>3, <2>4, <3>1, <3>3, <3>4
      <3>5. CASE g # h
        BY <2>1, <3>1, <3>2, <3>5
      <3> QED
        BY <3>4, <3>5
    <2>6. SagaInv' /\ CallInv'
      BY <1>0, <2>1, <2>2, <2>3, <2>4
    <2> QED
      BY <1>0, <2>1, <2>5, <2>6
  <1>20. ASSUME NEW h \in Handler, SaveEnv(h) \/ AnswerLost(h)
        PROVE  SafetyInv'
    <2>1. /\ handler[h].pc = "save"
          /\ rec' = handler[h].env
          /\ \E pc \in {"ok", "error"} :
                handler' = [handler EXCEPT ![h].pc = pc, ![h].env = NoRecord]
          /\ UNCHANGED <<api, prov, mem, saga, cur, failedStep, call>>
      BY <1>20 DEF SaveEnv, AnswerLost, PutEnv, Saved, SavedUnacknowledged
    <2>2. Started /\ rec.saga /\ rec'.saga /\ rec'.fail = rec.fail
      BY <2>1
    <2>3. HandlerInv'
      <3> SUFFICES ASSUME NEW g \in Handler
                   PROVE  HandlerInv!(g)'
        OBVIOUS
      <3>1. Reach' = Reach
        BY <2>1
      <3>2. g # h => handler'[g] = handler[g]
        BY <2>1
      <3>3. /\ handler'[h].step = handler[h].step /\ handler'[h].pc \in {"ok", "error"}
            /\ handler[h].step # Health
        BY <2>1 DEF Writes
      <3> HIDE DEF Reach
      <3> QED
        BY <2>1, <2>2, <3>1, <3>2, <3>3
    <2>4. GoroutineInv' /\ SagaInv' /\ CallInv'
      BY <1>0, <2>1, <2>2
    <2>5. HealthInv' /\ StartedSagaIsRecorded' /\ NothingAhead' /\ ReadyOnlyAtRegistry'
      BY <1>0, <2>1, <2>2
    <2> QED
      BY <1>0, <2>3, <2>4, <2>5
  <1>21. ASSUME NEW h \in Handler, StepFails(h)
        PROVE  SafetyInv'
    <2>1. HandlerInv'
      BY <1>a, <1>21 DEF StepFails, RequestFails, conductorVars, apiVars
    <2>2. CallInv' /\ SagaInv'
      BY <1>0, <1>21 DEF StepFails, RequestFails
    <2> QED
      BY <1>0, <1>21, <2>1, <2>2 DEF StepFails
  <1>22. ASSUME NEW h \in Handler, ReplyUnheard(h)
        PROVE  SafetyInv'
    <2>1. /\ UNCHANGED <<rec, prov, mem, saga, cur, failedStep, call>>
          /\ handler' = [handler EXCEPT ![h] = IdleHandler] /\ h # call
      BY <1>22 DEF ReplyUnheard, Reply
    <2>2. HandlerInv'
      BY <1>a, <2>1 DEF IdleHandler
    <2>3. CallInv'
      BY <2>1 DEF IdleHandler
    <2>4. SagaInv'
      BY <2>1 DEF IdleHandler
    <2> QED
      BY <1>0, <2>1, <2>2, <2>3, <2>4
  <1>23. CASE CrashWorker
    BY <1>0, <1>23 DEF CrashWorker, WorkerCrash, IdleHandler
  <1>24. CASE \/ StopApi \/ ExitApi \/ RestartApi \/ RestartWorker
            \/ CliNext \/ UNCHANGED vars
    BY <1>1, <1>24
    DEF StopApi, ExitApi, RestartApi, RestartWorker, ApiStop, ApiExit, ApiRestart,
        WorkerRestart, CliNext, Poll, Interrupt, vars
  <1> QED
    BY <1>2, <1>3, <1>4, <1>5, <1>6, <1>7, <1>8, <1>9, <1>10, <1>11, <1>12, <1>13, <1>14, <1>15,
       <1>16, <1>17, <1>18, <1>19, <1>20, <1>21, <1>22, <1>23, <1>24
    DEF Next, ApiNext, ConductorNext, WorkerNext

-----------------------------------------------------------------------------
(***************************************************************************)
(* SafetyInv is an invariant: every reachable state has it.                *)
(***************************************************************************)
THEOREM SafetyInvariance == Spec => []SafetyInv
  BY SafetyInit, SafetyNext, PTL DEF Spec

(***************************************************************************)
(* Every variable keeps its type, whatever is disturbed and however often. *)
(***************************************************************************)
THEOREM TypeCorrectness == Spec => []TypeOK
  <1>1. SafetyInv => TypeOK
    BY DEF SafetyInv
  <1> QED
    BY <1>1, SafetyInvariance, PTL

(***************************************************************************)
(* A saga that has been started can be found from the stored record: no    *)
(* write of the goroutine's copy or of a handler's ever unsets its ID.     *)
(***************************************************************************)
THEOREM StartedSagaIsAlwaysRecorded == Spec => []StartedSagaIsRecorded
  <1>1. SafetyInv => StartedSagaIsRecorded
    BY DEF SafetyInv
  <1> QED
    BY <1>1, SafetyInvariance, PTL

(***************************************************************************)
(* The stored record is never ahead of its saga, though handlers that      *)
(* nobody waits for store their copies late.                               *)
(***************************************************************************)
THEOREM NothingIsEverAhead == Spec => []NothingAhead
  <1>1. SafetyInv => NothingAhead
    BY DEF SafetyInv
  <1> QED
    BY <1>1, SafetyInvariance, PTL

(***************************************************************************)
(* An environment is ready only if its saga got to the registry step: one  *)
(* whose health check fails never is, however its calls are retried.       *)
(***************************************************************************)
THEOREM ReadyComesLast == Spec => []ReadyOnlyAtRegistry
  <1>1. SafetyInv => ReadyOnlyAtRegistry
    BY DEF SafetyInv
  <1> QED
    BY <1>1, SafetyInvariance, PTL
=============================================================================
