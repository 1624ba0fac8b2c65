---------------------------- MODULE LedgerProofs ----------------------------
(***************************************************************************)
(* Provisioning implements EnvLedger while no call outlives its caller,    *)
(* for every number of resources, slots and retries and every budget that  *)
(* allows it.                                                              *)
(***************************************************************************)
EXTENDS AwaitedProofs

USE ResourceCountAssumption, ConductorAssumption, BudgetAssumption

\* What LedgerInv says of the variables, in the form the steps need.
LEMMA LedgerInvFacts ==
    ASSUME LedgerInv
    PROVE  /\ rec \in Record /\ mem \in Record
           /\ handler \in [Handler -> Request]
           /\ saga \in {"none", "pending"} \cup Active \cup Terminal
           /\ cur \in 0..Registry /\ failedStep \in 0..Registry
           /\ call \in Handler \cup {NoCall}
           /\ GoroutineInv /\ SagaInv /\ CallInv
           /\ SequentialInv /\ QuietInv /\ OneFailureInv
           /\ ForwardInv /\ BackwardInv /\ RestInv
           /\ OneHandlerInv /\ CopiesAreCurrent /\ StatusInv /\ AbortedInv
           /\ ReadyUnlessUndone /\ ReadyOnlyAtRegistry /\ StartedSagaIsRecorded
  BY DEF LedgerInv, AwaitedInv, SafetyInv, TypeOK, ApiTypeOK, ConductorTypeOK, WorkerTypeOK

\* The record, whatever the phase, while a step is at work or about to be.
LEMMA RecordAtWork ==
    ASSUME LedgerInv, saga \in Active \cup {"aborted"}
    PROVE  /\ \A s \in Resource \ {failedStep, cur} : s \in rec.ids <=> s < cur
           /\ failedStep # 0 => cur < failedStep
           /\ rec.ids \subseteq Resource
  <1>1. rec.ids \subseteq Resource /\ 0 \notin Resource
    BY LedgerInvFacts DEF Record, Resource
  <1>2. CASE saga = "running"
    BY <1>1, <1>2, LedgerInvFacts DEF ForwardInv, SagaInv
  <1>3. CASE saga = "compensating"
    BY <1>1, <1>3, LedgerInvFacts DEF BackwardInv, SagaInv
  <1>4. CASE saga = "aborted"
    BY <1>1, <1>4, LedgerInvFacts DEF AbortedInv
  <1> QED
    BY <1>2, <1>3, <1>4 DEF Active

(***************************************************************************)
(* A handler stores its copy: one resource, or the status, changes as the  *)
(* saga's current step says, or nothing does.                              *)
(***************************************************************************)
LEMMA StoredCopy ==
    ASSUME LedgerInv, NEW h \in Handler, SaveEnv(h) \/ AnswerLost(h)
    PROVE  /\ saga \in Active \cup {"aborted"}
           /\ cur \in Step \ {Health}
           /\ handler[h].pc = "save" /\ handler'[h].pc \in {"ok", "error"}
           /\ handler'[h].step = handler[h].step /\ handler'[h].comp = handler[h].comp
           /\ \A g \in Handler \ {h} : handler[g].pc = "idle" /\ handler'[g] = handler[g]
           /\ rec' = IF failedStep # 0 THEN Compensated(cur, rec) ELSE Executed(cur, rec)
           /\ UNCHANGED <<prov, mem, saga, cur, failedStep, call>>
  <1>1. /\ handler[h].pc = "save" /\ handler'[h].pc \in {"ok", "error"}
        /\ handler'[h].step = handler[h].step /\ handler'[h].comp = handler[h].comp
        /\ \A g \in Handler \ {h} : handler'[g] = handler[g]
        /\ rec' = handler[h].env
        /\ UNCHANGED <<prov, mem, saga, cur, failedStep, call>>
    <2>1. CASE SaveEnv(h)
      BY <2>1, LedgerInvFacts DEF SaveEnv, Saved, PutEnv, conductorVars, Request
    <2>2. CASE AnswerLost(h)
      BY <2>2, LedgerInvFacts
      DEF AnswerLost, SavedUnacknowledged, PutEnv, conductorVars, Request
    <2> QED
      BY <2>1, <2>2
  <1>2. /\ saga \in Active \cup {"aborted"}
        /\ handler[h].step = cur /\ handler[h].comp = (failedStep # 0)
        /\ \A g \in Handler \ {h} : handler[g].pc = "idle"
    BY <1>1, LedgerInvFacts DEF OneHandlerInv
  <1>3. handler[h].env = IF handler[h].comp THEN Compensated(cur, rec) ELSE Executed(cur, rec)
    BY <1>1, <1>2, LedgerInvFacts DEF CopiesAreCurrent
  <1>4. cur \in Step
    BY <1>2, LedgerInvFacts DEF Request
  <1>5. cur # Health
    BY <1>1, <1>2 DEF LedgerInv, AwaitedInv, SafetyInv, HandlerInv, Writes
  <1> QED
    BY <1>1, <1>2, <1>3, <1>4, <1>5


-----------------------------------------------------------------------------
LEMMA LedgerInvInit == CallsAreAwaited /\ Init => LedgerInv
  <1> SUFFICES ASSUME CallsAreAwaited, Init PROVE LedgerInv
    OBVIOUS
  <1>1. AwaitedInv
    BY AwaitedInit
  <1>2. /\ rec = NoRecord /\ prov = "none" /\ saga = "none"
        /\ \A h \in Handler : handler[h].pc = "idle"
    BY DEF Init, ApiInit, ConductorInit, WorkerInit, IdleHandler
  <1> QED
    BY <1>1, <1>2
    DEF LedgerInv, OneHandlerInv, CopiesAreCurrent, StatusInv, AbortedInv,
        ReadyUnlessUndone, NoRecord, Started

(***************************************************************************)
(* LedgerInv is inductive.                                                 *)
(***************************************************************************)
LEMMA LedgerInvNext ==
    ASSUME LedgerInv, [Next]_vars
    PROVE  LedgerInv'
  <1> DEFINE Rest == OneHandlerInv /\ CopiesAreCurrent /\ StatusInv /\ AbortedInv
                       /\ ReadyUnlessUndone
  <1>a. AwaitedInv /\ AwaitedInv'
    BY AwaitedNext DEF LedgerInv
  <1>q. ASSUME Rest' PROVE LedgerInv'
    BY <1>a, <1>q DEF LedgerInv
  <1>t. /\ rec \in Record /\ mem \in Record
        /\ handler \in [Handler -> Request]
        /\ saga \in {"none", "pending"} \cup Active \cup Terminal
        /\ cur \in 0..Registry /\ failedStep \in 0..Registry
        /\ call \in Handler \cup {NoCall}
    BY LedgerInvFacts
  <1>g. /\ GoroutineInv /\ SagaInv /\ CallInv
        /\ SequentialInv /\ QuietInv /\ OneFailureInv /\ RestInv
    BY LedgerInvFacts
  <1>r. OneHandlerInv /\ CopiesAreCurrent /\ StatusInv /\ AbortedInv /\ ReadyUnlessUndone
    BY LedgerInvFacts
  <1>s. StartedSagaIsRecorded
    BY LedgerInvFacts
  <1> USE DEF OneHandlerInv, CopiesAreCurrent, StatusInv, AbortedInv, ReadyUnlessUndone,
              AllIdle, Working, Started, Active, Terminal
  <1>1. ASSUME UNCHANGED <<rec, prov, saga, cur, failedStep, handler>>
        PROVE  Rest'
    BY <1>1, <1>r
  <1>2. ASSUME NEW fail \in BOOLEAN, Create(fail)
        PROVE  Rest'
    BY <1>2, <1>r, <1>g
    DEF Create, CreateEnv, NewEnv, conductorVars, workerVars, GoroutineInv, QuietInv
  <1>3. ASSUME CreateEnvSaga PROVE Rest'
    BY <1>3, <1>r, <1>g DEF CreateEnvSaga, SagaCreated, CreateSaga, workerVars
  <1>4. ASSUME PersistSagaId PROVE Rest'
    BY <1>4, <1>r, <1>g
    DEF PersistSagaId, RecordSaga, conductorVars, workerVars, GoroutineInv, QuietInv
  <1>5. ASSUME StartEnvSaga PROVE Rest'
    BY <1>5, <1>r, <1>g
    DEF StartEnvSaga, SagaStarted, StartSaga, workerVars, SagaInv, QuietInv
  <1>6. ASSUME StartEnvSagaTooLate \/ PutFails PROVE Rest'
    BY <1>6, <1>r, <1>g
    DEF StartEnvSagaTooLate, PutFails, ProvisionFails, MarkFailedLost,
        conductorVars, workerVars
  <1>7. ASSUME SagaEnds PROVE Rest'
    BY <1>7, <1>r, <1>g
    DEF SagaEnds, SagaReturned, ProvisionFails, conductorVars, workerVars
  <1>8. ASSUME StoreFailure PROVE Rest'
    BY <1>8, <1>r, <1>g
    DEF StoreFailure, MarkFailed, conductorVars, workerVars, GoroutineInv, QuietInv, Record
  <1>9. ASSUME CrashApi PROVE Rest'
    BY <1>9, <1>r, <1>g DEF CrashApi, ApiCrash, conductorVars, workerVars
  <1>10. ASSUME NEW h \in Handler, CallStep(h)
         PROVE  Rest'
    BY <1>10, <1>r, <1>t, <1>g
    DEF CallStep, Issue, Accept, apiVars, SagaInv, SequentialInv
  <1>11. ASSUME StepReturns \/ StepUnreachable PROVE Rest'
    <2>1. /\ saga \in Active /\ UNCHANGED <<rec, prov>>
          /\ \A h \in Handler : handler'[h].pc = "idle"
      BY <1>11, <1>r, <1>t, <1>g
      DEF StepReturns, StepUnreachable, Reply, IdleHandler, apiVars, workerVars,
          SagaInv, SequentialInv
    <2>2. Advance \/ AttemptFails
      BY <1>11 DEF StepReturns, StepUnreachable
    <2>3. saga' \notin {"none", "pending", "aborted"} /\ (failedStep # 0 => failedStep' # 0)
      BY <2>1, <2>2, <1>g, <1>t DEF Advance, AttemptFails, GiveUp, SagaInv
    <2> QED
      BY <2>1, <2>3, <1>r, <1>g
  <1>12. ASSUME Abort PROVE Rest'
    <2>1. /\ saga' = "aborted" /\ rec.saga
          /\ saga \in {"pending"} \cup Active
          /\ UNCHANGED <<rec, prov, handler, cur, failedStep>>
      BY <1>12, <1>t DEF Abort, AbortSaga, apiVars, workerVars
    <2>2. CASE saga = "pending"
      BY <2>1, <2>2, <1>r, <1>g DEF RestInv, SagaInv, Resource
    <2>3. CASE saga \in Active
      <3>1. prov \notin {"start", "failing"}
        BY <2>3, <1>g DEF QuietInv
      <3>2. /\ \A s \in Resource \ {failedStep, cur} : s \in rec.ids <=> s < cur
            /\ failedStep # 0 => cur < failedStep
        BY <2>3, RecordAtWork
      <3> QED
        BY <2>1, <3>1, <3>2, <1>r
    <2> QED
      BY <2>1, <2>2, <2>3
  <1>13. ASSUME NEW h \in Handler, LoadEnv(h)
         PROVE  Rest'
    <2> DEFINE e == Effect(handler[h], rec)
    <2>1. /\ handler' = [handler EXCEPT ![h] = e]
          /\ handler[h] \in Request /\ handler[h].pc = "load"
          /\ UNCHANGED <<rec, prov, saga, cur, failedStep>>
      BY <1>13, <1>t DEF LoadEnv, Load, apiVars, conductorVars
    <2>2. handler'[h] = e /\ \A k \in Handler \ {h} : handler'[k] = handler[k]
      BY <2>1, <1>t
    <2>3. /\ e.step = handler[h].step /\ e.comp = handler[h].comp
          /\ e.pc = "save" => e.env = IF e.comp THEN Compensated(e.step, rec)
                                               ELSE Executed(e.step, rec)
      BY <2>1, <1>t, EffectOfStep DEF Effect, Request
    <2> HIDE DEF e
    <2> QED
      BY <2>1, <2>2, <2>3, <1>r
  <1>14. ASSUME NEW h \in Handler, SaveEnv(h) \/ AnswerLost(h)
         PROVE  Rest'
    <2>1. /\ saga \in Active \cup {"aborted"}
          /\ cur \in Step \ {Health}
          /\ handler[h].pc = "save" /\ handler'[h].pc \in {"ok", "error"}
          /\ handler'[h].step = handler[h].step /\ handler'[h].comp = handler[h].comp
          /\ \A g \in Handler \ {h} : handler[g].pc = "idle" /\ handler'[g] = handler[g]
          /\ rec' = IF failedStep # 0 THEN Compensated(cur, rec) ELSE Executed(cur, rec)
          /\ UNCHANGED <<prov, mem, saga, cur, failedStep, call>>
      BY <1>14, StoredCopy
    <2>2. /\ Executed(cur, rec).ids = IF cur \in Resource THEN rec.ids \cup {cur} ELSE rec.ids
          /\ Executed(cur, rec).status = IF cur = Registry THEN "ready" ELSE rec.status
          /\ Compensated(cur, rec).ids = IF cur \in Resource THEN rec.ids \ {cur} ELSE rec.ids
          /\ Compensated(cur, rec).status = IF cur = Registry THEN "destroyed" ELSE rec.status
      BY <2>1, <1>t, EffectOnRecord
    <2>3. /\ \A s \in Resource \ {failedStep, cur} : s \in rec.ids <=> s < cur
          /\ failedStep # 0 => cur < failedStep
          /\ rec.ids \subseteq Resource
      BY <2>1, RecordAtWork
    <2>4. OneHandlerInv' /\ CopiesAreCurrent'
      BY <2>1, <1>r
    <2>5. prov \in {"waiting", "ended"}
      BY <2>1, <1>g, <1>a DEF QuietInv, AwaitedInv, SafetyInv, TypeOK, ApiTypeOK, ProvState
    <2>6. StatusInv'
      <3>1. rec'.status \in {rec.status, "ready"}
        BY <2>1, <2>2, <2>3, <1>t
      <3>2. rec.status # "absent"
        BY <2>5, <1>r
      <3> QED
        BY <2>1, <2>5, <3>1, <3>2, <1>r
    <2>7. AbortedInv'
      <3>1. \A s \in Resource \ {failedStep, cur} : s \in rec'.ids <=> s < cur
        BY <2>1, <2>2, <2>3
      <3> QED
        BY <2>1, <2>3, <2>5, <3>1
    <2>8. ReadyUnlessUndone'
      <3> SUFFICES ASSUME rec'.status = "ready", failedStep = 0
                   PROVE  rec'.ids = Resource
        BY <2>1
      <3>1. CASE cur = Registry
        <4>1. \A s \in Resource : s \in rec.ids
          BY <2>3, <3>1 DEF Resource, Registry
        <4> QED
          BY <2>1, <2>2, <2>3, <3>1, <4>1
      <3>2. CASE cur # Registry
        <4>1. rec.ids = Resource
          BY <2>1, <2>2, <3>2, <1>r
        <4> QED
          BY <2>1, <2>2, <4>1
      <3> QED
        BY <3>1, <3>2
    <2> QED
      BY <2>4, <2>6, <2>7, <2>8
  <1>15. ASSUME NEW h \in Handler, StepFails(h) \/ ReplyUnheard(h)
         PROVE  Rest'
    <2>1. /\ UNCHANGED <<rec, prov, saga, cur, failedStep>>
          /\ handler'[h].pc \in {"idle", "error"}
          /\ handler'[h].pc = "error" => /\ handler[h].pc # "idle"
                                         /\ handler'[h].step = handler[h].step
                                         /\ handler'[h].comp = handler[h].comp
          /\ \A k \in Handler \ {h} : handler'[k] = handler[k]
      BY <1>15, <1>t
      DEF StepFails, RequestFails, ReplyUnheard, Reply, IdleHandler, apiVars, conductorVars,
          Request
    <2> QED
      BY <2>1, <1>r
  <1>16. ASSUME CrashWorker PROVE Rest'
    BY <1>16, <1>r, <1>t
    DEF CrashWorker, WorkerCrash, IdleHandler, apiVars, conductorVars
  <1>17. ASSUME RestartApi \/ RestartWorker \/ CliNext \/ UNCHANGED vars
         PROVE  Rest'
    <2>1. UNCHANGED <<rec, prov, saga, cur, failedStep, handler>>
      BY <1>17
      DEF RestartApi, RestartWorker, ApiRestart, WorkerRestart, CliNext, Poll, Interrupt,
          vars, apiVars, conductorVars, workerVars
    <2> QED
      BY <1>1, <2>1
  <1> HIDE DEF Rest
  <1> QED
    BY <1>q, <1>2, <1>3, <1>4, <1>5, <1>6, <1>7, <1>8, <1>9, <1>10, <1>11, <1>12, <1>13,
       <1>14, <1>15, <1>16, <1>17, <1>a, NoAbandons
    DEF Next, ApiNext, ConductorNext, WorkerNext

-----------------------------------------------------------------------------
(* The refinement.                                                         *)

\* The two modules mean the same steps and resources.
LEMMA LedgerSteps == Ledger!Resource = Resource /\ Ledger!Step = Step
  BY DEF Ledger!Resource, Resource, Ledger!Step, Step, Ledger!Registry, Registry

\* The record appears when the ledger is empty.
LEMMA InitRefines == Init => Ledger!LedgerInit
  BY DEF Init, ApiInit, ConductorInit, NoRecord, Ledger!LedgerInit, LedgerPhase

(***************************************************************************)
(* The conductor goes on: the saga moves to another step, or it ends, with *)
(* the record in the state that its end promises.                          *)
(***************************************************************************)
LEMMA AnswerRefines ==
    ASSUME LedgerInv, LedgerInv', StepReturns \/ StepUnreachable
    PROVE  [Ledger!LedgerNext]_Ledger!ledgerVars
  <1>t. /\ saga \in {"none", "pending"} \cup Active \cup Terminal
        /\ cur \in 0..Registry /\ failedStep \in 0..Registry
        /\ SagaInv /\ ForwardInv
    BY LedgerInvFacts
  <1>1. /\ saga \in Active /\ rec' = rec
        /\ \/ Advance /\ handler[call].pc = "ok" /\ call # NoCall
           \/ AttemptFails
    BY <1>t DEF StepReturns, StepUnreachable, apiVars, SagaInv
  <1>2. CASE UNCHANGED <<failedStep, LedgerPhase>>
    BY <1>1, <1>2 DEF Ledger!ledgerVars
  <1>3. CASE saga = "running" /\ Advance /\ handler[call].pc = "ok" /\ call # NoCall
    <2>1. CASE cur = Registry
      <3>1. rec.status = "ready" /\ failedStep' = failedStep
        BY <1>3, <2>1, <1>t DEF ForwardInv, Advance
      <3>2. LedgerPhase = "forward" /\ LedgerPhase' = "delivered"
        BY <1>3, <2>1 DEF LedgerPhase, Advance
      <3> QED
        BY <1>1, <3>1, <3>2 DEF Ledger!LedgerNext, Ledger!Deliver
    <2>2. CASE cur # Registry
      BY <1>2, <1>3, <2>2 DEF LedgerPhase, Advance
    <2> QED
      BY <2>1, <2>2
  <1>4. CASE saga = "compensating" /\ Advance
    <2>1. CASE cur = 1
      <3>1. failedStep' = failedStep /\ saga' = "failed"
        BY <1>4, <2>1 DEF Advance
      <3>2. rec.ids \subseteq {failedStep}
        BY <1>1, <3>1, LedgerInvFacts DEF LedgerInv, AwaitedInv, RestInv
      <3>3. LedgerPhase = "undoing" /\ LedgerPhase' = "clean"
        BY <1>4, <3>1 DEF LedgerPhase
      <3> QED
        BY <1>1, <3>1, <3>2, <3>3 DEF Ledger!LedgerNext, Ledger!RolledBack
    <2>2. CASE cur # 1
      BY <1>2, <1>4, <2>2 DEF LedgerPhase, Advance
    <2> QED
      BY <2>1, <2>2
  <1>5. CASE AttemptFails /\ tries < MaxRetries[cur]
    BY <1>2, <1>5 DEF AttemptFails, LedgerPhase
  <1>6. CASE saga = "running" /\ AttemptFails /\ ~(tries < MaxRetries[cur])
    <2>1. /\ failedStep' = cur /\ cur \in Step
          /\ saga' = IF cur = 1 THEN "failed" ELSE "compensating"
      BY <1>6, <1>t DEF AttemptFails, GiveUp, SagaInv, Step
    <2>2. /\ rec.ids \subseteq Resource
          /\ \A s \in Resource \ {cur} : s \in rec.ids <=> s < cur
      BY <1>6, <1>t, RecordAtWork DEF ForwardInv, Active
    <2>3. rec.ids \ {cur} = Resource \cap 1..(cur - 1)
      BY <2>1, <2>2 DEF Step, Resource, Registry
    <2>4. LedgerPhase = "forward" /\ LedgerPhase' = IF cur = 1 THEN "clean" ELSE "undoing"
      BY <1>6, <2>1 DEF LedgerPhase
    <2>5. Ledger!Fail(cur)
      BY <1>1, <2>1, <2>3, <2>4, LedgerSteps DEF Ledger!Fail
    <2> QED
      BY <2>1, <2>5, LedgerSteps DEF Ledger!LedgerNext
  <1>7. CASE saga = "compensating" /\ AttemptFails /\ ~(tries < MaxRetries[cur])
    <2>1. failedStep' = failedStep /\ saga' = "compensation_failed"
      BY <1>7 DEF AttemptFails, GiveUp
    <2>2. LedgerPhase = "undoing" /\ LedgerPhase' = "stuck"
      BY <1>7, <2>1 DEF LedgerPhase
    <2> QED
      BY <1>1, <2>1, <2>2 DEF Ledger!LedgerNext, Ledger!RolledBack
  <1> QED
    BY <1>1, <1>3, <1>4, <1>5, <1>6, <1>7 DEF Active

(***************************************************************************)
(* A handler's store: the resource of the current step appears or is       *)
(* undone, the status is committed, or the record stays as it was.         *)
(***************************************************************************)
LEMMA StoreRefines ==
    ASSUME LedgerInv, NEW h \in Handler, SaveEnv(h) \/ AnswerLost(h)
    PROVE  [Ledger!LedgerNext]_Ledger!ledgerVars
  <1>t. /\ rec \in Record /\ cur \in 0..Registry /\ failedStep \in 0..Registry
        /\ SagaInv /\ QuietInv /\ StatusInv /\ ReadyOnlyAtRegistry /\ OneFailureInv
    BY LedgerInvFacts
  <1>1. /\ saga \in Active \cup {"aborted"}
        /\ cur \in Step \ {Health}
        /\ handler[h].pc = "save"
        /\ rec' = IF failedStep # 0 THEN Compensated(cur, rec) ELSE Executed(cur, rec)
        /\ UNCHANGED <<prov, saga, failedStep>>
    BY StoredCopy
  <1>2. /\ Executed(cur, rec).ids = IF cur \in Resource THEN rec.ids \cup {cur} ELSE rec.ids
        /\ Executed(cur, rec).status = IF cur = Registry THEN "ready" ELSE rec.status
        /\ Compensated(cur, rec).ids = IF cur \in Resource THEN rec.ids \ {cur} ELSE rec.ids
        /\ Compensated(cur, rec).status = IF cur = Registry THEN "destroyed" ELSE rec.status
    BY <1>1, <1>t, EffectOnRecord
  <1>3. /\ \A s \in Resource \ {failedStep, cur} : s \in rec.ids <=> s < cur
        /\ failedStep # 0 => cur < failedStep
        /\ rec.ids \subseteq Resource
    BY <1>1, RecordAtWork
  <1>4. LedgerPhase' = LedgerPhase
    BY <1>1 DEF LedgerPhase
  <1>5. cur \in Resource \/ cur = Registry
    <2>1. cur \in Step \ {Health}
      BY <1>1
    <2> QED
      BY <2>1, ResourceCountAssumption DEF Step, Resource, Health, Registry
  <1>6. CASE failedStep # 0
    <2>1. cur \in Resource /\ cur < failedStep
      BY <1>3, <1>5, <1>6, <1>t
    <2>2. rec'.status = rec.status /\ rec'.ids = rec.ids \ {cur}
      BY <1>1, <1>2, <1>6, <2>1 DEF Resource, Registry
    <2>3. CASE cur \notin rec.ids
      BY <1>1, <1>4, <2>2, <2>3 DEF Ledger!ledgerVars
    <2>4. CASE cur \in rec.ids
      <3>1. LedgerPhase \in {"undoing", "aborted"}
        BY <1>1, <1>6, <1>t DEF LedgerPhase, Active, SagaInv
      <3>2. rec.ids \ {failedStep} = 1..cur
        BY <1>3, <2>1, <2>4 DEF Resource
      <3>3. Ledger!Undo(cur)
        BY <1>1, <1>4, <1>6, <2>2, <3>1, <3>2 DEF Ledger!Undo
      <3> QED
        BY <2>1, <3>3, LedgerSteps DEF Ledger!LedgerNext
    <2> QED
      BY <2>3, <2>4
  <1>7. CASE failedStep = 0
    <2>1. LedgerPhase \in {"forward", "aborted"}
      BY <1>1, <1>7, <1>t DEF LedgerPhase, Active, SagaInv
    <2>2. rec.status # "failed"
      BY <1>1, <1>t DEF QuietInv, AllIdle
    <2>3. rec.status # "absent"
      BY <1>1, <1>t DEF QuietInv, AllIdle, StatusInv
    <2>4. rec.status \in {"provisioning", "ready"}
      BY <1>t, <2>2, <2>3 DEF Record, Status, StatusInv
    <2>5. rec.status = "ready" => cur = Registry
      BY <1>7, <1>t DEF ReadyOnlyAtRegistry, Reach
    <2>6. CASE cur \in Resource
      <3>1. rec.status = "provisioning" /\ rec'.status = "provisioning"
            /\ rec'.ids = rec.ids \cup {cur}
        BY <1>1, <1>2, <1>7, <2>4, <2>5, <2>6 DEF Resource, Registry
      <3>2. CASE cur \in rec.ids
        BY <1>1, <1>4, <3>1, <3>2 DEF Ledger!ledgerVars
      <3>3. CASE cur \notin rec.ids
        <4>1. rec.ids = 1..(cur - 1)
          <5>1. \A s : s \in rec.ids <=> s \in Resource /\ s < cur
            BY <1>3, <1>7, <2>6, <3>3 DEF Resource
          <5>2. \A s : s \in 1..(cur - 1) <=> s \in Resource /\ s < cur
            BY <2>6 DEF Resource
          <5> QED
            BY <5>1, <5>2
        <4>2. Ledger!Provision(cur)
          BY <1>1, <1>4, <1>7, <2>1, <3>1, <4>1 DEF Ledger!Provision
        <4> QED
          BY <2>6, <4>2, LedgerSteps DEF Ledger!LedgerNext
      <3> QED
        BY <3>2, <3>3
    <2>7. CASE cur = Registry
      <3>1. rec'.status = "ready" /\ rec'.ids = rec.ids
        BY <1>1, <1>2, <1>7, <2>7 DEF Resource, Registry
      <3>2. CASE rec.status = "ready"
        BY <1>1, <1>4, <3>1, <3>2 DEF Ledger!ledgerVars
      <3>3. CASE rec.status = "provisioning"
        <4>1. \A s \in Resource : s \in rec.ids
          BY <1>3, <1>7, <2>7 DEF Resource, Registry
        <4>2. rec.ids = Resource
          BY <1>3, <4>1
        <4> QED
          BY <1>1, <1>4, <1>7, <2>1, <3>1, <3>3, <4>2, LedgerSteps
          DEF Ledger!LedgerNext, Ledger!Commit
      <3> QED
        BY <2>4, <3>2, <3>3
    <2> QED
      BY <1>5, <2>6, <2>7
  <1> QED
    BY <1>6, <1>7

LEMMA NextRefines ==
    ASSUME LedgerInv, LedgerInv', [Next]_vars
    PROVE  [Ledger!LedgerNext]_Ledger!ledgerVars
  <1>t. /\ rec \in Record /\ mem \in Record
        /\ saga \in {"none", "pending"} \cup Active \cup Terminal
        /\ GoroutineInv /\ SagaInv /\ QuietInv /\ OneFailureInv /\ RestInv
        /\ StatusInv /\ AbortedInv
    BY LedgerInvFacts
  <1>1. CASE UNCHANGED <<rec, saga, failedStep>>
    BY <1>1 DEF Ledger!ledgerVars, LedgerPhase
  <1>2. ASSUME NEW fail \in BOOLEAN, Create(fail)
        PROVE  Ledger!Register
    <2>1. /\ rec = NoRecord /\ rec' = NewEnv(fail) /\ prov = "none"
          /\ UNCHANGED <<saga, failedStep>>
      BY <1>2 DEF Create, CreateEnv, conductorVars
    <2>2. LedgerPhase = "idle" /\ LedgerPhase' = "idle"
      BY <2>1, <1>t DEF LedgerPhase, GoroutineInv
    <2> QED
      BY <2>1, <2>2 DEF NoRecord, NewEnv, Ledger!Register
  <1>3. CASE CreateEnvSaga
    <2>1. UNCHANGED <<rec, failedStep>> /\ saga' \in {saga, "pending"}
          /\ (saga' # saga => saga = "none")
      BY <1>3 DEF CreateEnvSaga, SagaCreated, CreateSaga
    <2>2. LedgerPhase' = LedgerPhase
      BY <2>1 DEF LedgerPhase
    <2> QED
      BY <2>1, <2>2 DEF Ledger!ledgerVars
  <1>4. CASE PersistSagaId
    <2>1. /\ prov = "record" /\ rec' = mem /\ UNCHANGED <<saga, failedStep>>
      BY <1>4 DEF PersistSagaId, RecordSaga, conductorVars
    <2>2. mem.status = rec.status /\ mem.ids = {} /\ rec.ids = {}
      BY <2>1, <1>t DEF GoroutineInv, Working, OneFailureInv, StatusInv, RestInv
    <2> QED
      BY <2>1, <2>2 DEF Ledger!ledgerVars, LedgerPhase
  <1>5. CASE StartEnvSaga
    <2>1. /\ prov = "start" /\ saga = "pending" /\ saga' = "running"
          /\ UNCHANGED <<rec, failedStep>>
      BY <1>5 DEF StartEnvSaga, SagaStarted, StartSaga
    <2>2. rec.status = "provisioning"
      BY <2>1, <1>t DEF OneFailureInv
    <2>3. LedgerPhase = "idle" /\ LedgerPhase' = "forward"
      BY <2>1 DEF LedgerPhase
    <2> QED
      BY <2>1, <2>2, <2>3 DEF Ledger!LedgerNext, Ledger!Begin
  <1>6. CASE StoreFailure
    <2>1. /\ prov = "failing" /\ rec' = [mem EXCEPT !.status = "failed"]
          /\ UNCHANGED <<saga, failedStep>>
      BY <1>6 DEF StoreFailure, MarkFailed, conductorVars
    <2>2. rec'.status = "failed" /\ rec'.ids = {}
      BY <2>1, <1>t DEF GoroutineInv, Working, Record
    <2>3. rec.status # "absent"
      BY <2>1, <1>t DEF StatusInv
    <2>4. saga \notin Active \cup {"completed"}
      BY <2>1, <1>t DEF QuietInv
    <2>5. LedgerPhase \in {"idle", "clean", "stuck", "aborted"} /\ LedgerPhase' = LedgerPhase
      BY <2>1, <2>4, <1>t DEF LedgerPhase, Active, Terminal
    <2>6. LedgerPhase = "aborted" => rec.ids = {}
      BY <2>1, <2>4, <1>t DEF LedgerPhase, Active, Terminal, AbortedInv
    <2> QED
      BY <2>1, <2>2, <2>3, <2>5, <2>6 DEF Ledger!LedgerNext, Ledger!MarkFailed
  <1>7. CASE Abort
    <2>1. /\ rec.saga /\ saga' = "aborted" /\ saga \in {"pending"} \cup Active
          /\ UNCHANGED <<rec, failedStep>>
      BY <1>7, <1>t DEF Abort, AbortSaga, apiVars, Terminal
    <2>2. rec.status # "absent"
      BY <2>1, <1>t DEF StatusInv, GoroutineInv
    <2>3. LedgerPhase \in {"idle", "forward", "undoing"} /\ LedgerPhase' = "aborted"
      BY <2>1 DEF LedgerPhase, Active
    <2> QED
      BY <2>1, <2>2, <2>3 DEF Ledger!LedgerNext, Ledger!Abort
  <1>8. CASE StepReturns \/ StepUnreachable
    BY <1>8, AnswerRefines
  <1>9. ASSUME NEW h \in Handler, SaveEnv(h) \/ AnswerLost(h)
        PROVE  [Ledger!LedgerNext]_Ledger!ledgerVars
    BY <1>9, StoreRefines
  <1>10. CASE \/ StartEnvSagaTooLate \/ SagaEnds \/ PutFails \/ CrashApi \/ RestartApi
              \/ \E h \in Handler : \/ CallStep(h) \/ LoadEnv(h) \/ StepFails(h)
                                    \/ ReplyUnheard(h)
              \/ CrashWorker \/ RestartWorker \/ CliNext \/ UNCHANGED vars
    <2>1. UNCHANGED <<rec, saga, failedStep>>
      BY <1>10
      DEF StartEnvSagaTooLate, SagaEnds, SagaReturned, ProvisionFails, PutFails,
          MarkFailedLost, CrashApi, ApiCrash, RestartApi, ApiRestart, CallStep, Issue,
          LoadEnv, StepFails, ReplyUnheard, CrashWorker, RestartWorker, CliNext, Poll,
          Interrupt, vars, apiVars, conductorVars
    <2> QED
      BY <1>1, <2>1
  <1>11. ~CallFails /\ ~StopApi /\ ~ExitApi /\ ~StepTimesOut /\ ~SagaTimesOut
         /\ ~CrashConductor
    BY NoAbandons DEF LedgerInv
  <1>12. (\E fail \in BOOLEAN : Create(fail)) => Ledger!LedgerNext
    BY <1>2 DEF Ledger!LedgerNext
  <1> QED
    BY <1>3, <1>4, <1>5, <1>6, <1>7, <1>8, <1>9, <1>10, <1>11, <1>12
    DEF Next, ApiNext, ConductorNext, WorkerNext

-----------------------------------------------------------------------------
(***************************************************************************)
(* While calls are awaited, one handler at a time is busy, with a copy of  *)
(* the record that nobody else changes, also after the saga was aborted.   *)
(***************************************************************************)
THEOREM LedgerInvariance ==
    ASSUME CallsAreAwaited
    PROVE  Spec => []LedgerInv
  <1>1. Init => LedgerInv
    BY LedgerInvInit
  <1>2. LedgerInv /\ [Next]_vars => LedgerInv'
    BY LedgerInvNext
  <1> QED
    BY <1>1, <1>2, PTL DEF Spec

(***************************************************************************)
(* The load and the store of a step are as good as one: what a handler is  *)
(* about to store is what its step makes of the record that is there.      *)
(***************************************************************************)
THEOREM CopiesAreAlwaysCurrent ==
    ASSUME CallsAreAwaited
    PROVE  Spec => []CopiesAreCurrent
  <1>1. LedgerInv => CopiesAreCurrent
    BY DEF LedgerInv
  <1> QED
    BY <1>1, LedgerInvariance, PTL

(***************************************************************************)
(* However often its steps are repeated, and also if it is aborted, an     *)
(* environment is marked ready only with all its resources.                *)
(***************************************************************************)
THEOREM ReadyIsWhole ==
    ASSUME CallsAreAwaited
    PROVE  Spec => []ReadyUnlessUndone
  <1>1. LedgerInv => ReadyUnlessUndone
    BY DEF LedgerInv
  <1> QED
    BY <1>1, LedgerInvariance, PTL

(***************************************************************************)
(* forge-api, the conductor and forge-worker together keep the ledger of   *)
(* EnvLedger: every step of theirs is one of its, or changes nothing it    *)
(* knows of.                                                               *)
(***************************************************************************)
THEOREM ProvisioningKeepsLedger ==
    ASSUME CallsAreAwaited
    PROVE  Spec => LedgerKept
  <1>1. Init => Ledger!LedgerInit
    BY InitRefines
  <1>2. LedgerInv /\ LedgerInv' /\ [Next]_vars => [Ledger!LedgerNext]_Ledger!ledgerVars
    BY NextRefines
  <1> QED
    BY <1>1, <1>2, LedgerInvariance, PTL DEF Spec, LedgerKept, Ledger!LedgerSpec
=============================================================================
