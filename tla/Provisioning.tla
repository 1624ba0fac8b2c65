---------------------------- MODULE Provisioning ----------------------------
(***************************************************************************)
(* The provisioning of one environment: forge create, forge-api,           *)
(* saga-conductor and forge-worker together.  Environments share no state  *)
(* (the store is keyed by ID, a saga belongs to one environment), so one   *)
(* stands for all of them.                                                 *)
(*                                                                         *)
(* What disturbs a run - failures, and requests of an operator - happens   *)
(* at most Budget[d] times for each kind d.                                *)
(***************************************************************************)
EXTENDS ForgeApi, Conductor, ForgeCli

CONSTANT Budget

Disturbance == {
    "workerCrash",     \* forge-worker dies, or is terminated
    "apiCrash",        \* forge-api is killed
    "apiStop",         \* forge-api gets SIGTERM
    "conductorCrash",  \* the conductor dies and resumes its sagas
    "stepTimeout",     \* a step takes longer than its timeout_seconds
    "sagaTimeout",     \* the saga takes longer than saga_timeout_seconds
    "workerIo",        \* a step, or a request of it to forge-api, fails
    "apiIo",           \* a store.Put of forge-api fails
    "rpc",             \* a call from forge-api to the conductor fails
    "abort", "interrupt" }   \* requests of a user

ASSUME BudgetAssumption == Budget \in [Disturbance -> Nat]

VARIABLE left   \* what is left of the budget

vars == <<apiVars, conductorVars, workerVars, cliVars, left>>

TypeOK ==
    /\ ApiTypeOK
    /\ ConductorTypeOK
    /\ WorkerTypeOK
    /\ CliTypeOK
    /\ left \in [Disturbance -> Nat]

Init ==
    /\ ApiInit
    /\ ConductorInit
    /\ WorkerInit
    /\ CliInit
    /\ left = Budget

Spend(d) == left[d] > 0 /\ left' = [left EXCEPT ![d] = @ - 1]

-----------------------------------------------------------------------------
(* forge create, and the provisioning goroutine of forge-api.              *)

Create(fail) ==
    /\ CreateEnv(fail) /\ Watch
    /\ UNCHANGED <<conductorVars, workerVars, left>>

CreateEnvSaga ==
    /\ SagaCreated /\ CreateSaga
    /\ UNCHANGED <<workerVars, cliVars, left>>

PersistSagaId ==
    /\ RecordSaga
    /\ UNCHANGED <<conductorVars, workerVars, cliVars, left>>

StartEnvSaga ==
    /\ SagaStarted /\ StartSaga
    /\ UNCHANGED <<workerVars, cliVars, left>>

\* StartEnvSaga finds the saga over already: it was aborted while pending.
StartEnvSagaTooLate ==
    /\ saga \in Terminal /\ ProvisionFails("start")
    /\ UNCHANGED <<conductorVars, workerVars, cliVars, left>>

\* StartEnvSaga returns.  What it does for a dead-lettered saga is not known
\* here: it may return the execution or an error.
SagaEnds ==
    /\ saga \in Terminal
    /\ \/ SagaReturned(saga)
       \/ saga = "compensation_failed" /\ ProvisionFails("waiting")
    /\ UNCHANGED <<conductorVars, workerVars, cliVars, left>>

StoreFailure ==
    /\ MarkFailed
    /\ UNCHANGED <<conductorVars, workerVars, cliVars, left>>

\* A call to the conductor fails, because its context was cancelled or for
\* another reason, before or after it took effect.
CallFails ==
    /\ IF api = "stopping" THEN UNCHANGED left ELSE Spend("rpc")
    /\ \/ ProvisionFails("create") /\ (CreateSaga \/ UNCHANGED conductorVars)
       \/ ProvisionFails("start")  /\ (StartSaga \/ UNCHANGED conductorVars)
       \/ ProvisionFails("waiting") /\ UNCHANGED conductorVars
    /\ UNCHANGED <<workerVars, cliVars>>

\* A store.Put of the goroutine fails.
PutFails ==
    /\ Spend("apiIo")
    /\ ProvisionFails("record") \/ MarkFailedLost
    /\ UNCHANGED <<conductorVars, workerVars, cliVars>>

StopApi ==
    /\ Spend("apiStop") /\ ApiStop
    /\ UNCHANGED <<conductorVars, workerVars, cliVars>>

ExitApi ==
    /\ ApiExit
    /\ UNCHANGED <<conductorVars, workerVars, cliVars, left>>

CrashApi ==
    /\ Spend("apiCrash") /\ ApiCrash
    /\ UNCHANGED <<conductorVars, workerVars, cliVars>>

RestartApi ==
    /\ ApiRestart
    /\ UNCHANGED <<conductorVars, workerVars, cliVars, left>>

-----------------------------------------------------------------------------
(* The conductor and its calls to the worker.                              *)

CallStep(h) ==
    /\ Issue(h) /\ Accept(h, cur, saga = "compensating")
    /\ UNCHANGED <<apiVars, cliVars, left>>

\* The outstanding call is answered.
StepReturns ==
    /\ call # NoCall
    /\ \/ handler[call].pc = "ok" /\ Advance
       \/ handler[call].pc = "error" /\ AttemptFails
    /\ Reply(call)
    /\ UNCHANGED <<apiVars, cliVars, left>>

\* The worker refuses the connection, or drops it as it dies.
StepUnreachable ==
    /\ \/ saga \in Active /\ call = NoCall /\ worker = "down"
       \/ call # NoCall /\ handler[call].pc = "idle"
    /\ AttemptFails
    /\ UNCHANGED <<apiVars, workerVars, cliVars, left>>

\* The step's timeout_seconds pass; its handler keeps running.
StepTimesOut ==
    /\ call # NoCall /\ handler[call].pc # "idle"
    /\ Spend("stepTimeout") /\ AttemptFails
    /\ UNCHANGED <<apiVars, workerVars, cliVars>>

SagaTimesOut ==
    /\ Spend("sagaTimeout") /\ SagaTimeout
    /\ UNCHANGED <<apiVars, workerVars, cliVars>>

\* The StartEnvSaga call that waits for the saga breaks with the conductor.
CrashConductor ==
    /\ Spend("conductorCrash") /\ Crash
    /\ \/ ProvisionFails("waiting")
       \/ prov # "waiting" /\ UNCHANGED apiVars
    /\ UNCHANGED <<workerVars, cliVars>>

\* POST /envs/{id}/abort.
Abort ==
    /\ Spend("abort")
    /\ api = "up" /\ rec.saga /\ AbortSaga
    /\ UNCHANGED <<apiVars, workerVars, cliVars>>

-----------------------------------------------------------------------------
(* The worker's handlers.                                                  *)

LoadEnv(h) ==
    /\ api = "up" /\ Load(h, rec)
    /\ UNCHANGED <<apiVars, conductorVars, cliVars, left>>

SaveEnv(h) ==
    /\ PutEnv(handler[h].env) /\ Saved(h)
    /\ UNCHANGED <<conductorVars, cliVars, left>>

\* forge-api is not there, or the request or the step fails.
StepFails(h) ==
    /\ IF api = "up" THEN Spend("workerIo") ELSE UNCHANGED left
    /\ RequestFails(h)
    /\ UNCHANGED <<apiVars, conductorVars, cliVars>>

\* forge-api stores the record but its answer is lost.
AnswerLost(h) ==
    /\ Spend("workerIo")
    /\ PutEnv(handler[h].env) /\ SavedUnacknowledged(h)
    /\ UNCHANGED <<conductorVars, cliVars>>

\* Nobody waits for this answer any more.
ReplyUnheard(h) ==
    /\ h # call /\ Reply(h)
    /\ UNCHANGED <<apiVars, conductorVars, cliVars, left>>

CrashWorker ==
    /\ Spend("workerCrash") /\ WorkerCrash
    /\ UNCHANGED <<apiVars, conductorVars, cliVars>>

RestartWorker ==
    /\ WorkerRestart
    /\ UNCHANGED <<apiVars, conductorVars, cliVars, left>>

-----------------------------------------------------------------------------
(* The user's commands.                                                    *)

Poll ==
    /\ \/ api = "up" /\ PollEnds(rec)
       \/ api # "up" /\ WatchFails
    /\ UNCHANGED <<apiVars, conductorVars, workerVars, left>>

Interrupt ==
    /\ Spend("interrupt") /\ WatchFails
    /\ UNCHANGED <<apiVars, conductorVars, workerVars>>

-----------------------------------------------------------------------------
ApiNext ==
    \/ \E fail \in BOOLEAN : Create(fail)
    \/ CreateEnvSaga \/ PersistSagaId \/ StartEnvSaga \/ StartEnvSagaTooLate
    \/ SagaEnds \/ StoreFailure \/ CallFails \/ PutFails
    \/ StopApi \/ ExitApi \/ CrashApi \/ RestartApi

ConductorNext ==
    \/ \E h \in Handler : CallStep(h)
    \/ StepReturns \/ StepUnreachable \/ StepTimesOut
    \/ SagaTimesOut \/ CrashConductor \/ Abort

WorkerNext ==
    \/ \E h \in Handler :
          LoadEnv(h) \/ SaveEnv(h) \/ StepFails(h) \/ AnswerLost(h) \/ ReplyUnheard(h)
    \/ CrashWorker \/ RestartWorker

CliNext == Poll \/ Interrupt

Next == ApiNext \/ ConductorNext \/ WorkerNext \/ CliNext

Spec == Init /\ [][Next]_vars

(***************************************************************************)
(* Every process takes its next step: the goroutine and the handlers run   *)
(* on Go's scheduler, their requests have timeouts, Kubernetes restarts    *)
(* the pods, the conductor retries, forge create polls every 2 seconds.    *)
(* Nothing is assumed of the disturbances.                                 *)
(***************************************************************************)
Fairness ==
    /\ WF_vars(CreateEnvSaga) /\ WF_vars(PersistSagaId)
    /\ WF_vars(StartEnvSaga) /\ WF_vars(StartEnvSagaTooLate)
    /\ WF_vars(SagaEnds) /\ WF_vars(StoreFailure)
    /\ WF_vars(ExitApi) /\ WF_vars(RestartApi)
    /\ WF_vars(\E h \in Handler : CallStep(h))
    /\ WF_vars(StepReturns) /\ WF_vars(StepUnreachable)
    /\ \A h \in Handler :
          /\ WF_vars(LoadEnv(h)) /\ WF_vars(SaveEnv(h)) /\ WF_vars(ReplyUnheard(h))
          /\ WF_vars(api # "up" /\ StepFails(h))
    /\ WF_vars(RestartWorker)
    /\ WF_vars(Poll)

FairSpec == Spec /\ Fairness

-----------------------------------------------------------------------------
(* What holds whatever happens.                                            *)

\* The step the saga got to in its forward direction.
Reach == IF failedStep = 0 THEN cur ELSE failedStep

(***************************************************************************)
(* A saga that has been started, or aborted, can be found from the stored  *)
(* record: "forge status" and "forge sagas abort" look the saga ID up      *)
(* there, and a failure path that stores a copy of the record must not     *)
(* unset it (Provision, handleCreateEnv).                                  *)
(***************************************************************************)
StartedSagaIsRecorded == saga \notin {"none", "pending"} => rec.saga

(***************************************************************************)
(* The record is never ahead of its saga: a handler that the conductor     *)
(* gave up on may store its copy late, but never a resource of a step that *)
(* the saga has not got to.                                                *)
(***************************************************************************)
NothingAhead == rec.ids \subseteq 1..Reach

(***************************************************************************)
(* An environment is ready only if its saga got to the registry step, so   *)
(* that one whose health check fails is never ready.                       *)
(***************************************************************************)
ReadyOnlyAtRegistry ==
    rec.status = "ready" => Reach = Registry /\ ~rec.fail

-----------------------------------------------------------------------------
(* What holds while no call outlives its caller: no timeout, conductor     *)
(* crash, forge-api shutdown or broken call to the conductor.              *)

Abandons == {"stepTimeout", "sagaTimeout", "conductorCrash", "apiStop", "rpc"}

CallsAreAwaited == \A d \in Abandons : Budget[d] = 0

(***************************************************************************)
(* The record tells how far the saga is.  While it runs, the record holds  *)
(* the resources of the steps before the current one, and perhaps that     *)
(* one's; while it compensates, those of the steps before the current one, *)
(* and perhaps that one's and that of the step that failed, whose write    *)
(* may have taken effect although it was reported as failed.               *)
(***************************************************************************)
RecordTracksSaga ==
    CASE saga \in {"none", "pending"} -> rec.ids = {}
      [] saga = "running"      -> rec.ids \ {cur} = Resource \cap 1..(cur - 1)
      [] saga = "compensating" ->
            rec.ids \ {failedStep, cur} = Resource \cap 1..(cur - 1)
      [] saga = "completed"    -> rec.ids = Resource /\ rec.status = "ready"
      [] saga = "failed"       -> rec.ids \subseteq {failedStep}
      [] OTHER -> TRUE

(***************************************************************************)
(* A handler stores what its step makes of the record as it is now, though *)
(* it loaded the record earlier (server.go:98 and the Put of the step):    *)
(* nothing was stored in between that it would overwrite.                  *)
(***************************************************************************)
CopiesAreCurrent ==
    \A h \in Handler : handler[h].pc = "save" =>
        handler[h].env = IF handler[h].comp THEN Compensated(handler[h].step, rec)
                                            ELSE Executed(handler[h].step, rec)

(***************************************************************************)
(* An environment is marked failed only once its saga is over or will      *)
(* never start, so that nothing is provisioned for it afterwards.          *)
(***************************************************************************)
FailedMeansOver ==
    rec.status = "failed" => saga \notin {"running", "compensating", "completed"}

(***************************************************************************)
(* A status that "forge create" takes for final stays: a failed            *)
(* environment never changes again.                                        *)
(***************************************************************************)
FailedIsFinal == [][rec.status = "failed" => rec' = rec]_vars

(***************************************************************************)
(* Provisioning implements the ledger of resources that EnvLedger          *)
(* describes.                                                              *)
(***************************************************************************)
LedgerPhase ==
    CASE saga \in {"none", "pending"} -> "idle"
      [] saga = "running"             -> "forward"
      [] saga = "compensating"        -> "undoing"
      [] saga = "completed"           -> "delivered"
      [] saga = "failed"              -> "clean"
      [] saga = "compensation_failed" -> "stuck"
      [] saga = "aborted"             -> "aborted"

Ledger == INSTANCE EnvLedger
            WITH status <- rec.status, ids <- rec.ids,
                 kept <- failedStep, phase <- LedgerPhase

LedgerKept == Ledger!LedgerSpec

-----------------------------------------------------------------------------
(* What must eventually happen.                                            *)

(***************************************************************************)
(* However the worker fails, an environment does not stay in               *)
(* "provisioning", unless its saga was dead-lettered ("crash recovery      *)
(* after any failure is automatic", docs/architecture.md:35).  It does     *)
(* stay there if forge-api dies before the saga is started, or if the saga *)
(* is aborted.                                                             *)
(***************************************************************************)
Settles ==
    rec.status = "provisioning" ~>
        rec.status \in {"ready", "failed"} \/ saga = "compensation_failed"

(***************************************************************************)
(* "forge create" returns once the saga has completed or rolled back: its  *)
(* poll sees the status that the registry step or the goroutine stores.    *)
(***************************************************************************)
CliReturns == cli = "watching" /\ saga \in {"completed", "failed"} ~> cli = "exited"

(***************************************************************************)
(* Without an injected health failure, and unless a step uses up its       *)
(* retries, the environment is provisioned completely, and the user who    *)
(* waits for it (cmd/forge/main.go:199) is told so: the retries make up    *)
(* for every failure they cover.                                           *)
(***************************************************************************)
Delivers ==
    rec.status = "provisioning" /\ ~rec.fail ~>
        \/ failedStep # 0
        \/ /\ rec.status = "ready" /\ rec.ids = Resource
           /\ shown = "ready" \/ left["interrupt"] < Budget["interrupt"]

(***************************************************************************)
(* An environment is ready, unless it is being rolled back, only with all  *)
(* its resources, however often a step was repeated (steps/registry.go:20  *)
(* after the idempotency checks of server.go:117).                         *)
(***************************************************************************)
ReadyUnlessUndone ==
    rec.status = "ready" => failedStep # 0 \/ rec.ids = Resource

(***************************************************************************)
(* The step server answers or drops every request: a handler never waits   *)
(* for ever on forge-api.                                                  *)
(***************************************************************************)
HandlersFinish ==
    \A h \in Handler : handler[h].pc # "idle" ~> handler[h].pc = "idle"

-----------------------------------------------------------------------------
(* What the documentation says, and does not always hold.                  *)

(***************************************************************************)
(* The registry step "writes the completed Environment record [...]: it    *)
(* commits the environment as fully provisioned" (steps/registry.go:10).   *)
(***************************************************************************)
ReadyIsComplete == rec.status = "ready" => rec.ids = Resource

(***************************************************************************)
(* "This guarantees exactly-once effect despite at-least-once delivery"    *)
(* (docs/architecture.md:58): the effect of each step of a saga that       *)
(* completed is there.                                                     *)
(***************************************************************************)
CompletedIsWhole == saga = "completed" => rec.ids = Resource
=============================================================================
