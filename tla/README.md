# env-forge: a TLA+ model of environment provisioning

env-forge provisions development environments. A user's `forge create` becomes
a saga of eight steps (vpc, rds, ec2, s3, identity, config, health, registry)
that saga-conductor drives, forge-worker executes and forge-api records. These
modules model what the parts do to the one thing they share, the environment's
record, when calls are retried, lost, late or overtaken by a crash.

## The system

| component | code | state it keeps | operations |
|---|---|---|---|
| forge CLI | `cmd/forge/main.go` | none (its poll loop) | create (POST, then poll), abort, destroy (reads and prints only), listings |
| forge-api | `cmd/forge-api/main.go`, `internal/apiserver/server.go` | the BoltDB store; a goroutine per provision with its own copy of the record; a WaitGroup | create, get, list, abort, internal GET and PUT, start, shutdown |
| store | `internal/environment/store.go` | id -> record, durable | Put (whole record), Get, List, Delete |
| forge-worker | `cmd/forge-worker/main.go`, `internal/server/server.go` | one copy of the record per request being handled | forward and compensate endpoint of each step |
| steps | `internal/steps/*.go` | none | Execute, Compensate, IsAlreadyDone |
| conductor client | `internal/conductor/client.go` | none | CreateEnvSaga, StartEnvSaga (blocks to the saga's end), AbortSaga |
| saga-conductor | another repository | the sagas, durable | runs, retries, compensates, times out, resumes |
| svid-exchange | another repository | its signing keys, in memory | issues tokens, rotates its keys, publishes them |
| authentication | `run` and `buildStateClient` of the two `main.go`, `authMiddleware` | forge-worker's token, forge-api's copy of the keys | fetch and refresh of keys, exchange and renewal of tokens, verification |
| deployment | `k8s/forge-api.yaml` | one pod after another on one volume | rollout, liveness probe |
| admin client, metrics | `internal/adminclient`, `internal/metrics` | counters | pass-through, counting |

How they interact: forge-api calls the conductor (CreateSaga, then the blocking
StartSaga); the conductor posts one step at a time to forge-worker; the worker's
handler GETs the record from forge-api, runs the step on its copy and PUTs the
whole copy back. The goroutine in forge-api PUTs the record too: with the saga ID
before the saga starts, with status `failed` when Provision returns an error. There
is no version or lock on the record: the last whole-record write wins.

What makes it hard is that one record has several writers, each with a copy read
earlier, and that a caller's giving up (a step timeout, a saga timeout, a broken
connection, a shutdown) does not stop the work it had asked for. `PROJECT.json`
lists the hazards, each at its line, with the properties that guard it.

What makes each component correct:

* *record*: never ahead of its saga; `ready` only at the end and complete;
  `failed` only when nothing more will happen; the saga can be found from it.
* *goroutine*: stores the saga ID before the saga runs; turns the saga's end into
  a final status; never undoes what the steps stored.
* *step server*: each step takes effect once however often it is delivered; a
  compensation removes what the step added; every request is answered.
* *CLI*: returns once the environment is settled, and says how.
* *shutdown and rollout*: provisions in flight settle before the store closes; the
  process ends; the next one gets the lock, finds them settled, is not killed for
  being slow, and serves.
* *lookups*: a command reaches the environment its user means, or one that
  nothing the user was shown tells apart from it.
* *authentication*: a worker whose token was accepted for a step's read is not refused for its
  write while it keeps that token, or gets one signed with a key forge-api knows, and svid-exchange
  runs on; a live token is refused for one refresh interval at most; a worker that is refused is
  accepted again.

## Modules

| module | models |
|---|---|
| `Environment` | the record, and a step's idempotency check, effect and compensation (dry-run bodies) |
| `ForgeApi` | store and provisioning goroutine: `rec` (stored, durable), `mem` (the goroutine's copy), `prov` (where it is), `api` (the process) |
| `ForgeWorker` | `handler[h]`: the request in each slot as load, effect, store, answer; `worker` (the process) |
| `Conductor` | what env-forge relies on of saga-conductor (external): `saga`, `cur`, `failedStep`, `tries`, `call` |
| `ForgeCli` | the poll of `forge create` |
| `Provisioning` | composes the four: every action of the system, `Spec`, `FairSpec`, the properties |
| `EnvLedger` | the abstract specification: what a reader of the record may rely on |
| `ProvisioningInv` | the three inductive invariants, `SafetyInv`, `AwaitedInv` and `LedgerInv` |
| `ProvisioningProofs` | the theorems about `Provisioning`, whatever is late |
| `AwaitedProofs` | the theorems for the case that no call outlives its caller |
| `LedgerProofs` | for the same case: the copies are current, and `Provisioning` implements `EnvLedger` |
| `MCProvisioning` | constants for TLC: slots, retries, budgets of disturbances |
| `ApiShutdown` | a SIGTERM of forge-api racing create requests |
| `ApiStartup` | a pod of forge-api that starts: the lock of the store's file, the retry loop for the keys, the liveness probe |
| `Rollout` | composes the two at the lock: the old pod shuts down, or is killed, while its successor starts |
| `RolloutProofs` | the theorems about `Rollout` |
| `MCApiShutdown`, `MCRollout` | constants for TLC: requests |
| `Lookups`, `MCLookups` | several environments, users and commands, each request by prefix |
| `LookupsProofs` | the theorems about `Lookups` |
| `Tokens` | keys, tokens and their refresh through rotations and restarts, over time |
| `TokensProofs` | the theorems about `Tokens` |
| `AwsAccount` | what the steps change outside the record (external): resources with their state, in the order of their creation |
| `AwsSteps` | the steps outside dry-run mode, each as its sequence of calls, under the `Conductor` of `Provisioning` |
| `AwsStepsInv` | its inductive invariants: `NamedInv`, and built on it `DoneInv`, `StrayInv` and `RollbackInv` |
| `AwsProofs` | the theorems on what the record names |
| `AwsOutcomeProofs` | the theorems on what a saga leaves when it ends |

Each component module has one action per operation, over its own variables;
`Provisioning` joins the actions of the two sides of a call. The code between two
requests of a process is one action: what other processes can see of it is the
store, and each action makes at most one access to the store.

Correspondence, for the parts that are less than obvious:

* `Resource == 1..ResourceCount` are the steps that write an identifier (six in the
  code), then `Health` and `Registry`. `rec.ids` holds the steps whose fields are
  set; a dry-run step sets and clears its fields together.
* `prov` names the line of `Provision` the goroutine is at: `create`, `record`,
  `start`, `waiting`, and `failing` for the error path of `handleCreateEnv`.
  `StoreFailure` stores `mem` with status `failed`: the whole creation-time copy.
* A handler is `load` from the request's arrival to the answer of its GET, `save` from
  then to its PUT, `ok` or `error` until it answers. The step's own work lies
  between; that it takes long is the other processes' actions in between.
* `StepFails` is every way for a handler not to get through: forge-api is
  gone, the client's 30 s timeout, a failing step. `AnswerLost` is the PUT
  that took effect but was not acknowledged.
* A terminated worker waits for no handler (`ListenAndServe` returns as soon as
  `Shutdown` closes the listeners), so termination and crash are one action.
* `CallFails` is a call of forge-api to the conductor that returns an error before or
  after it took effect. It is free when forge-api is stopping: the context is
  cancelled. `CrashConductor` breaks the StartSaga call too, and the saga resumes.

In `AwsSteps`:

* `VpcExecute`, `RdsCompensate` and so on list the calls of a body in order; `Calls`
  chooses the list when the request comes in, from the record it loads. `req.todo`
  is what is left of it, `req.env` the handler's copy. `Succeeds` is the effect of a
  call, `Noted` what the copy holds afterwards, `put` the store.
* `CallFails` ends the step with an error before its next call. A call that took
  effect and whose answer was lost is a call followed by that: the copy is lost
  either way.
* `prov` is the goroutine of forge-api that waits in StartSaga. It is `failing` when that returns
  a failed saga (`SagaReturns`) or breaks off: with a restart of the conductor
  (`ConductorRestarts`), a broken connection or a SIGTERM of forge-api (`StartSagaBreaks`). It then
  stores its copy from before the first step (`MarkFailed`): the identifiers that the steps had
  stored are gone from the record, `stored' = Empty`, while the saga may go on, and a request that
  had loaded the record before may store it again. `ProvisionLost` is its death, or a Put of `failed`
  that fails. `SagaStopped` is an abort or a saga timeout. The last three kinds and the restart of
  the conductor spend `left.breaks`.
* A record without identifiers does not stop the later steps in the code: AWS refuses an empty
  bucket name, and may refuse a database or an instance without subnet or security group or take it
  for one in the default VPC (`Refused`, `Succeeds`). Deletions of what has no name are skipped.
* A request ends when the conductor gives it up, because AWS calls and waiters take
  the request's context. In dry-run mode nothing looks at the context, which is why the
  handlers of `Provisioning` go on.
* `Conductor` is instantiated with eight steps and one slot; its worker variables are not
  used.
* A resource is `pending` until AWS (or the call that configures it) is done with it,
  `leaving` until it is gone. `Named` resources have names made from the environment's ID, so
  that a second create meets the first; the others get a new identifier each time.
* How a service answers a create of a bucket or policy that exists, or a delete of
  something gone, is not in the code: both answers are in the model. A second database of the
  same name, and the deletion of what is still in use, are refused. The DB subnet group
  `env-forge-<id>`, which `CreateDBInstance` names and no step creates, is taken to be there.

In `Provisioning` one environment stands for all of them: the store is keyed by ID, a saga
belongs to one environment, and no step looks at another's record. Where environments do
meet is `Lookups`.

In `ApiShutdown`:

* `req[r]` is where request `r` and its goroutine are. A provision ends as `done`, its final
  status stored; as `left`, when Provision returned nil for an aborted or dead-lettered saga
  (`ProvisionLeaves`); as `unmarked`, when the Put of `failed` failed (`MarkFailedLost`); or as
  `late`, when it found the store closed. The middle two read `provisioning` for good, at SIGTERM
  as at any other time; only the last is the shutdown's doing.

In `ApiStartup` and `Rollout`:

* A pod is `opening` (bolt.Open waits five seconds for the file's lock), `fetching` and
  `waiting` (the ten attempts), `serving` or `exited`; `age` is the container's. Nothing
  answers `/health/live` before the pod serves, so it is killed at `ProbeDeadline`, the age
  at which the third probe fails (45 + 2 * 10 s).
* With `maxSurge: 0` the successor starts when the old pod is told to stop, not when it has
  stopped. `LockFree` is what both see of each other.
* A failing fetch takes `QuickFetch` or less, unless it hangs (`FetchHangs`), which the code
  does not limit.

In `Lookups`:

* A saga that runs ends in one step (`EndSaga`) where `Provisioning` has many. Its goroutine
  returns nil after a completed, aborted or dead-lettered saga (`ProvisionReturns`) and otherwise
  stores `failed`, unless the Put fails (`ProvisionFails`); forge-api dies with its goroutines and
  handlers (`RestartForgeApi`), and the sagas go on without them. `meant` is what the user of a
  command means; the code does not know it.
* An ID is a sequence of characters, and a listing prints its first `PrintLength`; `forge
  create` uses the whole ID that its POST returned.
* `Reaches` is one request; a command with two requests is in `at = "saga"` between them.

In `Tokens`:

* Time is `Tick`, which waits for a fetch or a renewal that is due: `due` counts down to the
  next fetch, `token.age` up, and `retire[k]` is how long a key is still published.
* That a rotated key is published as long as tokens signed with it live, that keys are lost in
  a restart, that the client renews at 80% of the token's life, and that a failed refresh
  leaves the verifier the keys it has, is what this repository says or relies on
  (`docs/demo-moments.md:361`, `docs/minikube-setup.md:71`).
* The scope checks of the internal handlers pass for every token there can be: it is
  requested with both scopes, and the policy in `k8s/svid-exchange.yaml:39` grants both.
* `docs/demo-moments.md:361` calls the rotation free of downtime. A worker that exchanges its token
  between a rotation and forge-api's next fetch is refused until that fetch: `OutageIsBounded` says
  for how long.
* `Get` and `Put` are the two requests of one step; `read` is the key the first was verified
  with.

### What is assumed of saga-conductor

It is not in this repository. `Conductor` states what the client, comments, docs
and `demo.sh` say or rely on: CreateSaga is idempotent by key; steps run in
order, one call at a time, at least once, and a failed call is retried up to
`max_retries`; then the steps *before* the failed one are compensated in reverse
(`steps/health.go:17`: "compensations starting from Step 6 backward"); a compensation whose retries are used up dead-letters the saga;
abort compensates nothing; a saga's timeout stops it, compensated or not (both are
allowed, nothing here says which); a restarted conductor resumes its sagas and
their outstanding call is made again. Where the repository is silent, both
outcomes are in the model (`SagaEnds` on a dead-lettered saga).

## Runs

| run | constants | shows |
|---|---|---|
| `core_outlived_calls` | 2 resources, 2 slots, 1 retry; one each of step timeout, saga timeout, conductor crash, SIGTERM, broken call, I/O error | `SafetyInv`, `StartedSagaIsRecorded`, `NothingAhead`, `ReadyOnlyAtRegistry`: true whatever is late. 4.9 million states |
| `core_at_least_once` | 2 resources, 2 slots, 1 retry; worker crash, two I/O errors, forge-api crash, failing Put, abort; `FairSpec` | `CopiesAreCurrent`, `RecordTracksSaga`, `FailedMeansOver`, `FailedIsFinal`, and that `Provisioning` implements `EnvLedger`, while no call outlives its caller. `LedgerInv`, which contains `AwaitedInv`, is the inductive invariant behind them. `HandlersFinish`: no handler waits for ever, on a forge-api that has crashed neither. 39 thousand states |
| `core_settles` | 3 resources, two worker crashes, two I/O errors, an interrupt, `FairSpec` | `Settles`, `CliReturns`, however the worker fails; `Delivers`: unless a step uses up its retries, the environment becomes ready and complete and the CLI says so; `ReadyUnlessUndone`. 21 thousand states |
| `shutdown` | 2 requests; 3 attempts, one hanging fetch, one replaced successor, `RolloutFairSpec` | `EarlyProvisionsSettle`, `Terminates` of the old pod; `SuccessorFindsSettled`, `HandoverIsClean`, `RetriesAreSpared`, `RolloutEnds` of both. 399 thousand states |
| `lookups` | 3 IDs, two of them printed alike, 2 environments created; 2 users, `FairSpec` | `PollFindsOwn`, `MissIsAmbiguous`, `StatusIsOfOne`, `CreateReturns`. 1.1 million states |
| `tokens` | tokens that live 6 ticks and are renewed after 5, fetches every 2; 4 keys, 3 faults, `FairSpec` | `ReadThenWrite`, `OutageIsBounded`, `ServedAgain`. 224 thousand states |
| `aws_steps` | eight steps, 1 retry; one failing call, one death of the worker, one break (restart of the conductor, abort, saga timeout, broken StartSaga), the goroutine's death or write at any time, `FairSpec` | `NamedExists`, `PasswordOpens`, `CompletedIsWhole`, `UndisturbedRollback`, `RollbackLeavesStrays`, `SagaEnds`. `CompletedIsWhole` and `RollbackLeavesStrays` are about sagas without a break. `RollbackInv` is the inductive invariant behind the first five. 774 thousand states |

The `doc_*` runs check one statement of the documentation each and are violated:

| run | statement | what the code does |
|---|---|---|
| `doc_conductor_restart` | the registry step commits the completed record (`steps/registry.go:10`) | the conductor restarts, StartSaga breaks, the goroutine stores its creation-time copy, the resumed saga commits a record without identifiers |
| `doc_late_write` | exactly-once effect (`docs/architecture.md:58`) | a timed-out handler stores its old copy over later steps' writes |
| `doc_shutdown_waits` | ListenAndServe waits for in-flight provisions (`apiserver/server.go:450`) | a handler still running at shutdown calls `wg.Add` after `wg.Wait` |
| `doc_aws_duplicates` | no duplicate AWS resources after a crash (`environment/types.go:14`) | the VPC's identifier is stored after the last of eight operations; a failure before makes the retry create another VPC |
| `doc_rds_resume` | a step cut short mid-poll resumes polling (`steps/rds.go:138`) | the retry calls CreateDBInstance again, which is refused |

Bounds. Two resources are the fewest with an order, a middle of a rollback and
something for a stale write to lose; no property counts beyond that, and
`core_settles` has three. Two slots let an abandoned handler run beside the
awaited one; with one retry and one step timeout no third can be in use for
longer than it takes to start the retry. A disturbance happens `Budget[d]` times: the number
of failures is bounded, when they happen is not. `tries` is bounded by
`MaxRetries`; no other counter grows. The proofs have none of these bounds.
In `aws_steps` a failing call and a death of the worker are two failures, which use up a step's
retry or disturb two steps or a step and the rollback, and a break may come at any point of that. In `shutdown` the durations are scaled down (three attempts
and a probe at 22 s where the code has ten and 65 s) but keep what `StartupAssumption` says of
the real ones, and two requests are one that is counted by the WaitGroup and one that is not yet;
the real durations pass too, in 1.6 million states. In `lookups` three IDs are two that are
printed alike and one that is not, of which two are created in any order and combination
(`MaxEnvs`), and two users are one who asks and one who creates in
between. In `tokens` 6, 5 and 2 stand for 60, 48 and 5 minutes: a token outlives a fetch and is renewed
before it expires; four keys are two runs of svid-exchange with a rotation in each. The
theorems cover the other values. Deadlock is not checked: a settled environment
with the budget spent is where the system stops.

Fairness. `FairSpec` assumes weak fairness of every process's own next step: Go
schedules the goroutine and the handlers, client requests have timeouts,
Kubernetes restarts the pods, the conductor goes on with its saga, `forge
create` polls every two seconds. Nothing is assumed of failures and of
requests of users. `core_settles` has no outage of forge-api and says nothing of waiting on one; `HandlersFinish`
is checked in `core_at_least_once`, which has a crash of it. `RolloutFairSpec` adds that Kubernetes starts containers again and that the new
pod's goroutine runs; which way a fetch goes is free, and so is the kill of the old pod.
The number of fetches that hang is bounded (`MaxHangs`): `RolloutEnds` holds for finitely many. A fetch
that hangs has no time limit in the code, and were every new container's to hang, no pod would ever
serve. In `Lookups` sagas and provisions end and `forge create` polls. In `Tokens` pods are started again, timers
fire and time passes; how often processes stop and fetches fail is bounded by `MaxFaults`. In `ApiShutdown`, Provision returns once its context is
cancelled (the gRPC calls take it) and the main goroutine runs; create requests
and their handlers may stop anywhere. In `AwsSteps` the worker and the conductor go on, and AWS
finishes what it was asked for.

## Proofs

`ProvisioningProofs` proves, for every number of resources, every set of slots,
every number of retries and every budget:

* `TypeCorrectness`, `SafetyInvariance` : `Spec => []TypeOK`, `Spec => []SafetyInv`;
* `StartedSagaIsAlwaysRecorded`, `NothingIsEverAhead`, `ReadyComesLast` : the three
  safety properties of `core_outlived_calls`.

They rest on the assumptions named in the modules: `ResourceCount` is a positive
natural number, `NoCall` is no slot, `MaxRetries` and `Budget` are natural-valued.

`SafetyInv` is needed because none of the three properties is inductive. That the
stored record keeps its saga ID depends on the copies that may still be
stored: the goroutine's (`GoroutineInv`: it has the ID if the record has) and
those of handlers (`HandlerInv`: they were loaded after the saga started). That
it is not ahead depends on every handler, awaited or not, being at a step the
saga reached, and `Reach` never decreasing. That a failed health check keeps the
saga from the registry depends on the answer of the awaited handler (`CallInv`, `HealthInv`,
and the last conjunct of `HandlerInv`). TLC checks the invariant before it is
proved; the proof takes one step per action, and splits the steps of handlers
and the answer to a call by conjunct.

`AwaitedProofs` proves, under `CallsAreAwaited` (a budget without step or saga timeouts,
conductor crashes, SIGTERMs and broken calls to the conductor) and for every number of
everything else:

* `AwaitedInvariance` : `Spec => []AwaitedInv`;
* `RecordFollowsSaga`, `FailedEnvironmentIsOver`, `FailedStays` : `RecordTracksSaga`,
  `FailedMeansOver` and `FailedIsFinal` of `core_at_least_once`.

`AwaitedInv` adds to `SafetyInv` that only an aborted saga has a handler nobody waits
for (`SequentialInv`), that the goroutine gives up only when nothing is at work any
more (`QuietInv`) and is the only one ever to store `failed` (`OneFailureInv`), and what the
record and the copy about to be stored hold in each phase of the saga
(`ForwardInv`, `BackwardInv`, `RestInv`). The proof first shows that the
disturbances in question cannot happen (`NoAbandons`), then takes one step per
remaining action; `EffectOfStep` and `EffectOnRecord` say what a handler makes of
the record it loaded.

`LedgerProofs` proves, from the same assumption:

* `LedgerInvariance` : `Spec => []LedgerInv`;
* `CopiesAreAlwaysCurrent` : `CopiesAreCurrent` of `core_at_least_once`. A handler that has its
  copy stores what its step makes of the record as it is then;
* `ReadyIsWhole` : `ReadyUnlessUndone` of `core_settles`;
* `ProvisioningKeepsLedger` : `LedgerKept`, the refinement of `EnvLedger`.

`LedgerInv` adds to `AwaitedInv` that at most one handler is busy, at the saga's step and in its
direction (`OneHandlerInv`): without it a second handler could store an older copy. `StatusInv`
says that the record appears with its goroutine and never reads `destroyed`, and `AbortedInv` what
an abort leaves in the record, which the handler it interrupted may still change. The refinement
is proved action by action: `InitRefines` for the first state, `AnswerRefines` for what the
conductor makes of an answer, `StoreRefines` for a write of a handler, `NextRefines` for all of
`Next`. Most steps leave the ledger as it is.

`AwsProofs` and `AwsOutcomeProofs` prove, for every number of retries, failing calls, deaths and breaks:

* `AwsTypesHold`, `NamedResourcesExist`, `StoredPasswordOpens` : the types, `NamedExists` and
  `PasswordOpens` of `aws_steps`, from `NamedInvariance` : `Spec => []NamedInv`;
* `CompletedSagaIsWhole` : `CompletedIsWhole`, from `DoneInvariance`;
* `RollbackLeavesOnlyStrays` : `RollbackLeavesStrays`, from `StrayInvariance`;
* `UndisturbedRollsBack` : `UndisturbedRollback`, from `RollbackInvariance`.

They rest on `AwsStepsAssumption`, that the four bounds are natural numbers.
`CompletedIsWhole` and `RollbackLeavesStrays` say nothing of a saga that a break has met (`Unbroken`), and
they are false of one: the goroutine then empties the record under the steps, so that a completed
saga's record lacks what was made before, and a rollback skips the deletions of what is not named
any more. `doc_conductor_restart` shows the former with the dry-run bodies. `NamedExists` and
`PasswordOpens` hold in those cases too, with an empty record or with one that a step loaded before.
`DoneInv` and `StrayInv` are therefore conditional (`DoneCore`, `StrayCore`), and their proofs start
from the fact that a step that leaves the saga unbroken found it so (`StillUnbroken`); while it is, the
goroutine writes only after the end of the saga. A step is a program
of calls, so what holds in the middle of one depends on what is left of it:

* `NamedInv` says of that rest which calls are in it and in which order (`ProgramInv`: a password is
  set just before its database is created, the record is stored after whatever it is to
  name), that the handler's copy differs from the record in the step's own fields only
  (`CopyInv`), and that record and copy name what exists (`HeldInv`) or what its compensation is
  going to clear (`ClearInv`, `ClearedInv`).
* `DoneInv` adds that what the step at hand has not done yet it has still to do (`DoingInv`),
  so that a step whose program is finished is whole (`WholeInv`), and that the record has nothing of
  the steps ahead (`AheadInv`), which is what lets an idempotency check trust it.
* `StrayInv` adds that the record names the *last* VPC (`LatestInv`), in which all later
  resources are (`HomeInv`), and that the last of each kind is gone or about to be deleted when
  the record stops naming it (`DeadInv`, `DeletingInv`). Instances are exempt: the ec2 step
  may make a second one after the first got its name.
* `RollbackInv` adds, for sagas in which nothing fails but the health check, that there is one
  resource of each kind in front of the saga and none behind it (`CalmForwardInv`,
  `CalmBackwardInv`), and that a compensation asks for each deletion once, and awaits it while its
  copy still has the name (`Orderly`). `ForwardRefusal` and `BackwardRefusal` are the lemmas that AWS
  then refuses nothing.

Each part of an invariant has a lemma for its step (`HeldStep`, `PasswordStep`, `DoingStep` and so
on). They rest on lemmas about the operators: what taking the first call off a program
keeps (`ForwardTail`, `BackwardTail`, `OrderlyTail`), what holds of programs put together
(`ConcatNoneAfter`, `OrderlyConcat`), one lemma per program of `AwsSteps` that it is of the right
shape (`VpcIsForward`, `S3IsBackward`, ...), and what one call does to the account
(`AppearFacts`, `BecomesFacts`, `CallKeeps`).

`RolloutProofs` proves, for every finite set of requests and all durations that satisfy
`StartupAssumption` (lock, attempts and waits together are below the probe's deadline):

* `RolloutInvariance`, `RolloutTypeCorrectness`: `RolloutSpec => []RolloutInv`, and the types;
* `EarlyProvisionsAlwaysSettle`, `SuccessorAlwaysFindsSettled`, `HandoverIsAlwaysClean`,
  `RetriesAreAlwaysSpared`: the safety properties of `shutdown`. The first two exempt what the code
  leaves in `provisioning` with the store open (`LeftOpen`), and say that the shutdown adds nothing to it.

`RolloutInv` says that the WaitGroup counts the provisions that run (`EarlyInv`, for which the
requests have to be finitely many), that a closed store means a drained or killed process
(`OldInv`), that the successor has the lock only when the store is closed (`LockInv`), and when the
n-th attempt begins at the latest (`AgeInv`).

`LookupsProofs` proves, for every set of IDs of one length, every number of printed characters and
every number of users:

* `LookupInvariance`, `LookupTypeCorrectness`;
* `PollAlwaysFindsOwn`, `MissIsAlwaysAmbiguous`, `StatusIsAlwaysOfOne`: the safety properties of
  `lookups`.

They rest on `IdAssumption`: the IDs are sequences of one length, at least as long as what is printed,
and every set of them that is not empty has a first one, which the order of the store's keys gives.
`LookupInv` relates each command's argument to what its user meant, what it reached, and what its
second request reached; environments are never removed, which `EnvStep` and `ForgeApiRestarts` use. `FindsFirst` and
`PrefixOfId` are the lemmas on `findByPrefix`.

`TokensProofs` proves, for every life of a token, age of renewal and interval between fetches
(`DurationAssumption`: positive, and renewal before the end) and every number of keys and faults:

* `TokenInvariance`, `TokenTypeCorrectness`;
* `ReadAlwaysAllowsWrite`, `OutageIsAlwaysBounded`: the safety properties of `tokens`.

`TokenInv` says that a live token's key is published at least as long as the token lives
(`PublishedInv`), that the verifier knows what it verified a read with (`ReadInv`), and that a live
token it does not know is younger than its last fetch (`FetchInv`).

Only model-checked: the liveness properties (`Settles`, `CliReturns`, `HandlersFinish`, `Delivers`,
`Terminates`, `RolloutEnds`, `CreateReturns`, `ServedAgain`, `SagaEnds`), since fairness and ENABLED
are beyond the prover. Every safety property of the passing runs is a theorem. The theorems of
`AwaitedProofs` and `LedgerProofs` need `CallsAreAwaited`: without it `RecordTracksSaga` and
`LedgerKept` are false, as `doc_late_write` and `doc_conductor_restart` show. `ReadyUnlessUndone` is
checked with the budget of `core_settles`, which satisfies it.

## What is not modelled

* Real-mode steps beside handlers that the conductor gave up on: `AwsSteps` has one request
  at a time, `Provisioning` has several with the dry-run bodies, whose fields are set
  and stored at once.
* `forge destroy`: it reads the record, prints that it destroys the environment and
  returns (`cmd/forge/main.go:242`). No step of the system follows, although
  `docs/cli-reference.md:71` says that it triggers the compensation.
* Recovery of provisions by forge-api: there is none to model. An environment whose
  goroutine dies before its saga is started stays in `provisioning`, so `Settles` is
  checked with worker failures and without crashes of forge-api; the safety
  properties of `core_at_least_once` are checked with them.
* Throttling, quotas and AWS's own failures beyond an error answer.
* An end to the poll of `forge create` when nobody stores a final status: after an abort or a dead
  letter (Provision returns nil, `cmd/forge-api/main.go:123`), after a Put of `failed` that fails
  (`apiserver/server.go:173`), or after the death of forge-api when the saga does not complete, the
  record stays in `provisioning` (`cmd/forge/main.go:199`) and the command polls for ever. The code
  has none, so `CreateReturns` exempts exactly these (`Abandoned`); `CliReturns` is about sagas that
  complete or roll back, and is checked with failures of the worker. `docs/demo-moments.md:136` tells of the record after an abort.
* A worker that fell back to sending no token (`cmd/forge-worker/main.go:137`) is refused by a
  forge-api that verifies until one of them restarts: `ServedAgain` exempts it.
* Revocation of tokens, and changes of policies by an operator.
* `Delete` and `OpenReadOnly` of the store, which only tests call.
* The admin proxies of forge-worker and the forge commands on policies and tokens: each passes
  one call on and keeps nothing. Metrics, `forge sagas list`, formatting, other manifests.

## Plan

1. (done) Record, forge-api, worker, conductor, CLI and their composition; the
   abstract ledger; shutdown; the safety invariant proved.
2. (done) `AwsSteps`: the real-mode steps as their sequences of calls. The second invariant,
   for awaited calls, proved.
3. (done) `ApiStartup` and `Rollout`, `Lookups`, `Tokens`, and their safety properties proved.
4. (done) Proofs: `Provisioning` implements `EnvLedger` while calls are awaited, and the copies are
   current; all safety properties of `AwsSteps`.
5. Proofs: an action property of the real-mode steps (what the record names is deleted only by
   its step's compensation), a bound on the strays in terms of the failures, and what remains of
   `AwaitedInv` when only StartSaga breaks.
