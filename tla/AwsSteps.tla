------------------------------ MODULE AwsSteps ------------------------------
(***************************************************************************)
(* The steps outside dry-run mode (internal/steps): Execute and Compensate *)
(* are sequences of calls on AWS, on svid-exchange and on the store, any   *)
(* of which may fail; the conductor then delivers the step again.          *)
(*                                                                         *)
(* A step that the conductor gives up on is cut short here: its calls take *)
(* the request's context, which ends with the connection.  Handlers that   *)
(* go on are the subject of Provisioning.                                  *)
(*                                                                         *)
(* Meanwhile a goroutine of forge-api waits in StartSaga.  If that returns *)
(* an error, because the saga failed or only because the call broke off,   *)
(* the goroutine stores its copy of the record, from before the first step.*)
(***************************************************************************)
EXTENDS AwsAccount

CONSTANTS
    Retries,       \* max_retries of every step
    MaxErrors,     \* calls that fail, or whose answer is lost
    MaxRestarts,   \* deaths of forge-worker
    MaxBreaks      \* restarts of the conductor, aborts, timeouts and broken calls

ASSUME AwsStepsAssumption ==
    Retries \in Nat /\ MaxErrors \in Nat /\ MaxRestarts \in Nat /\ MaxBreaks \in Nat

VARIABLES
    stored,        \* the stored record: its fields
    req,           \* the request that forge-worker serves
    left,          \* what may still go wrong
    prov,          \* forge-api's goroutine: waiting, failing or ended
    saga, cur, failedStep, tries, call     \* as in Conductor

sagaVars == <<saga, cur, failedStep, tries, call>>
vars == <<accountVars, stored, req, left, prov, sagaVars>>

\* forge-worker takes one request at a time: there is one slot.
Saga == INSTANCE Conductor
          WITH ResourceCount <- 6, Handler <- {"slot"}, NoCall <- "none",
               MaxRetries <- [s \in 1..8 |-> Retries],
               worker <- "up", handler <- <<>>

Field == (Kind \ {"object"}) \cup {"endpoint", "password", "ip", "entries", "status"}

Empty == [f \in Field |-> 0]

\* The steps, in the order of buildStepDefs.
Vpc == 1
Rds == 2
Ec2 == 3
S3  == 4
Identity == 5
Config   == 6
Health   == 7
Registry == 8

-----------------------------------------------------------------------------
(* What a step consists of.                                                *)

Do(verb, what) == [do |-> verb, on |-> what]

Create(k)    == Do("create", k)
Configure(k) == Do("configure", k)
Await(k)     == Do("await", k)
Delete(k)    == Do("delete", k)
AwaitGone(k) == Do("awaitGone", k)
Other        == Do("other", "nothing")    \* a call that may fail, with no effect here
Set(f)       == Do("set", f)
Clear(fs)    == Do("clear", fs)
Put          == Do("put", "nothing")

\* calls if the record has an identifier for them.
If(env, f, calls) == IF env[f] # 0 THEN calls ELSE <<>>

-----------------------------------------------------------------------------
(* Mutated forms of the definitions below: see the "mutants" of the runs. *)

\* The record is stored before the instance is created.
RdsExecuteSavesFirst ==
    << Set("password"), Set("db"), Put, Create("db"), Await("db"), Other,
       Set("endpoint"), Put >>

\* The VPC goes first.
VpcCompensateVpcFirst(env) ==
    If(env, "vpc", << Delete("vpc") >>) \o If(env, "sg", << Delete("sg") >>)
        \o If(env, "pub", << Delete("pub") >>) \o If(env, "prv", << Delete("prv") >>)
        \o << Clear({"sg", "pub", "prv", "vpc"}), Put >>

\* The record keeps the identifier of the terminated instance.
Ec2CompensateKeepsId(env) ==
    If(env, "instance", << Delete("instance"), AwaitGone("instance"), Clear({"ip"}), Put >>)

\* The waiter waits for the instance to run.
RdsCompensateAwaitsAvailable(env) ==
    If(env, "db", << Delete("db"), Await("db"),
                     Clear({"db", "endpoint", "password"}), Put >>)

\* The database may still be on its way out when the VPC is next.
RdsCompensateAwaitsNothing(env) ==
    If(env, "db", << Delete("db"), Clear({"db", "endpoint", "password"}), Put >>)

\* The local file is forgotten.
ConfigCompensateKeepsFile(env) ==
    If(env, "bucket", << Do("hide", "object") >>) \o << Clear({"file"}), Put >>

\* An identifier is enough: the instance's state is not asked for.
IsAlreadyDoneById(s, env) ==
    CASE s = Vpc -> env["vpc"] # 0
      [] s = Rds -> env["db"] # 0
      [] s = Ec2 -> env["instance"] # 0
      [] s = S3  -> env["bucket"] # 0
      [] s = Identity -> env["policy"] # 0
      [] s = Config   -> env["file"] # 0
      [] s = Health   -> FALSE
      [] s = Registry -> env["status"] # 0

\* A cleared field is dropped from the record.
NotedDropsFields(c, env) ==
    CASE c.do = "clear" -> [f \in DOMAIN env \ c.on |-> env[f]]
      [] c.do \in {"create", "set"} -> [env EXCEPT ![c.on] = 1]
      [] OTHER -> env

-----------------------------------------------------------------------------
(* The steps.                                                              *)

VpcExecute ==
    << Create("vpc"), Other, Await("vpc"), Create("pub"), Create("prv"),
       Create("sg"), Configure("sg"), Put >>

RdsExecute ==
    << Set("password"), Create("db"), Put, Await("db"), Other, Set("endpoint"), Put >>

Ec2Execute ==
    << Create("instance"), Put, Await("instance"), Other, Set("ip"), Put >>

S3Execute ==
    << Create("bucket"), Configure("bucket"), Do("upload", "placeholder"), Put >>

\* Create the policy, find it in the list, reload.
IdentityExecute == << Create("policy"), Other, Other, Set("entries"), Put >>

ConfigExecute == << Do("upload", "config"), Create("file"), Put >>

HealthExecute == << Do("check", "db") >>

RegistryExecute == << Set("status"), Put >>

VpcCompensate(env) ==
    If(env, "sg", << Delete("sg") >>) \o If(env, "pub", << Delete("pub") >>)
        \o If(env, "prv", << Delete("prv") >>) \o If(env, "vpc", << Delete("vpc") >>)
        \o << Clear({"sg", "pub", "prv", "vpc"}), Put >>

RdsCompensate(env) ==
    If(env, "db", << Delete("db"), AwaitGone("db"),
                     Clear({"db", "endpoint", "password"}), Put >>)

Ec2Compensate(env) ==
    If(env, "instance", << Delete("instance"), AwaitGone("instance"),
                           Clear({"instance", "ip"}), Put >>)

\* All versions of config.json, then the bucket.
S3Compensate(env) ==
    If(env, "bucket", << Delete("object"), Delete("bucket"), Clear({"bucket"}), Put >>)

IdentityCompensate(env) ==
    If(env, "policy", << Delete("policy"), Clear({"policy"}), Other >>)
        \o << Clear({"entries"}), Put >>

ConfigCompensate(env) ==
    If(env, "bucket", << Do("hide", "object") >>)
        \o If(env, "file", << Delete("file"), Clear({"file"}) >>)
        \o << Put >>

\* What a request runs; nothing when the step is already done.
Compensation(s, env) ==
    CASE s = Vpc -> VpcCompensate(env)
      [] s = Rds -> RdsCompensate(env)
      [] s = Ec2 -> Ec2Compensate(env)
      [] s = S3  -> S3Compensate(env)
      [] s = Identity -> IdentityCompensate(env)
      [] s = Config   -> ConfigCompensate(env)
      [] OTHER -> <<>>

Execution ==
    << VpcExecute, RdsExecute, Ec2Execute, S3Execute, IdentityExecute,
       ConfigExecute, HealthExecute, RegistryExecute >>

IsAlreadyDone(s, env) ==
    CASE s = Vpc -> env["vpc"] # 0
      [] s = Rds -> env["db"] # 0 /\ InState("db", env["db"], "ready")
      [] s = Ec2 -> env["instance"] # 0 /\ InState("instance", env["instance"], "ready")
      [] s = S3  -> env["bucket"] # 0
      [] s = Identity -> env["policy"] # 0
      [] s = Config   -> env["file"] # 0
      [] s = Health   -> FALSE
      [] s = Registry -> env["status"] # 0

Calls(s, comp, env) ==
    CASE comp                            -> Compensation(s, env)
      [] ~comp /\ IsAlreadyDone(s, env)  -> <<>>
      [] ~comp /\ ~IsAlreadyDone(s, env) -> Execution[s]

-----------------------------------------------------------------------------
(* What a call does, with the handler's copy env of the record.            *)

Inside == Occupants("vpc")

\* The database answers at the endpoint, with the password of the record.
Healthy(env) ==
    /\ env["endpoint"] # 0
    /\ \E n \in Alive("db") : /\ account["db"][n].state = "ready"
                              /\ account["db"][n].pass = env["password"]

Content(c, env) ==
    IF c.on = "config" THEN [endpoint |-> env["endpoint"], password |-> env["password"]]
                       ELSE NoConfig

\* The call succeeds, with this effect.
Succeeds(c, env) ==
    \/ /\ c.do = "create"
       /\ CreateResource(c.on, IF c.on \in Inside THEN env["vpc"] ELSE 0,
                               IF c.on = "db" THEN env["password"] ELSE 0)
       /\ UNCHANGED stored
    \/ /\ c.do = "configure"
       /\ ConfigureResource(c.on, env[c.on])
       /\ UNCHANGED stored
    \/ /\ c.do = "delete"
       /\ c.on = "object" => Alive("bucket") # {}
       /\ DeleteResource(c.on, IF c.on = "object" THEN 1 ELSE env[c.on])
       /\ UNCHANGED stored
    \/ /\ c.do = "upload" /\ env["bucket"] # 0
       /\ Upload(Content(c, env))
       /\ UNCHANGED stored
    \/ c.do = "hide" /\ HideObject /\ UNCHANGED stored
    \/ c.do = "put" /\ stored' = env /\ UNCHANGED accountVars
    \/ /\ \/ c.do \in {"other", "set", "clear"}
          \/ c.do = "await" /\ HasCome(c.on, env[c.on])
          \/ c.do = "awaitGone" /\ HasGone(c.on, env[c.on])
          \/ c.do = "check" /\ Healthy(env)
       /\ UNCHANGED <<accountVars, stored>>

\* The service answers with an error that no retry helps against, or the
\* environment is not healthy (or, FailAtHealth, is taken not to be).  With an
\* empty bucket name there is no call; a create without the identifiers of the
\* subnet and the security group may be taken for one in the default VPC.
Refused(c, env) ==
    \/ c.do = "create" /\ c.on # "file" /\ CreateRefused(c.on)
    \/ c \in {Create("db"), Create("instance")} /\ env["vpc"] = 0
    \/ c.do = "delete" /\ c.on \notin {"object", "file"} /\ DeleteRefused(c.on, env[c.on])
    \/ /\ c.do \in {"upload", "hide"} \/ c = Delete("object")
       /\ env["bucket"] = 0 \/ Alive("bucket") = {}
    \/ c.do = "check"

\* A password like no other; a fixed name or a new identifier.
Value(f) ==
    CASE f = "password"           -> Len(account["db"]) + 1
      [] f \in Kind \ Named       -> Len(account[f]) + 1
      [] OTHER                    -> 1

Noted(c, env) ==
    CASE c.do \in {"create", "set"} -> [env EXCEPT ![c.on] = Value(c.on)]
      [] c.do = "clear" -> [f \in Field |-> IF f \in c.on THEN 0 ELSE env[f]]
      [] OTHER          -> env

-----------------------------------------------------------------------------
(* The actions.                                                            *)

Idle == [todo |-> <<>>, env |-> Empty]

TypeOK ==
    /\ AccountTypeOK
    /\ Saga!ConductorTypeOK
    /\ stored \in [Field -> Nat]
    /\ req.env \in [Field -> Nat]
    /\ left \in [errors : 0..MaxErrors, restarts : 0..MaxRestarts, breaks : 0..MaxBreaks]
    /\ prov \in {"waiting", "failing", "ended"}

\* The saga has just been started.
Init ==
    /\ AccountInit
    /\ stored = Empty
    /\ req = Idle
    /\ left = [errors |-> MaxErrors, restarts |-> MaxRestarts, breaks |-> MaxBreaks]
    /\ prov = "waiting"
    /\ saga = "running" /\ cur = Vpc /\ failedStep = 0 /\ tries = 0 /\ call = "none"

Serving == call # "none"

\* The request comes in: the record is loaded, IsAlreadyDone asked.
CallStep ==
    /\ Saga!Issue("slot")
    /\ req' = [todo |-> Calls(cur, saga = "compensating", stored), env |-> stored]
    /\ UNCHANGED <<accountVars, stored, left, prov>>

CallSucceeds ==
    /\ Serving /\ req.todo # <<>>
    /\ Succeeds(Head(req.todo), req.env)
    /\ req' = [todo |-> Tail(req.todo), env |-> Noted(Head(req.todo), req.env)]
    /\ UNCHANGED <<left, prov, sagaVars>>

\* The step returns its error: what the handler noted in its copy is lost.
CallRefused ==
    /\ Serving /\ req.todo # <<>>
    /\ Refused(Head(req.todo), req.env)
    /\ Saga!AttemptFails
    /\ req' = Idle
    /\ UNCHANGED <<accountVars, stored, left, prov>>

\* An error at any point; after the call before took effect, if the
\* answer to that is what was lost.  The step's timeout is one too.
CallFails ==
    /\ Serving /\ left.errors > 0
    /\ left' = [left EXCEPT !.errors = @ - 1]
    /\ Saga!AttemptFails
    /\ req' = Idle
    /\ UNCHANGED <<accountVars, stored, prov>>

StepReturns ==
    /\ Serving /\ req.todo = <<>>
    /\ Saga!Advance
    /\ req' = Idle
    /\ UNCHANGED <<accountVars, stored, left, prov>>

WorkerDies ==
    /\ Serving /\ left.restarts > 0
    /\ left' = [left EXCEPT !.restarts = @ - 1]
    /\ Saga!AttemptFails
    /\ req' = Idle
    /\ DiskLost \/ UNCHANGED accountVars
    /\ UNCHANGED <<stored, prov>>

\* Something outside the steps interferes with the saga.
Breaks ==
    /\ left.breaks > 0
    /\ left' = [left EXCEPT !.breaks = @ - 1]
    /\ UNCHANGED <<accountVars, stored>>

\* Its connections break, StartSaga's too; the resumed conductor calls the
\* step again.
ConductorRestarts ==
    /\ Breaks
    /\ Saga!Crash
    /\ req' = Idle
    /\ prov' = IF prov = "waiting" THEN "failing" ELSE prov

\* "forge sagas abort", and saga_timeout_seconds.
SagaStopped ==
    /\ Breaks
    /\ Saga!AbortSaga \/ Saga!SagaTimeout
    /\ req' = Idle
    /\ UNCHANGED prov

\* StartSaga returns an error although the saga goes on: the connection broke,
\* or forge-api was asked to stop and cancelled the call.
StartSagaBreaks ==
    /\ Breaks
    /\ prov = "waiting" /\ prov' = "failing"
    /\ UNCHANGED <<req, sagaVars>>

\* StartSaga returns the saga's end: Provision makes an error of FAILED only.
SagaReturns ==
    /\ prov = "waiting" /\ saga \in Saga!Terminal
    /\ prov' = IF saga = "failed" THEN "failing" ELSE "ended"
    /\ UNCHANGED <<accountVars, stored, req, left, sagaVars>>

\* The goroutine stores its copy: what the steps have stored since is gone.
MarkFailed ==
    /\ prov = "failing" /\ prov' = "ended"
    /\ stored' = Empty
    /\ UNCHANGED <<accountVars, req, left, sagaVars>>

\* The goroutine dies with forge-api, or its Put fails.
ProvisionLost ==
    /\ prov # "ended" /\ prov' = "ended"
    /\ UNCHANGED <<accountVars, stored, req, left, sagaVars>>

AwsSettles(k) == Settle(k) /\ UNCHANGED <<stored, req, left, prov, sagaVars>>

Next ==
    \/ CallStep \/ CallSucceeds \/ CallRefused \/ CallFails \/ StepReturns
    \/ WorkerDies \/ ConductorRestarts \/ SagaStopped
    \/ StartSagaBreaks \/ SagaReturns \/ MarkFailed \/ ProvisionLost
    \/ \E k \in SlowToCome : AwsSettles(k)

Spec == Init /\ [][Next]_vars

\* The worker and the conductor go on, and so does AWS.
FairSpec ==
    /\ Spec
    /\ WF_vars(CallStep) /\ WF_vars(CallSucceeds) /\ WF_vars(CallRefused)
    /\ WF_vars(StepReturns)
    /\ \A k \in SlowToCome : WF_vars(AwsSettles(k))

-----------------------------------------------------------------------------
(* Properties.                                                             *)

\* The step that creates, and removes, resources of kind k.
StepOf(k) ==
    CASE k \in {"vpc", "pub", "prv", "sg"} -> Vpc
      [] k = "db"       -> Rds
      [] k = "instance" -> Ec2
      [] k \in {"bucket", "object"} -> S3
      [] k = "policy"   -> Identity
      [] k = "file"     -> Config

\* Nothing has interfered with the saga: StartSaga returns only when it is over.
Unbroken == left.breaks = MaxBreaks

(***************************************************************************)
(* What the record names exists, except while it is being removed: a retry *)
(* that takes a step for done, or a later step that uses its output, finds *)
(* it there.  (The .env file is on the worker's disk, which goes with it.) *)
(***************************************************************************)
NamedExists ==
    \A k \in (Field \cap Kind) \ {"file"} :
        stored[k] # 0 =>
            \/ Target(k, stored[k]) # {}
            \/ cur = StepOf(k) /\ failedStep # 0

(***************************************************************************)
(* A retry of the rds step draws a new password: the stored one remains    *)
(* that of the database that is there.                                     *)
(***************************************************************************)
PasswordOpens ==
    stored["db"] # 0 =>
        \A n \in Alive("db") : account["db"][n].pass = stored["password"]

(***************************************************************************)
(* A saga that completes, after whatever retries and worker deaths, leaves *)
(* everything up, configured and named by the record, and a config.json    *)
(* that leads to the database.  The endpoint may be missing from the       *)
(* record after a retry (the rds step is done as soon as the instance is   *)
(* available): the health check catches that.  (Not so once StartSaga has  *)
(* broken off: main.go:115-118 and server.go:169-173 then take from the    *)
(* record what it named.)                                                  *)
(***************************************************************************)
CompletedIsWhole ==
    Unbroken /\ saga = "completed" =>
        /\ \A k \in (Field \cap Kind) \ {"file"} :
              stored[k] # 0 /\ InState(k, stored[k], "ready")
        /\ stored["endpoint"] # 0 /\ stored["status"] # 0
        /\ InState("object", 1, "ready")
        /\ config = [endpoint |-> stored["endpoint"], password |-> stored["password"]]

(***************************************************************************)
(* If nothing but the health check fails, the rollback runs through: no    *)
(* deletion is refused because of its order, and nothing is left.          *)
(***************************************************************************)
UndisturbedRollback ==
    left = [errors |-> MaxErrors, restarts |-> MaxRestarts, breaks |-> MaxBreaks]
        /\ saga \in Saga!Terminal \ {"completed"}
    => saga = "failed" /\ stored = Empty /\ \A k \in Kind : Alive(k) = {}

(***************************************************************************)
(* What a finished rollback leaves, in the steps it went through, comes    *)
(* from attempts that failed and were made up for: never the last one of a *)
(* kind, which the record had named.  (Not so once StartSaga has broken    *)
(* off: the compensations delete what the record still names.)             *)
(***************************************************************************)
RollbackLeavesStrays ==
    Unbroken /\ saga = "failed" =>
        \A k \in Kind : StepOf(k) < failedStep => Len(account[k]) \notin Alive(k)

(***************************************************************************)
(* Every saga ends: no waiter waits for what is never coming.              *)
(***************************************************************************)
SagaEnds == saga = "running" ~> saga \in Saga!Terminal

(***************************************************************************)
(* "the provisioner can resume after a crash without creating duplicate    *)
(* AWS resources" (environment/types.go:14).                               *)
(***************************************************************************)
NoDuplicates == \A k \in Kind : Cardinality(Alive(k)) <= 1

(***************************************************************************)
(* "if the conductor restarts mid-poll, we resume polling rather than      *)
(* issuing a second create" (steps/rds.go:138).                            *)
(***************************************************************************)
NoSecondCreate ==
    req.todo # <<>> /\ Head(req.todo) = Create("db") /\ stored["db"] # 0
        => Alive("db") = {}
=============================================================================
