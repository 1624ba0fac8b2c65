------------------------------ MODULE ForgeApi ------------------------------
(***************************************************************************)
(* forge-api: the process that owns the BoltDB store, and the provisioning *)
(* goroutine that handleCreateEnv starts for the environment               *)
(* (cmd/forge-api/main.go, internal/apiserver/server.go).                  *)
(*                                                                         *)
(* The goroutine works on its own copy of the record (mem), made when the  *)
(* request came in; the worker's steps change the stored record (rec).     *)
(***************************************************************************)
EXTENDS Environment

VARIABLES
    rec,    \* the stored record: durable
    api,    \* the process: "up", "stopping" (context cancelled) or "down"
    prov,   \* where the provisioning goroutine is
    mem     \* the goroutine's copy of the record: gone when it ends

apiVars == <<rec, api, prov, mem>>

(***************************************************************************)
(* "create"  about to call or in CreateEnvSaga                             *)
(* "record"  about to store the record with the saga ID                    *)
(* "start"   about to call StartEnvSaga                                    *)
(* "waiting" StartEnvSaga blocks until the saga is over                    *)
(* "failing" Provision returned an error                                   *)
(* "ended"   the goroutine is gone: it returned, or the process died       *)
(***************************************************************************)
ProvState == {"none", "create", "record", "start", "waiting", "failing", "ended"}

ApiTypeOK ==
    /\ rec \in Record
    /\ api \in {"up", "stopping", "down"}
    /\ prov \in ProvState
    /\ mem \in Record

ApiInit ==
    /\ rec = NoRecord
    /\ api = "up"
    /\ prov = "none"
    /\ mem = NoRecord

-----------------------------------------------------------------------------
(* Mutated forms of the definitions below. *)

\* The saga ID is not set before the record is stored.
RecordSagaWithoutId ==
    /\ prov = "record" /\ api # "down"
    /\ rec' = [mem EXCEPT !.saga = FALSE]
    /\ prov' = "start"
    /\ UNCHANGED <<api, mem>>

\* The goroutine treats a FAILED saga like a COMPLETED one.
SagaReturnedNilForFailed(status) ==
    /\ prov = "waiting" /\ api # "down"
    /\ prov' = "ended"
    /\ mem' = NoRecord
    /\ UNCHANGED <<rec, api>>

\* The goroutine marks the record failed whatever the saga's end.
SagaReturnedAlwaysFails(status) ==
    /\ prov = "waiting" /\ api # "down"
    /\ prov' = "failing"
    /\ UNCHANGED <<rec, api, mem>>

\* StartEnvSaga does not wait for the saga's end.
SagaStartedNoWait ==
    /\ prov = "start" /\ api # "down"
    /\ prov' = "failing"
    /\ UNCHANGED <<rec, api, mem>>

-----------------------------------------------------------------------------
\* POST /envs/create: store the record, start the goroutine.
CreateEnv(fail) ==
    /\ api = "up" /\ prov = "none" /\ rec = NoRecord
    /\ rec' = NewEnv(fail)
    /\ mem' = NewEnv(fail)
    /\ prov' = "create"
    /\ UNCHANGED api

\* CreateEnvSaga returned an ID: env.SagaID is set in the goroutine's copy.
SagaCreated ==
    /\ prov = "create" /\ api # "down"
    /\ mem' = [mem EXCEPT !.saga = TRUE]
    /\ prov' = "record"
    /\ UNCHANGED <<rec, api>>

\* store.Put(env) with the saga ID.
RecordSaga ==
    /\ prov = "record" /\ api # "down"
    /\ rec' = mem
    /\ prov' = "start"
    /\ UNCHANGED <<api, mem>>

\* StartEnvSaga reached the conductor and blocks.
SagaStarted ==
    /\ prov = "start" /\ api # "down"
    /\ prov' = "waiting"
    /\ UNCHANGED <<rec, api, mem>>

\* A call or a Put of Provision fails: it returns the error.
ProvisionFails(at) ==
    /\ prov = at /\ api # "down"
    /\ prov' = "failing"
    /\ UNCHANGED <<rec, api, mem>>

\* StartEnvSaga returned the saga's terminal status: Provision turns FAILED,
\* and only FAILED, into an error.
SagaReturned(status) ==
    /\ prov = "waiting" /\ api # "down"
    /\ IF status = "failed"
         THEN prov' = "failing" /\ UNCHANGED mem
         ELSE prov' = "ended" /\ mem' = NoRecord
    /\ UNCHANGED <<rec, api>>

\* The goroutine's error path stores its own copy, with status failed.
MarkFailed ==
    /\ prov = "failing" /\ api # "down"
    /\ rec' = [mem EXCEPT !.status = "failed"]
    /\ prov' = "ended"
    /\ mem' = NoRecord
    /\ UNCHANGED api

\* That Put fails: the error is logged and nothing else happens.
MarkFailedLost ==
    /\ prov = "failing" /\ api # "down"
    /\ prov' = "ended"
    /\ mem' = NoRecord
    /\ UNCHANGED <<rec, api>>

\* PUT /internal/envs/{id}: the body replaces the whole stored record.
PutEnv(env) ==
    /\ api = "up"
    /\ rec' = env
    /\ UNCHANGED <<api, prov, mem>>

\* SIGTERM: the server context is cancelled and the listeners close.
ApiStop ==
    /\ api = "up"
    /\ api' = "stopping"
    /\ UNCHANGED <<rec, prov, mem>>

\* ListenAndServe returns once the goroutine is done; run closes the store.
ApiExit ==
    /\ api = "stopping" /\ prov \in {"none", "ended"}
    /\ api' = "down"
    /\ UNCHANGED <<rec, prov, mem>>

\* The process is killed: only the stored record is left.
ApiCrash ==
    /\ api # "down"
    /\ api' = "down"
    /\ prov' = IF prov = "none" THEN "none" ELSE "ended"
    /\ mem' = NoRecord
    /\ UNCHANGED rec

\* run opens the store and serves; it looks at no stored record.
ApiRestart ==
    /\ api = "down"
    /\ api' = "up"
    /\ UNCHANGED <<rec, prov, mem>>
=============================================================================
