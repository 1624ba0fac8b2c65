------------------------------ MODULE Rollout ------------------------------
(***************************************************************************)
(* A rollout of forge-api: the old pod shuts down (ApiShutdown) while its  *)
(* successor starts (ApiStartup).  With maxSurge 0 the old pod is told to  *)
(* stop first (k8s/forge-api.yaml:34), but nobody waits for it to end: the *)
(* two meet at the lock on the store's file.                               *)
(***************************************************************************)
EXTENDS ApiShutdown, ApiStartup

VARIABLE killed   \* whether the old pod was killed before it was done

rolloutVars == <<vars, startupVars, killed>>

RolloutTypeOK == TypeOK /\ StartupTypeOK /\ killed \in BOOLEAN

RolloutInit == Init /\ StartupInit /\ killed = FALSE

\* The old pod holds the file's lock as long as its store is open; so does
\* the successor from environment.Open to its exit.
LockFree  == ~open
Successor == pod \in {"fetching", "waiting", "serving"}

-----------------------------------------------------------------------------
\* The old pod's terminationGracePeriodSeconds are over: SIGKILL, which
\* releases the lock.
Kill ==
    /\ cancelled /\ main # "exited"
    /\ main' = "exited" /\ killed' = TRUE
    /\ open' = FALSE
    /\ UNCHANGED <<cancelled, listening, wg, req, status, early, startupVars>>

OldPod == Next /\ UNCHANGED <<startupVars, killed>>

Start       == cancelled /\ StartContainer /\ UNCHANGED <<vars, killed>>
Open        == OpenStore(LockFree) /\ UNCHANGED <<vars, killed>>
FindsLocked == OpenTimesOut(LockFree) /\ UNCHANGED <<vars, killed>>

NewPod ==
    /\ \/ FetchSucceeds \/ FetchFails \/ FetchHangs \/ WaitEnds
       \/ WaitInterrupted \/ ServeInterrupted \/ ProbeKills
    /\ UNCHANGED <<vars, killed>>

ReplacePod == ReplaceStarting /\ UNCHANGED <<vars, killed>>

RolloutNext ==
    OldPod \/ Kill \/ Start \/ Open \/ FindsLocked \/ NewPod \/ ReplacePod

RolloutSpec == RolloutInit /\ [][RolloutNext]_rolloutVars

\* The old pod's fairness, and Kubernetes and the new pod go on.  Neither
\* the fetches nor the kill are assumed to do anything in particular.
RolloutFairSpec ==
    /\ RolloutSpec
    /\ Fairness
    /\ WF_rolloutVars(Start) /\ WF_rolloutVars(Open) /\ WF_rolloutVars(FindsLocked)
    /\ WF_rolloutVars(NewPod)

-----------------------------------------------------------------------------
(***************************************************************************)
(* Once the successor has the store, the old pod writes nothing any more:  *)
(* no late goroutine of it changes a status under the successor            *)
(* (environment.Open's lock, store.go:41, against the Put that             *)
(* apiserver/server.go:173 may still be at).                               *)
(***************************************************************************)
HandoverIsClean == [][Successor => UNCHANGED status]_rolloutVars

(***************************************************************************)
(* Unless the old pod is killed, the successor finds no environment in     *)
(* "provisioning" for having been in flight at SIGTERM: run drains before  *)
(* its deferred Close releases the lock (cmd/forge-api/main.go:46).        *)
(* (Those that the code leaves so at any other time are exempted.)         *)
(***************************************************************************)
SuccessorFindsSettled ==
    Successor /\ ~killed =>
        \A r \in early : status[r] \in {"ready", "failed"} \/ req[r] \in LeftOpen

(***************************************************************************)
(* The probe's delay accommodates the retry loop: a container is killed    *)
(* while it starts only if a fetch hung, never for the waits of the loop   *)
(* after a slow take-over of the lock (cmd/forge-api/main.go:67,           *)
(* k8s/forge-api.yaml:82).                                                 *)
(***************************************************************************)
RetriesAreSpared ==
    [][Starting /\ pod # "opening" /\ pod' = "exited" => told \/ hung']_rolloutVars

(***************************************************************************)
(* A rollout ends with a pod that serves, whatever the fetches of the keys *)
(* do and however the old pod ends: the two do not deadlock on the lock    *)
(* (docs/minikube-setup.md:94 tells of a rollout that does).  That is so   *)
(* as long as MaxHangs bounds the fetches that hang: nothing in the code   *)
(* limits how long one takes.                                              *)
(***************************************************************************)
RolloutEnds == cancelled ~> pod = "serving" /\ ~told

-----------------------------------------------------------------------------
(* The inductive invariant behind the safety properties.                   *)

\* The goroutines that the WaitGroup counts.
Counted == {r \in Request : req[r] \in {"provisioning", "marking"}}

\* Before SIGTERM nothing is under way; the store is closed after draining,
\* or by the kill.
OldInv ==
    /\ ~cancelled => listening /\ open /\ main = "serving" /\ early = {} /\ pod = "absent"
    /\ main = "serving" \/ ~listening \/ killed
    /\ main \in {"serving", "draining", "closing"} => open
    /\ killed => main = "exited"

\* The WaitGroup counts the provisions that run.  One that was in flight
\* at SIGTERM is still at it, which main waits for, or settled.
EarlyInv ==
    /\ wg = Cardinality(Counted)
    /\ \A r \in early : r \in Counted \/ Settled(r)
    /\ main \in {"closing", "closed", "exited"} /\ ~killed =>
          \A r \in early : Settled(r)

\* The lock has one holder.
LockInv == Successor => ~open

\* When the n-th attempt begins at the latest, if none hangs.
Slot(n) == LockTimeout + n * (QuickFetch + Wait)

AgeInv ==
    /\ pod = "opening" => age = 0 /\ attempt = 0
    /\ pod = "fetching" => attempt < MaxAttempts /\ (hung \/ age <= Slot(attempt))
    /\ pod = "waiting" => attempt > 0 /\ (hung \/ age + Wait <= Slot(attempt))

RolloutInv == RolloutTypeOK /\ OldInv /\ EarlyInv /\ LockInv /\ AgeInv
=============================================================================
