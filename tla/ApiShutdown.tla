---------------------------- MODULE ApiShutdown ----------------------------
(***************************************************************************)
(* forge-api shutting down (apiserver ListenAndServe, and run in           *)
(* cmd/forge-api/main.go) while requests to create environments are being  *)
(* served.  http.Server's ListenAndServe returns as soon as Shutdown has   *)
(* closed the listeners, not when the handlers are done; what the server   *)
(* waits for is the WaitGroup of the provisioning goroutines.              *)
(***************************************************************************)
EXTENDS Integers, FiniteSets

CONSTANT Request   \* the requests to create an environment

ASSUME RequestAssumption == IsFiniteSet(Request)

VARIABLES
    cancelled,  \* the server's context: SIGTERM has come
    listening,  \* whether the listeners are open
    main,       \* where the main goroutine is
    open,       \* whether the store is open
    wg,         \* the WaitGroup's counter
    req,        \* where each request, then its provisioning goroutine, is
    status,     \* the status stored for each request's environment
    early       \* history: the provisions in flight when SIGTERM came

vars == <<cancelled, listening, main, open, wg, req, status, early>>

ReqState == {"none", "accepted", "stored", "rejected", "provisioning", "marking",
             "done",        \* the final status is stored
             "left",        \* Provision returned nil, and nobody has stored one
             "unmarked",    \* the Put of "failed" failed
             "late"}        \* it found the store closed

TypeOK ==
    /\ cancelled \in BOOLEAN /\ listening \in BOOLEAN /\ open \in BOOLEAN
    /\ main \in {"serving", "draining", "closing", "closed", "exited"}
    /\ wg \in 0..Cardinality(Request)
    /\ req \in [Request -> ReqState]
    /\ status \in [Request -> {"absent", "provisioning", "ready", "failed"}]
    /\ early \subseteq Request

Init ==
    /\ cancelled = FALSE /\ listening = TRUE /\ open = TRUE
    /\ main = "serving"
    /\ wg = 0
    /\ req = [r \in Request |-> "none"]
    /\ status = [r \in Request |-> "absent"]
    /\ early = {}

\* Request r goes from one state to another; the process is there to do it.
Step(r, from, to) ==
    /\ main # "exited"
    /\ req[r] = from
    /\ req' = [req EXCEPT ![r] = to]

server == <<cancelled, listening, main, open, early>>

-----------------------------------------------------------------------------
(* Mutated forms of the definitions below. *)

\* wg.Add(1) is called by nobody in time.
SpawnUncounted(r) ==
    /\ Step(r, "stored", "provisioning")
    /\ UNCHANGED <<server, wg, status>>

\* The error path releases the WaitGroup before it stores the status.
ProvisionFailsReleased(r) ==
    /\ Step(r, "provisioning", "marking")
    /\ wg' = wg - 1
    /\ UNCHANGED <<server, status>>

\* Nobody calls wg.Wait.
DrainedAtOnce ==
    /\ main = "draining"
    /\ main' = "closing"
    /\ UNCHANGED <<cancelled, listening, open, wg, req, status, early>>

\* wg.Done is not called when the provision fails.
MarkFailedUnreleased(r) ==
    /\ open
    /\ Step(r, "marking", "done")
    /\ status' = [status EXCEPT ![r] = "failed"]
    /\ UNCHANGED <<server, wg>>

-----------------------------------------------------------------------------
(* handleCreateEnv and its goroutine.                                      *)

Accept(r) ==
    /\ listening
    /\ Step(r, "none", "accepted")
    /\ UNCHANGED <<server, wg, status>>

\* store.Put(env); a closed store returns an error, answered 500.
StoreNew(r) ==
    /\ IF open
         THEN /\ Step(r, "accepted", "stored")
              /\ status' = [status EXCEPT ![r] = "provisioning"]
         ELSE /\ Step(r, "accepted", "rejected")
              /\ UNCHANGED status
    /\ UNCHANGED <<server, wg>>

\* wg.Add(1); go func() { defer wg.Done() ... }
Spawn(r) ==
    /\ Step(r, "stored", "provisioning")
    /\ wg' = wg + 1
    /\ UNCHANGED <<server, status>>

\* Provision returns nil: the registry step has stored "ready".
ProvisionReturns(r) ==
    /\ open
    /\ Step(r, "provisioning", "done")
    /\ status' = [status EXCEPT ![r] = "ready"]
    /\ wg' = wg - 1
    /\ UNCHANGED server

\* So it does when the saga was aborted or dead-lettered, with the status as
\* it is.
ProvisionLeaves(r) ==
    /\ Step(r, "provisioning", "left")
    /\ wg' = wg - 1
    /\ UNCHANGED <<server, status>>

\* Provision returns an error: the saga failed, or the context is cancelled.
ProvisionFails(r) ==
    /\ Step(r, "provisioning", "marking")
    /\ UNCHANGED <<server, wg, status>>

\* store.Put(env) with status failed.
MarkFailed(r) ==
    /\ open
    /\ Step(r, "marking", "done")
    /\ status' = [status EXCEPT ![r] = "failed"]
    /\ wg' = wg - 1
    /\ UNCHANGED server

\* It fails, as it does on a closed store: the error is only logged.
MarkFailedLost(r) ==
    /\ Step(r, "marking", IF open THEN "unmarked" ELSE "late")
    /\ wg' = wg - 1
    /\ UNCHANGED <<server, status>>

Mark(r) == MarkFailed(r) \/ MarkFailedLost(r)

-----------------------------------------------------------------------------
(* The main goroutine, and the one that waits for the context.             *)

Sigterm ==
    /\ ~cancelled
    /\ cancelled' = TRUE
    /\ early' = {r \in Request : req[r] \in {"provisioning", "marking"}}
    /\ UNCHANGED <<listening, main, open, wg, req, status>>

\* srv.Shutdown closes the listeners (then waits for the handlers, but
\* nobody waits for it).
Shutdown ==
    /\ cancelled /\ listening
    /\ listening' = FALSE
    /\ UNCHANGED <<cancelled, main, open, wg, req, status, early>>

\* srv.ListenAndServe returns ErrServerClosed.
ServeReturns ==
    /\ main = "serving" /\ ~listening
    /\ main' = "draining"
    /\ UNCHANGED <<cancelled, listening, open, wg, req, status, early>>

\* s.wg.Wait()
Drained ==
    /\ main = "draining" /\ wg = 0
    /\ main' = "closing"
    /\ UNCHANGED <<cancelled, listening, open, wg, req, status, early>>

\* run's deferred store.Close().
CloseStore ==
    /\ main = "closing"
    /\ open' = FALSE
    /\ main' = "closed"
    /\ UNCHANGED <<cancelled, listening, wg, req, status, early>>

\* main returns: the process ends with every goroutine that is left.
Exit ==
    /\ main = "closed"
    /\ main' = "exited"
    /\ UNCHANGED <<cancelled, listening, open, wg, req, status, early>>

-----------------------------------------------------------------------------
Next ==
    \/ \E r \in Request :
          \/ Accept(r) \/ StoreNew(r) \/ Spawn(r)
          \/ ProvisionReturns(r) \/ ProvisionLeaves(r) \/ ProvisionFails(r)
          \/ Mark(r)
    \/ Sigterm \/ Shutdown \/ ServeReturns \/ Drained \/ CloseStore \/ Exit

Spec == Init /\ [][Next]_vars

\* The goroutines run; once the context is cancelled Provision returns.
Fairness ==
    /\ \A r \in Request :
          WF_vars(cancelled /\ ProvisionFails(r)) /\ WF_vars(Mark(r))
    /\ WF_vars(Shutdown) /\ WF_vars(ServeReturns) /\ WF_vars(Drained)
    /\ WF_vars(CloseStore) /\ WF_vars(Exit)

FairSpec == Spec /\ Fairness

-----------------------------------------------------------------------------
\* r's goroutine is through, and its status final; or the code leaves it as it
\* is with the store open (main.go:123-126, server.go:173).
LeftOpen == {"left", "unmarked"}
Settled(r) ==
    \/ req[r] = "done" /\ status[r] \in {"ready", "failed"}
    \/ req[r] \in LeftOpen

(***************************************************************************)
(* The provisions in flight when SIGTERM comes are over before the store   *)
(* is closed: none of them is still at work, or is shut out and leaves its *)
(* environment in "provisioning" for that (apiserver/server.go:468).  What *)
(* the code leaves so with the store open, after an abort, a dead letter   *)
(* or a failed Put, it leaves at SIGTERM too.                              *)
(***************************************************************************)
EarlyProvisionsSettle == main = "closed" => \A r \in early : Settled(r)

(***************************************************************************)
(* SIGTERM ends the process: no provision keeps wg.Wait from returning.    *)
(***************************************************************************)
Terminates == cancelled ~> main = "exited"

(***************************************************************************)
(* ListenAndServe "waits for all in-flight provisions to complete before   *)
(* returning" (apiserver/server.go:450).                                   *)
(***************************************************************************)
WaitsForProvisions ==
    main \in {"closing", "closed", "exited"} =>
        \A r \in Request : req[r] \notin {"provisioning", "marking"}
=============================================================================
