----------------------------- MODULE Conductor -----------------------------
(***************************************************************************)
(* saga-conductor, as env-forge uses it.  It is an external service: this  *)
(* module states what internal/conductor/client.go asks of it and what the *)
(* repository's comments and demo script say it does.  It runs the steps   *)
(* in order, one call at a time, at least once each; it retries a failed   *)
(* call, and when the retries of a step are used up it compensates the     *)
(* steps before it in reverse order.  The step that failed is not itself   *)
(* compensated.                                                            *)
(***************************************************************************)
EXTENDS ForgeWorker

CONSTANTS
    NoCall,      \* no outstanding call
    MaxRetries   \* retries of each step: buildStepDefs

ASSUME ConductorAssumption ==
    /\ NoCall \notin Handler
    /\ MaxRetries \in [Step -> Nat]

VARIABLES
    saga,        \* status of the environment's saga, "none" before it exists
    cur,         \* the step being run or compensated; 0 before and after
    failedStep,  \* the step whose execution failed, 0 while there is none
    tries,       \* failed attempts of the current call
    call         \* the worker slot that serves the outstanding call

conductorVars == <<saga, cur, failedStep, tries, call>>

Terminal == {"completed", "failed", "aborted", "compensation_failed"}
Active   == {"running", "compensating"}

ConductorTypeOK ==
    /\ saga \in {"none", "pending"} \cup Active \cup Terminal
    /\ cur \in 0..Registry
    /\ failedStep \in 0..Registry
    /\ tries \in Nat
    /\ call \in Handler \cup {NoCall}

ConductorInit ==
    /\ saga = "none"
    /\ cur = 0
    /\ failedStep = 0
    /\ tries = 0
    /\ call = NoCall

-----------------------------------------------------------------------------
\* CreateSaga with idempotency key env-<id>: a second call finds the first's.
CreateSaga ==
    /\ saga' = IF saga = "none" THEN "pending" ELSE saga
    /\ UNCHANGED <<cur, failedStep, tries, call>>

StartSaga ==
    /\ saga = "pending"
    /\ saga' = "running"
    /\ cur' = 1
    /\ UNCHANGED <<failedStep, tries, call>>

\* The step is posted to the worker, in slot h.
Issue(h) ==
    /\ saga \in Active /\ call = NoCall
    /\ call' = h
    /\ UNCHANGED <<saga, cur, failedStep, tries>>

\* The call was answered 200: go to the next step, or end the saga.
Advance ==
    /\ IF saga = "running"
         THEN IF cur = Registry
                THEN saga' = "completed" /\ UNCHANGED cur
                ELSE cur' = cur + 1 /\ UNCHANGED saga
         ELSE /\ cur' = cur - 1
              /\ saga' = IF cur = 1 THEN "failed" ELSE saga
    /\ tries' = 0
    /\ call' = NoCall
    /\ UNCHANGED failedStep

\* The retries are used up: compensate what precedes the step, or dead-letter
\* a saga whose compensation fails.
GiveUp ==
    IF saga = "running"
      THEN /\ failedStep' = cur
           /\ cur' = cur - 1
           /\ saga' = IF cur = 1 THEN "failed" ELSE "compensating"
      ELSE /\ saga' = "compensation_failed"
           /\ UNCHANGED <<cur, failedStep>>

\* The call failed: an error reply, a broken connection or a step timeout.
AttemptFails ==
    /\ call' = NoCall
    /\ IF tries < MaxRetries[cur]
         THEN tries' = tries + 1 /\ UNCHANGED <<saga, cur, failedStep>>
         ELSE tries' = 0 /\ GiveUp

\* AbortSaga: no compensation; an outstanding call is no longer waited for.
AbortSaga ==
    /\ saga \notin {"none"} \cup Terminal
    /\ saga' = "aborted"
    /\ call' = NoCall
    /\ UNCHANGED <<cur, failedStep, tries>>

\* saga_timeout_seconds: the saga stops, with the steps before the current one
\* compensated or not.
SagaTimeout ==
    /\ saga = "running"
    /\ failedStep' = cur
    /\ cur' = cur - 1
    /\ saga' \in IF cur = 1 THEN {"failed"} ELSE {"compensating", "failed"}
    /\ tries' = 0
    /\ call' = NoCall

\* Crash and Resume: the saga is durable, the outstanding call and its count
\* of attempts are not.
Crash ==
    /\ saga \in Active
    /\ tries' = 0
    /\ call' = NoCall
    /\ UNCHANGED <<saga, cur, failedStep>>
=============================================================================
