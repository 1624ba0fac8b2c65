-------------------------- MODULE ProvisioningInv --------------------------
(***************************************************************************)
(* Inductive invariants of Provisioning: what the proofs rest on, and what *)
(* TLC checks before they are proved.                                      *)
(***************************************************************************)
EXTENDS Provisioning

\* The goroutine still has its copy of the record.
Working == prov \in {"create", "record", "start", "waiting", "failing"}

\* The saga has been started, or aborted before.
Started == saga \notin {"none", "pending"}

(***************************************************************************)
(* The goroutine and its copy of the record: a copy that may still be      *)
(* stored has the saga ID if the stored record has it.                     *)
(***************************************************************************)
GoroutineInv ==
    /\ prov = "none" => rec = NoRecord /\ saga = "none"
    /\ Working => /\ mem.status = "provisioning"
                  /\ mem.ids = {}
                  /\ mem.fail = rec.fail
                  /\ rec.saga => mem.saga
    /\ prov \in {"record", "start", "waiting"} => mem.saga
    /\ prov \in {"start", "waiting"} => rec.saga

\* How the conductor's variables go together.
SagaInv ==
    /\ ~Started => /\ cur = 0 /\ failedStep = 0
                   /\ \A h \in Handler : handler[h].pc = "idle"
    /\ saga = "running" => cur # 0 /\ failedStep = 0
    /\ saga = "compensating" => cur # 0 /\ cur < failedStep
    /\ saga = "completed" => cur = Registry /\ failedStep = 0
    /\ call # NoCall => saga \in Active

\* The handler that serves the outstanding call runs the saga's step.
CallInv ==
    call # NoCall /\ handler[call].pc # "idle" =>
        /\ handler[call].step = cur
        /\ handler[call].comp = (saga = "compensating")

(***************************************************************************)
(* A handler, awaited or not, works on a step the saga got to; the copy it *)
(* is about to store is not ahead of the saga.                             *)
(***************************************************************************)
HandlerInv ==
    \A h \in Handler :
        /\ handler[h].pc # "idle" => handler[h].step <= Reach
        /\ handler[h].pc = "save" =>
              /\ Writes(handler[h].step)
              /\ handler[h].env.saga
              /\ handler[h].env.fail = rec.fail
              /\ handler[h].env.ids \subseteq 1..Reach
              /\ handler[h].env.status = "ready" => Reach = Registry
        /\ handler[h].pc = "ok" /\ handler[h].step = Health /\ ~handler[h].comp
             => ~rec.fail

\* A saga whose health check fails does not get past it.
HealthInv == rec.fail => Reach <= Health

SafetyInv ==
    /\ TypeOK
    /\ GoroutineInv
    /\ SagaInv
    /\ CallInv
    /\ HandlerInv
    /\ HealthInv
    /\ StartedSagaIsRecorded
    /\ NothingAhead
    /\ ReadyOnlyAtRegistry

-----------------------------------------------------------------------------
(* While calls are awaited.                                                *)

AllIdle == \A h \in Handler : handler[h].pc = "idle"

\* Only an aborted saga has a handler that nobody waits for.
SequentialInv ==
    \A h \in Handler : handler[h].pc # "idle" => h = call \/ saga = "aborted"

\* The goroutine gives up only on a saga that is over or was never started.
QuietInv ==
    prov \in {"none", "create", "record", "start", "failing"} \/ rec.status = "failed"
        => AllIdle /\ saga \notin Active \cup {"completed"}

\* The goroutine is the only one to store "failed", and does so once.
OneFailureInv ==
    /\ prov \in {"create", "record", "start"} => rec.status = "provisioning"
    /\ Working => rec.status # "failed"
    /\ \A h \in Handler : handler[h].pc = "save" => handler[h].env.status # "failed"

\* The record, while the saga runs forward, and what the step will store.
ForwardInv ==
    saga = "running" =>
        /\ \A s \in Resource \ {cur} : s \in rec.ids <=> s < cur
        /\ cur # Registry => rec.status = "provisioning"
        /\ call # NoCall =>
              /\ handler[call].pc = "save" =>
                    /\ \A s \in Resource : s \in handler[call].env.ids <=> s <= cur
                    /\ handler[call].env.status =
                          IF cur = Registry THEN "ready" ELSE "provisioning"
              /\ handler[call].pc = "ok" =>
                    /\ cur \in Resource => cur \in rec.ids
                    /\ cur = Registry => rec.status = "ready"

\* The record, while the saga compensates, and what the step will store.
BackwardInv ==
    saga = "compensating" =>
        /\ \A s \in Resource \ {failedStep, cur} : s \in rec.ids <=> s < cur
        /\ call # NoCall =>
              /\ handler[call].pc = "save" =>
                    \A s \in Resource \ {failedStep} :
                        s \in handler[call].env.ids <=> s < cur
              /\ handler[call].pc = "ok" => cur \notin rec.ids

\* The record, when the saga does not run.
RestInv ==
    /\ ~Started => rec.ids = {}
    /\ saga = "completed" => rec.ids = Resource /\ rec.status = "ready"
    /\ saga = "failed" => rec.ids \subseteq {failedStep}

AwaitedInv ==
    /\ SafetyInv
    /\ \A d \in Abandons : left[d] = 0
    /\ api # "stopping"
    /\ SequentialInv
    /\ QuietInv
    /\ OneFailureInv
    /\ ForwardInv
    /\ BackwardInv
    /\ RestInv

-----------------------------------------------------------------------------
(* What the refinement of the ledger needs besides.                        *)

\* There is one busy handler at most, and it serves the saga's last call.
OneHandlerInv ==
    \A h \in Handler : handler[h].pc # "idle" =>
        /\ saga \in Active \cup {"aborted"}
        /\ handler[h].step = cur
        /\ handler[h].comp = (failedStep # 0)
        /\ \A g \in Handler \ {h} : handler[g].pc = "idle"

\* The record appears before anything else, and is never marked destroyed.
StatusInv ==
    /\ prov \in {"none", "create", "record"} => ~Started /\ ~rec.saga
    /\ rec.status = "absent" => prov = "none"
    /\ rec.status # "destroyed"

\* What the abort interrupted remains, and the goroutine, if it was not
\* waiting for the saga yet, finds nothing provisioned.
AbortedInv ==
    saga = "aborted" =>
        /\ failedStep # 0 => cur < failedStep
        /\ \A s \in Resource \ {failedStep, cur} : s \in rec.ids <=> s < cur
        /\ prov \in {"start", "failing"} => rec.ids = {}

LedgerInv ==
    /\ AwaitedInv
    /\ OneHandlerInv
    /\ CopiesAreCurrent
    /\ StatusInv
    /\ AbortedInv
    /\ ReadyUnlessUndone
=============================================================================
