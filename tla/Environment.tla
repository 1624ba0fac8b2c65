---------------------------- MODULE Environment ----------------------------
(***************************************************************************)
(* The environment record (internal/environment/types.go) and what one     *)
(* call of a saga step does to it (internal/steps, dry-run mode).          *)
(*                                                                         *)
(* Steps 1..ResourceCount are those that leave a resource behind and write *)
(* its identifier into the record (vpc, rds, ec2, s3, identity, config:    *)
(* six in the code).  The health check and the registry step follow.       *)
(***************************************************************************)
EXTENDS Integers

CONSTANT ResourceCount

ASSUME ResourceCountAssumption == ResourceCount \in Nat \ {0}

Resource == 1..ResourceCount
Health   == ResourceCount + 1
Registry == ResourceCount + 2
Step     == 1..Registry

\* "absent" stands for a key that the store does not hold.
Status == {"absent", "provisioning", "ready", "failed", "destroyed"}

(***************************************************************************)
(* saga: the saga ID is set.  fail: FailAtHealth.  ids: the steps whose    *)
(* output fields are set; a step sets and clears all of its own together.  *)
(***************************************************************************)
Record == [status : Status, saga : BOOLEAN, fail : BOOLEAN, ids : SUBSET Resource]

NoRecord == [status |-> "absent", saga |-> FALSE, fail |-> FALSE, ids |-> {}]

\* The record handleCreateEnv builds.
NewEnv(fail) ==
    [status |-> "provisioning", saga |-> FALSE, fail |-> fail, ids |-> {}]

-----------------------------------------------------------------------------
(* Mutated forms of the definitions below: see the "mutants" of the runs. *)

\* A resource step takes any identifier for its own.
IsAlreadyDoneAnyResource(s, env) ==
    \/ s \in Resource /\ env.ids # {}
    \/ s = Registry /\ env.status = "ready"

\* The health check ignores the failure it finds.
ExecuteNeverFails(s, env) == FALSE

\* The registry step stores the record without setting the status.
ExecutedNoCommit(s, env) ==
    [env EXCEPT !.ids = IF s \in Resource THEN @ \cup {s} ELSE @]

\* The registry step sets an output field as the resource steps do.
ExecutedWithOutput(s, env) ==
    [env EXCEPT !.ids    = @ \cup {s},
                !.status = IF s = Registry THEN "ready" ELSE @]

\* The status becomes "ready" with the last resource instead of the registry.
ExecutedEarlyCommit(s, env) ==
    [env EXCEPT !.ids = IF s \in Resource THEN @ \cup {s} ELSE @,
                !.status = IF s = ResourceCount THEN "ready" ELSE @]

\* Compensation leaves the record as it is.
CompensatedNothing(s, env) == env

\* Compensation of one step clears the fields of all.
CompensatedEverything(s, env) ==
    [env EXCEPT !.ids    = {},
                !.status = IF s = Registry THEN "destroyed" ELSE @]

-----------------------------------------------------------------------------
\* IsAlreadyDone: a resource step looks for its own identifier, the registry
\* step at the status; the health check always runs again.
IsAlreadyDone(s, env) ==
    \/ s \in Resource /\ s \in env.ids
    \/ s = Registry /\ env.status = "ready"

\* Execute returns an error before any write: the injected health failure.
ExecuteFails(s, env) == s = Health /\ env.fail

\* A resource step sets, or clears, its output fields.
Provisioned(s, env) == [env EXCEPT !.ids = @ \cup {s}]
Removed(s, env)     == [env EXCEPT !.ids = @ \ {s}]

\* The registry step sets the status.
Committed(env) == [env EXCEPT !.status = "ready"]
Destroyed(env) == [env EXCEPT !.status = "destroyed"]

\* The record as the step hands it to store.Put.
Executed(s, env) ==
    CASE s \in Resource -> Provisioned(s, env)
      [] s = Registry   -> Committed(env)
      [] OTHER          -> env

Compensated(s, env) ==
    CASE s \in Resource -> Removed(s, env)
      [] s = Registry   -> Destroyed(env)
      [] OTHER          -> env

\* Health is read-only: it never calls store.Put, forward or backward.
Writes(s) == s # Health
=============================================================================
