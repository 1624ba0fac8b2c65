------------------------------ MODULE ForgeCli ------------------------------
(***************************************************************************)
(* The forge command line (cmd/forge/main.go): "forge create", which       *)
(* watches the environment it asked for.  The other commands send one      *)
(* request and print; "forge destroy" too only reads the record.           *)
(***************************************************************************)
EXTENDS Environment

VARIABLES
    cli,    \* "forge create": "idle", "watching" or "exited"
    shown   \* the status it printed last, "absent" if none

cliVars == <<cli, shown>>

CliTypeOK ==
    /\ cli \in {"idle", "watching", "exited"}
    /\ shown \in Status

CliInit ==
    /\ cli = "idle"
    /\ shown = "absent"

-----------------------------------------------------------------------------
\* Mutated form of PollEnds: the poll stops at "ready" only.
PollEndsWhenReady(env) ==
    /\ cli = "watching" /\ env.status = "ready"
    /\ cli' = "exited"
    /\ shown' = env.status

-----------------------------------------------------------------------------
\* POST /envs/create was answered 202: start polling.
Watch ==
    /\ cli = "idle"
    /\ cli' = "watching"
    /\ UNCHANGED shown

\* A poll finds a status other than provisioning (otherwise it sleeps and
\* polls again): print it and return.
PollEnds(env) ==
    /\ cli = "watching" /\ env.status # "provisioning"
    /\ cli' = "exited"
    /\ shown' = env.status

\* A poll gets no answer, or the user interrupts the command.
WatchFails ==
    /\ cli = "watching"
    /\ cli' = "exited"
    /\ UNCHANGED shown
=============================================================================
