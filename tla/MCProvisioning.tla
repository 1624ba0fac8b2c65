--------------------------- MODULE MCProvisioning ---------------------------
(***************************************************************************)
(* Values of the constants of Provisioning for TLC.                        *)
(***************************************************************************)
EXTENDS ProvisioningInv, TLC

CONSTANTS h1, h2

Handlers == {h1, h2}

\* Handlers differ only in their names.
HandlerSymmetry == Permutations(Handlers)

NoRetry  == [s \in Step |-> 0]
OneRetry == [s \in Step |-> 1]

\* f(d) disturbances of each kind named in f, none of the others.
Only(f) == [d \in Disturbance |-> IF d \in DOMAIN f THEN f[d] ELSE 0]

\* The worker fails; the conductor and forge-api do not.
WorkerFails == Only([workerCrash |-> 2, workerIo |-> 2, interrupt |-> 1])

\* Calls that outlive their callers, in every combination.
Outlived == Only([stepTimeout |-> 1, conductorCrash |-> 1, sagaTimeout |-> 1,
                  apiStop |-> 1, rpc |-> 1, workerIo |-> 1])

AtLeastOnce == Only([workerCrash |-> 1, workerIo |-> 2, apiCrash |-> 1,
                     apiIo |-> 1, abort |-> 1])

\* One disturbance of one kind, for what the documentation says.
ConductorRestarts == Only([conductorCrash |-> 1])
StepOverruns      == Only([stepTimeout |-> 1])
=============================================================================
