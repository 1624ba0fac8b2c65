----------------------------- MODULE ApiStartup -----------------------------
(***************************************************************************)
(* A pod of forge-api starting (run in cmd/forge-api/main.go): it opens    *)
(* the store, whose file only one process may hold, fetches svid-          *)
(* exchange's keys in a loop of ten attempts, and serves.  Nothing answers *)
(* the liveness probe before it serves, so that time counts: all durations *)
(* are in seconds.                                                         *)
(***************************************************************************)
EXTENDS Integers

CONSTANTS
    MaxAttempts,   \* of fetching the keys: 10
    Wait,          \* after a failed attempt: 3
    QuickFetch,    \* what an attempt that fails at once takes at most
    SlowFetch,     \* what one takes that hangs
    LockTimeout,   \* of opening the store: 5
    ProbeDeadline, \* the age at which the third probe fails: 45 + 2 * 10
    MaxHangs,      \* how many fetches hang
    MaxReplaced    \* how often a pod is replaced while it starts

(***************************************************************************)
(* "initialDelaySeconds must accommodate the JWKS retry loop [...] plus    *)
(* startup time" (k8s/forge-api.yaml:80).                                  *)
(***************************************************************************)
ASSUME StartupAssumption ==
    /\ MaxAttempts \in Nat \ {0}
    /\ Wait \in Nat /\ QuickFetch \in Nat /\ SlowFetch \in Nat /\ LockTimeout \in Nat
    /\ ProbeDeadline \in Nat /\ MaxHangs \in Nat /\ MaxReplaced \in Nat
    /\ LockTimeout + MaxAttempts * (QuickFetch + Wait) < ProbeDeadline

VARIABLES
    pod,       \* where the pod's main goroutine is
    attempt,   \* the attempts that have failed
    age,       \* of the container that is starting
    hung,      \* whether one of this container's fetches hung
    told,      \* the pod's context is cancelled: SIGTERM has come
    verifier,  \* JWT validation: "unset", "on" or "off"
    hangs, replaced   \* what is left of MaxHangs and MaxReplaced

startupVars == <<pod, attempt, age, hung, told, verifier, hangs, replaced>>

Starting == pod \in {"opening", "fetching", "waiting"}

StartupTypeOK ==
    /\ pod \in {"absent", "opening", "fetching", "waiting", "serving", "exited"}
    /\ attempt \in 0..MaxAttempts
    /\ age \in 0..ProbeDeadline
    /\ hung \in BOOLEAN /\ told \in BOOLEAN
    /\ verifier \in {"unset", "on", "off"}
    /\ hangs \in 0..MaxHangs /\ replaced \in 0..MaxReplaced

StartupInit ==
    /\ pod = "absent"
    /\ attempt = 0 /\ age = 0 /\ hung = FALSE
    /\ told = FALSE
    /\ verifier = "unset"
    /\ hangs = MaxHangs /\ replaced = MaxReplaced

\* What the pod is at takes d seconds, and the container lives to its end.
Takes(d) ==
    /\ age + d < ProbeDeadline
    /\ age' = age + d

-----------------------------------------------------------------------------
(* Mutated forms of the definitions below. *)

\* bolt.Open does not take the file's lock.
OpenStoreUnlocked(free) ==
    /\ pod = "opening"
    /\ \E d \in {0, LockTimeout} : Takes(d)
    /\ pod' = "fetching"
    /\ UNCHANGED <<attempt, hung, told, verifier, hangs, replaced>>

\* The loop retries for as long as the fetch fails.
WaitEndsUncounted ==
    /\ pod = "waiting"
    /\ Takes(Wait)
    /\ pod' = "fetching"
    /\ attempt' = 0
    /\ UNCHANGED <<hung, told, verifier, hangs, replaced>>

\* One attempt more than the probe was set for, and its wait.
WaitEndsLater ==
    /\ pod = "waiting"
    /\ Takes(Wait + QuickFetch + Wait)
    /\ \/ attempt < MaxAttempts
          /\ pod' = "fetching" /\ UNCHANGED verifier
       \/ attempt = MaxAttempts
          /\ pod' = "serving" /\ verifier' = "off"
    /\ UNCHANGED <<attempt, hung, told, hangs, replaced>>

-----------------------------------------------------------------------------
\* Kubernetes starts a container, at first or after the last one exited.
StartContainer ==
    /\ pod \in {"absent", "exited"}
    /\ pod' = "opening"
    /\ attempt' = 0 /\ age' = 0 /\ hung' = FALSE
    /\ told' = FALSE
    /\ verifier' = "unset"
    /\ UNCHANGED <<hangs, replaced>>

\* environment.Open, when the file's lock is free in time.
OpenStore(free) ==
    /\ pod = "opening" /\ free
    /\ \E d \in {0, LockTimeout} : Takes(d)
    /\ pod' = "fetching"
    /\ UNCHANGED <<attempt, hung, told, verifier, hangs, replaced>>

\* Another process holds the lock for LockTimeout: main ends.
OpenTimesOut(free) ==
    /\ pod = "opening" /\ ~free
    /\ pod' = "exited"
    /\ UNCHANGED <<attempt, age, hung, told, verifier, hangs, replaced>>

\* svidclient.NewVerifier returns; its keys are refreshed from then on.
FetchSucceeds ==
    /\ pod = "fetching" /\ ~told
    /\ pod' = "serving"
    /\ verifier' = "on"
    /\ UNCHANGED <<attempt, age, hung, told, hangs, replaced>>

FetchFails ==
    /\ pod = "fetching"
    /\ \E d \in {0, QuickFetch} : Takes(d)
    /\ pod' = "waiting"
    /\ attempt' = attempt + 1
    /\ UNCHANGED <<hung, told, verifier, hangs, replaced>>

\* An attempt fails, but only after SlowFetch.
FetchHangs ==
    /\ pod = "fetching" /\ hangs > 0
    /\ Takes(SlowFetch)
    /\ pod' = "waiting"
    /\ attempt' = attempt + 1
    /\ hung' = TRUE
    /\ hangs' = hangs - 1
    /\ UNCHANGED <<told, verifier, replaced>>

\* time.After(3 * time.Second): the next attempt, or validation is disabled.
WaitEnds ==
    /\ pod = "waiting"
    /\ Takes(Wait)
    /\ \/ attempt < MaxAttempts
          /\ pod' = "fetching" /\ UNCHANGED verifier
       \/ attempt = MaxAttempts
          /\ pod' = "serving" /\ verifier' = "off"
    /\ UNCHANGED <<attempt, hung, told, hangs, replaced>>

\* ctx.Done() while it waits: run returns, closing the store.
WaitInterrupted ==
    /\ pod = "waiting" /\ told
    /\ pod' = "exited"
    /\ UNCHANGED <<attempt, age, hung, told, verifier, hangs, replaced>>

\* A pod that was told to stop and serves nevertheless shuts down at once.
ServeInterrupted ==
    /\ pod = "serving" /\ told
    /\ pod' = "exited"
    /\ UNCHANGED <<attempt, age, hung, told, verifier, hangs, replaced>>

\* The next rollout begins while this pod still starts.
ReplaceStarting ==
    /\ Starting /\ ~told /\ replaced > 0
    /\ told' = TRUE
    /\ replaced' = replaced - 1
    /\ UNCHANGED <<pod, attempt, age, hung, verifier, hangs>>

\* The third probe fails before the pod serves.
ProbeKills ==
    /\ \/ pod = "waiting" /\ age + Wait >= ProbeDeadline
          /\ UNCHANGED hung /\ UNCHANGED hangs
       \/ pod = "fetching" /\ age + QuickFetch >= ProbeDeadline
          /\ UNCHANGED hung /\ UNCHANGED hangs
       \/ pod = "fetching" /\ hangs > 0 /\ age + SlowFetch >= ProbeDeadline
          /\ hung' = TRUE /\ hangs' = hangs - 1
    /\ pod' = "exited"
    /\ UNCHANGED <<attempt, age, told, verifier, replaced>>
=============================================================================
