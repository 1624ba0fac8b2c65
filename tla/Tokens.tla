------------------------------- MODULE Tokens -------------------------------
(***************************************************************************)
(* How forge-worker's calls to forge-api are authenticated, over time:     *)
(* svid-exchange signs tokens with a key it rotates and loses when it      *)
(* restarts, forge-worker renews its token in the background, and          *)
(* forge-api verifies it against a copy of the published keys that it      *)
(* fetches at its start and every five minutes (cmd/forge-api/main.go,     *)
(* apiserver/server.go, cmd/forge-worker/main.go).                         *)
(*                                                                         *)
(* svid-exchange and its client library are external: their actions say    *)
(* what this code relies on.  How forge-api comes to start with or without *)
(* keys is ApiStartup's subject and one step here.                         *)
(***************************************************************************)
EXTENDS Integers

CONSTANTS
    TTL,        \* life of a token: 3600 s
    RenewAt,    \* age at which it is renewed: 80% of that
    Refresh,    \* between two fetches of the keys: 5 min
    MaxKey,     \* bound: keys ever made
    MaxFaults   \* bound: restarts, failed fetches and failed initialisations

ASSUME DurationAssumption ==
    /\ TTL \in Nat /\ RenewAt \in 1..(TTL - 1)
    /\ Refresh \in Nat \ {0}
    /\ MaxKey \in Nat \ {0} /\ MaxFaults \in Nat

Key == 1..MaxKey

VARIABLES
    svid,    \* svid-exchange: "up" or "down"
    key,     \* the newest key, with which it signs
    first,   \* the first key of its present run
    retire,  \* how long it still publishes each key
    api,     \* forge-api: "down", "verifying", or "off" without a verifier
    cached,  \* the verifier's copy of the keys
    due,     \* until its next fetch
    missed,  \* whether its last fetch failed
    mode,    \* forge-worker: "down", "jwt", or "plain" without tokens
    token,   \* the token it holds: its key (0: none) and age
    read,    \* the key a running step's read was verified with (0: none)
    faults   \* faults so far

svidVars   == <<svid, key, first, retire>>
apiVars    == <<api, cached, due, missed>>
workerVars == <<mode, token, read>>
vars == <<svidVars, apiVars, workerVars, faults>>

TypeOK ==
    /\ svid \in {"up", "down"} /\ key \in 0..MaxKey /\ first \in 1..(MaxKey + 1)
    /\ retire \in [Key -> 0..TTL]
    /\ api \in {"down", "verifying", "off"} /\ cached \subseteq Key
    /\ due \in 0..Refresh /\ missed \in BOOLEAN
    /\ mode \in {"down", "jwt", "plain"}
    /\ token \in [key : 0..MaxKey, age : 0..TTL] /\ read \in 0..MaxKey
    /\ faults \in 0..MaxFaults

NoToken == [key |-> 0, age |-> 0]

Init ==
    /\ svid = "down" /\ key = 0 /\ first = 1 /\ retire = [k \in Key |-> 0]
    /\ api = "down" /\ cached = {} /\ due = Refresh /\ missed = FALSE
    /\ mode = "down" /\ token = NoToken /\ read = 0
    /\ faults = 0

Published == {k \in Key : retire[k] > 0}

Fault == faults < MaxFaults /\ faults' = faults + 1

\* authMiddleware and the scope checks, which every token passes: it is
\* requested with both scopes.
Accepted ==
    \/ api = "off"
    \/ api = "verifying" /\ mode = "jwt" /\ token.key \in cached /\ token.age < TTL

-----------------------------------------------------------------------------
(* Mutated forms of the definitions below. *)

\* The token is requested once and kept.
RenewDueOnce == mode = "jwt" /\ token.key = 0 /\ svid = "up"

\* The refresh keeps the newest key only.
FetchNewestOnly ==
    /\ svid = "up" /\ cached' = {key}
    /\ due' = Refresh /\ missed' = FALSE

\* The fetched keys are dropped.
FetchDropped ==
    /\ svid = "up" /\ cached' = IF cached = {} THEN Published ELSE cached
    /\ due' = Refresh /\ missed' = FALSE

\* A refresh that is due is skipped.
TickUnguarded ==
    /\ ~(mode = "jwt" /\ svid = "up" /\ (token.key = 0 \/ token.age >= RenewAt))
    /\ retire' = [k \in Key |-> IF k = key \/ retire[k] = 0 THEN retire[k] ELSE retire[k] - 1]
    /\ due' = IF api = "verifying" THEN due - 1 ELSE due
    /\ token' = IF token.key # 0 /\ token.age < TTL THEN [token EXCEPT !.age = @ + 1] ELSE token
    /\ UNCHANGED <<svid, key, first, api, cached, missed, mode, read, faults>>

-----------------------------------------------------------------------------
(* svid-exchange.                                                          *)

\* A run begins with a key of its own: keys are never stored.
SvidStarts ==
    /\ svid = "down" /\ key < MaxKey
    /\ svid' = "up" /\ key' = key + 1 /\ first' = key + 1
    /\ retire' = [k \in Key |-> IF k = key + 1 THEN TTL ELSE 0]
    /\ UNCHANGED <<apiVars, workerVars, faults>>

\* It stops, and another run will follow.
SvidStops ==
    /\ svid = "up" /\ key < MaxKey /\ Fault
    /\ svid' = "down"
    /\ retire' = [k \in Key |-> 0]
    /\ UNCHANGED <<key, first, apiVars, workerVars>>

\* The old key is published for as long as tokens signed with it live.
Rotate ==
    /\ svid = "up" /\ key < MaxKey
    /\ key' = key + 1
    /\ retire' = [retire EXCEPT ![key + 1] = TTL]
    /\ UNCHANGED <<svid, first, apiVars, workerVars, faults>>

-----------------------------------------------------------------------------
(* forge-api.                                                              *)

\* NewVerifier, and the fetches of StartAutoRefresh.
Fetch ==
    /\ svid = "up" /\ cached' = Published
    /\ due' = Refresh /\ missed' = FALSE

\* run, with the keys or after ten attempts to fetch them.
ApiStarts ==
    /\ api = "down"
    /\ \/ api' = "verifying" /\ Fetch
       \/ svid = "down" /\ api' = "off" /\ UNCHANGED <<cached, due, missed>>
    /\ UNCHANGED <<svidVars, workerVars, faults>>

ApiStops ==
    /\ api # "down" /\ Fault
    /\ api' = "down" /\ cached' = {} /\ due' = Refresh /\ missed' = FALSE
    /\ UNCHANGED <<svidVars, workerVars>>

RefreshSucceeds ==
    /\ api = "verifying" /\ due = 0 /\ Fetch
    /\ UNCHANGED <<api, svidVars, workerVars, faults>>

\* The verifier goes on with the keys it has.
RefreshFails ==
    /\ api = "verifying" /\ due = 0
    /\ IF svid = "down" THEN UNCHANGED faults ELSE Fault
    /\ due' = Refresh /\ missed' = TRUE
    /\ UNCHANGED <<api, cached, svidVars, workerVars>>

-----------------------------------------------------------------------------
(* forge-worker.                                                           *)

\* buildStateClient: an error of New is a fall-back for good.
WorkerStarts ==
    /\ mode = "down"
    /\ \/ mode' = "jwt" /\ UNCHANGED faults
       \/ mode' = "plain" /\ Fault
    /\ UNCHANGED <<svidVars, apiVars, token, read>>

WorkerStops ==
    /\ mode # "down" /\ Fault
    /\ mode' = "down" /\ token' = NoToken /\ read' = 0
    /\ UNCHANGED <<svidVars, apiVars>>

\* The client library exchanges its SVID for a first token, or a next one.
RenewDue ==
    mode = "jwt" /\ svid = "up" /\ (token.key = 0 \/ token.age >= RenewAt)

Renew ==
    /\ RenewDue
    /\ token' = [key |-> key, age |-> 0]
    /\ UNCHANGED <<svidVars, apiVars, mode, read, faults>>

\* A step's Get, verified; its Put, whatever the answer, ends the step.
Get ==
    /\ read = 0 /\ api = "verifying" /\ Accepted
    /\ read' = token.key
    /\ UNCHANGED <<svidVars, apiVars, mode, token, faults>>

Put ==
    /\ read # 0
    /\ read' = 0
    /\ UNCHANGED <<svidVars, apiVars, mode, token, faults>>

-----------------------------------------------------------------------------
\* Time passes unless a fetch or a renewal is due.
Tick ==
    /\ ~RenewDue /\ ~(api = "verifying" /\ due = 0)
    /\ retire' = [k \in Key |-> IF k = key \/ retire[k] = 0 THEN retire[k] ELSE retire[k] - 1]
    /\ due' = IF api = "verifying" THEN due - 1 ELSE due
    /\ token' = IF token.key # 0 /\ token.age < TTL THEN [token EXCEPT !.age = @ + 1] ELSE token
    /\ UNCHANGED <<svid, key, first, api, cached, missed, mode, read, faults>>

Next ==
    \/ SvidStarts \/ SvidStops \/ Rotate
    \/ ApiStarts \/ ApiStops \/ RefreshSucceeds \/ RefreshFails
    \/ WorkerStarts \/ WorkerStops \/ Renew \/ Get \/ Put
    \/ Tick

Spec == Init /\ [][Next]_vars

\* Processes are started again, timers fire and time passes.
FairSpec ==
    /\ Spec
    /\ WF_vars(SvidStarts) /\ WF_vars(ApiStarts) /\ WF_vars(WorkerStarts)
    /\ WF_vars(RefreshSucceeds \/ RefreshFails) /\ WF_vars(Renew) /\ WF_vars(Tick)

-----------------------------------------------------------------------------
\* A token of svid-exchange's present run that has not expired.
Live == mode = "jwt" /\ token.key >= first /\ token.age < TTL

(***************************************************************************)
(* A step whose read was verified may write with a token of the same key,  *)
(* however many rotations, refreshes and restarts of forge-api came        *)
(* between: its resources do not go unrecorded for want of a key           *)
(* (apiserver/server.go:409).  Not if svid-exchange has restarted, or the  *)
(* token was renewed in between with a key not fetched yet: OutageIsBounded*)
(* says how long the write is then refused.                                *)
(***************************************************************************)
ReadThenWrite ==
    Live /\ read = token.key /\ api # "down" => Accepted

(***************************************************************************)
(* forge-api refuses a live token for five minutes at most - those between *)
(* two fetches, if the later one succeeds (cmd/forge-api/main.go:83).      *)
(***************************************************************************)
OutageIsBounded ==
    Live /\ ~missed /\ api # "down" /\ token.age > Refresh => Accepted

(***************************************************************************)
(* Through restarts of all three and rotations, a worker that exchanges    *)
(* tokens is always accepted again (cmd/forge-worker/main.go:141); one     *)
(* that fell back to none depends on a forge-api that verifies none.       *)
(***************************************************************************)
ServedAgain == mode = "jwt" ~> Accepted \/ mode = "plain"

-----------------------------------------------------------------------------
(* The inductive invariant behind the first two.                           *)

\* Keys are numbered as they are made, and a token belongs to a worker that
\* exchanges tokens.
KeyInv ==
    /\ first <= key + 1 /\ token.key <= key /\ read <= key
    /\ svid = "up" => first <= key /\ retire[key] = TTL
    /\ mode # "jwt" => token = NoToken

\* A key of the present run is published while tokens signed with it live.
PublishedInv ==
    svid = "up" /\ token.key >= first => retire[token.key] >= TTL - token.age

\* What a read was verified with, the verifier knows while it is published,
\* or while the token lives.
ReadInv ==
    api = "verifying" =>
        /\ svid = "up" /\ read >= first /\ read \in Published => read \in cached
        /\ Live /\ read = token.key => read \in cached

\* A token the verifier does not know is younger than the last fetch.
FetchInv ==
    api = "verifying" /\ ~missed /\ Live /\ token.key \notin cached =>
        token.age <= Refresh - due

TokenInv == TypeOK /\ KeyInv /\ PublishedInv /\ ReadInv /\ FetchInv
=============================================================================
