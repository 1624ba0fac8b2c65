---------------------------- MODULE TokensProofs ----------------------------
(***************************************************************************)
(* Which tokens forge-api accepts, for every duration and every number of  *)
(* keys, restarts and failures.                                            *)
(***************************************************************************)
EXTENDS Tokens, TLAPS

(***************************************************************************)
(* A live token's key is among those a fetch returns (what forge-api       *)
(* relies on at cmd/forge-api/main.go:83).                                 *)
(***************************************************************************)
LEMMA LiveIsPublished ==
  ASSUME TokenInv, svid = "up", Live
  PROVE  token.key \in Published
BY DEF TokenInv, TypeOK, KeyInv, PublishedInv, Live, Published, Key, NoToken

(***************************************************************************)
(* Every step of svid-exchange keeps the invariant (k8s/svid-exchange.yaml *)
(* line 29).                                                               *)
(***************************************************************************)
LEMMA SvidStep ==
  ASSUME TokenInv, SvidStarts \/ SvidStops \/ Rotate
  PROVE  TokenInv'
<1> USE DurationAssumption DEF TokenInv, TypeOK, KeyInv, Key, apiVars, workerVars
<1>1. CASE SvidStarts
  <2>1. TypeOK' /\ KeyInv'  BY <1>1 DEF SvidStarts
  <2>2. ~Live' /\ PublishedInv'  BY <1>1 DEF SvidStarts, Live, PublishedInv
  <2>3. ReadInv' /\ FetchInv'  BY <1>1, <2>2 DEF SvidStarts, ReadInv, FetchInv
  <2>4. QED  BY <2>1, <2>2, <2>3
<1>2. CASE SvidStops
  <2>1. TypeOK' /\ KeyInv'  BY <1>2 DEF SvidStops, Fault
  <2>2. PublishedInv'  BY <1>2 DEF SvidStops, PublishedInv
  <2>3. ReadInv' /\ FetchInv'  BY <1>2 DEF SvidStops, ReadInv, FetchInv, Live
  <2>4. QED  BY <2>1, <2>2, <2>3
<1>3. CASE Rotate
  <2>1. TypeOK' /\ KeyInv'  BY <1>3 DEF Rotate
  <2>2. PublishedInv'  BY <1>3 DEF Rotate, PublishedInv
  <2>3. ReadInv' /\ FetchInv'  BY <1>3 DEF Rotate, ReadInv, FetchInv, Live, Published
  <2>4. QED  BY <2>1, <2>2, <2>3
<1>4. QED  BY <1>1, <1>2, <1>3

(***************************************************************************)
(* Every step of forge-api keeps the invariant (cmd/forge-api/main.go:66). *)
(***************************************************************************)
LEMMA ApiStep ==
  ASSUME TokenInv, ApiStarts \/ ApiStops \/ RefreshSucceeds \/ RefreshFails
  PROVE  TokenInv'
<1> USE DurationAssumption DEF TokenInv, TypeOK, KeyInv, Key, svidVars, workerVars
<1>1. ASSUME Fetch, UNCHANGED <<svidVars, workerVars, faults>>, api' = "verifying"
      PROVE  TokenInv'
  <2>1. TypeOK' /\ KeyInv'
    <3>1. cached' \subseteq Key /\ due' \in 0..Refresh
      BY <1>1 DEF Fetch, Published
    <3>2. missed' \in BOOLEAN  BY <1>1 DEF Fetch
    <3>3. QED  BY <1>1, <3>1, <3>2
  <2>2. PublishedInv'  BY <1>1 DEF PublishedInv
  <2>3. Live' => token'.key \in cached'
    BY <1>1, LiveIsPublished DEF Fetch, Live
  <2>4. Published' = Published /\ cached' = Published  BY <1>1 DEF Fetch, Published
  <2>5. ReadInv' /\ FetchInv'  BY <2>3, <2>4 DEF ReadInv, FetchInv
  <2>6. QED  BY <2>1, <2>2, <2>5
<1>2. CASE ApiStarts
  <2>1. CASE api' = "verifying"  BY <1>1, <1>2, <2>1 DEF ApiStarts
  <2>2. CASE api' # "verifying"
    BY <1>2, <2>2 DEF ApiStarts, PublishedInv, ReadInv, FetchInv
  <2>3. QED  BY <2>1, <2>2
<1>3. CASE ApiStops
  <2>1. TypeOK' /\ KeyInv'
    <3>1. /\ api' = "down" /\ cached' = {} /\ due' \in 0..Refresh
          /\ faults' \in 0..MaxFaults
      BY <1>3 DEF ApiStops, Fault
    <3>2. missed' \in BOOLEAN  BY <1>3 DEF ApiStops
    <3>3. UNCHANGED <<svidVars, workerVars>>  BY <1>3 DEF ApiStops
    <3>4. QED  BY <3>1, <3>2, <3>3
  <2>2. PublishedInv' /\ ReadInv' /\ FetchInv'
    BY <1>3 DEF ApiStops, PublishedInv, ReadInv, FetchInv
  <2>3. QED  BY <2>1, <2>2
<1>4. CASE RefreshSucceeds  BY <1>1, <1>4 DEF RefreshSucceeds
<1>5. CASE RefreshFails
  <2>1. TypeOK' /\ KeyInv'  BY <1>5 DEF RefreshFails, Fault
  <2>2. PublishedInv' /\ FetchInv'  BY <1>5 DEF RefreshFails, PublishedInv, FetchInv
  <2>3. ReadInv'  BY <1>5 DEF RefreshFails, ReadInv, Live, Published
  <2>4. QED  BY <2>1, <2>2, <2>3
<1>6. QED  BY <1>2, <1>3, <1>4, <1>5

(***************************************************************************)
(* Every step of forge-worker keeps the invariant                          *)
(* (cmd/forge-worker/main.go:117).                                         *)
(***************************************************************************)
LEMMA WorkerStep ==
  ASSUME TokenInv, WorkerStarts \/ WorkerStops \/ Renew \/ Get \/ Put
  PROVE  TokenInv'
<1> USE DurationAssumption DEF TokenInv, TypeOK, KeyInv, Key, svidVars, apiVars, NoToken
<1>1. CASE WorkerStarts \/ WorkerStops
  <2>1. TypeOK' /\ KeyInv'
    <3>1. faults' \in 0..MaxFaults  BY <1>1 DEF WorkerStarts, WorkerStops, Fault
    <3>2. token' = NoToken /\ read' \in {0, read} /\ mode' \in {"down", "jwt", "plain"}
      BY <1>1 DEF WorkerStarts, WorkerStops
    <3>3. UNCHANGED <<svidVars, apiVars>>  BY <1>1 DEF WorkerStarts, WorkerStops
    <3>4. QED  BY <3>1, <3>2, <3>3
  <2>2. ~Live' /\ PublishedInv'
    BY <1>1 DEF WorkerStarts, WorkerStops, PublishedInv, Live
  <2>3. ReadInv' /\ FetchInv'
    BY <1>1, <2>2 DEF WorkerStarts, WorkerStops, ReadInv, FetchInv, Published
  <2>4. QED  BY <2>1, <2>2, <2>3
<1>2. CASE Renew
  <2>1. TypeOK' /\ KeyInv'  BY <1>2 DEF Renew, RenewDue
  <2>2. PublishedInv' /\ FetchInv'  BY <1>2 DEF Renew, RenewDue, PublishedInv, FetchInv
  <2>3. ReadInv'  BY <1>2 DEF Renew, RenewDue, ReadInv, Published
  <2>4. QED  BY <2>1, <2>2, <2>3
<1>3. CASE Get
  <2>1. TypeOK' /\ KeyInv'  BY <1>3 DEF Get
  <2>2. PublishedInv' /\ FetchInv'  BY <1>3 DEF Get, PublishedInv, FetchInv, Live
  <2>3. ReadInv'  BY <1>3 DEF Get, Accepted, ReadInv
  <2>4. QED  BY <2>1, <2>2, <2>3
<1>4. CASE Put
  BY <1>4 DEF Put, PublishedInv, ReadInv, FetchInv, Live
<1>5. QED  BY <1>1, <1>2, <1>3, <1>4

(***************************************************************************)
(* The passing of time keeps the invariant: a token and its key age alike  *)
(* (cmd/forge-worker/main.go:133).                                         *)
(***************************************************************************)
LEMMA TimeStep ==
  ASSUME TokenInv, Tick
  PROVE  TokenInv'
<1> USE DurationAssumption
<1>1. /\ key \in 0..MaxKey /\ first \in 1..(MaxKey + 1) /\ read \in 0..MaxKey
      /\ due \in 0..Refresh /\ token \in [key : 0..MaxKey, age : 0..TTL]
      /\ \A k \in Key : retire[k] \in 0..TTL
      /\ svid = "up" => first <= key /\ retire[key] = TTL
  BY DEF TokenInv, TypeOK, KeyInv
<1>2. UNCHANGED <<svid, key, first, api, cached, missed, mode, read, faults>>
  BY DEF Tick
<1>3. ASSUME NEW k \in Key
      PROVE  retire'[k] = IF k = key \/ retire[k] = 0 THEN retire[k] ELSE retire[k] - 1
  BY DEF Tick
<1>4. /\ token'.key = token.key
      /\ token'.age = IF token.key # 0 /\ token.age < TTL THEN token.age + 1 ELSE token.age
      /\ token' \in [key : 0..MaxKey, age : 0..TTL]
      /\ token.key = 0 => token' = token
  <2>1. token' = IF token.key # 0 /\ token.age < TTL
                   THEN [token EXCEPT !.age = @ + 1] ELSE token
    BY DEF Tick
  <2>2. CASE token.key # 0 /\ token.age < TTL
    <3>1. token.key \in 0..MaxKey /\ token.age + 1 \in 0..TTL  BY <1>1, <2>2
    <3>2. token' = [key |-> token.key, age |-> token.age + 1]  BY <1>1, <2>1, <2>2
    <3>3. QED  BY <2>2, <3>1, <3>2
  <2>3. CASE ~(token.key # 0 /\ token.age < TTL)
    <3>1. token' = token  BY <2>1, <2>3
    <3>2. QED  BY <1>1, <2>3, <3>1
  <2>4. QED  BY <2>2, <2>3
<1>5. /\ api = "verifying" => due' = due - 1 /\ due # 0
      /\ api # "verifying" => due' = due
  BY DEF Tick
<1>6. TypeOK'
  <2>1. retire' \in [Key -> 0..TTL]
    <3>1. retire' = [k \in Key |-> retire'[k]]  BY DEF Tick
    <3>2. \A k \in Key : retire'[k] \in 0..TTL  BY <1>1, <1>3
    <3>3. QED  BY <3>1, <3>2
  <2>2. due' \in 0..Refresh  BY <1>1, <1>5
  <2>3. missed' \in BOOLEAN  BY <1>2 DEF TokenInv, TypeOK
  <2>4. QED  BY <1>2, <1>4, <2>1, <2>2, <2>3 DEF TokenInv, TypeOK
<1>7. KeyInv'
  <2>1. svid = "up" => retire'[key] = TTL  BY <1>1, <1>3 DEF Key
  <2>2. mode # "jwt" => token' = NoToken  BY <1>4 DEF TokenInv, KeyInv, NoToken
  <2>3. QED  BY <1>2, <1>4, <2>1, <2>2 DEF TokenInv, KeyInv
<1>8. PublishedInv'
  <2> SUFFICES ASSUME svid = "up", token.key >= first
               PROVE  retire'[token.key] >= TTL - token'.age
    BY <1>2, <1>4 DEF PublishedInv
  <2>1. token.key \in Key  BY <1>1 DEF Key
  <2>2. retire[token.key] >= TTL - token.age  BY DEF TokenInv, PublishedInv
  <2>3. token.age \in 0..TTL /\ retire[token.key] \in 0..TTL /\ token.key # 0
    BY <1>1, <2>1 DEF Key
  <2>4. CASE token.key = key  BY <1>1, <1>3, <1>4, <2>1, <2>3, <2>4
  <2>5. CASE token.key # key  BY <1>3, <1>4, <2>1, <2>2, <2>3, <2>5
  <2>6. QED  BY <2>4, <2>5
<1>9. Live' => Live  BY <1>1, <1>2, <1>4 DEF Live
<1>10. Published' \subseteq Published  BY <1>1, <1>3 DEF Published
<1>11. ReadInv'  BY <1>2, <1>4, <1>9, <1>10 DEF TokenInv, ReadInv
<1>12. FetchInv'
  <2> SUFFICES ASSUME api = "verifying", ~missed, Live', token.key \notin cached
               PROVE  token'.age <= Refresh - due'
    BY <1>2, <1>4 DEF FetchInv
  <2>1. token.age <= Refresh - due  BY <1>9 DEF TokenInv, FetchInv
  <2>2. QED  BY <1>1, <1>4, <1>5, <2>1
<1>13. QED  BY <1>6, <1>7, <1>8, <1>11, <1>12 DEF TokenInv

-----------------------------------------------------------------------------
(***************************************************************************)
(* The invariant holds in every reachable state, for every token life,     *)
(* refresh interval and number of keys and faults                          *)
(* (cmd/forge-api/main.go:66).                                             *)
(***************************************************************************)
THEOREM TokenInvariance == Spec => []TokenInv
<1>1. Init => TokenInv
  <2> SUFFICES ASSUME Init  PROVE TokenInv  OBVIOUS
  <2>1. retire \in [Key -> 0..TTL] /\ due \in 0..Refresh
    BY DurationAssumption DEF Init
  <2>2. missed \in BOOLEAN  BY DEF Init
  <2>3. TypeOK
    <3>1. /\ first \in 1..(MaxKey + 1) /\ key \in 0..MaxKey /\ faults \in 0..MaxFaults
          /\ read \in 0..MaxKey /\ token \in [key : 0..MaxKey, age : 0..TTL]
      BY DurationAssumption DEF Init, NoToken
    <3>2. /\ svid \in {"up", "down"} /\ api \in {"down", "verifying", "off"}
          /\ cached \subseteq Key /\ mode \in {"down", "jwt", "plain"}
      BY DEF Init
    <3>3. QED  BY <2>1, <2>2, <3>1, <3>2 DEF TypeOK
  <2>4. KeyInv /\ PublishedInv /\ ReadInv /\ FetchInv
    BY DEF Init, NoToken, KeyInv, PublishedInv, ReadInv, FetchInv
  <2>5. QED  BY <2>3, <2>4 DEF TokenInv
<1>2. TokenInv /\ [Next]_vars => TokenInv'
  <2> SUFFICES ASSUME TokenInv, [Next]_vars  PROVE TokenInv'  OBVIOUS
  <2>1. CASE UNCHANGED vars
    BY <2>1 DEF vars, svidVars, apiVars, workerVars, TokenInv, TypeOK, KeyInv,
       PublishedInv, ReadInv, FetchInv, Live, Published
  <2>2. QED  BY <2>1, SvidStep, ApiStep, WorkerStep, TimeStep DEF Next
<1>3. QED  BY <1>1, <1>2, PTL DEF Spec

(***************************************************************************)
(* Every variable stays in its type: no fetch of the keys is ever overdue  *)
(* (cmd/forge-api/main.go:83).                                             *)
(***************************************************************************)
THEOREM TokenTypeCorrectness == Spec => []TypeOK
<1>1. TokenInv => TypeOK  BY DEF TokenInv
<1>2. QED  BY <1>1, TokenInvariance, PTL

(***************************************************************************)
(* A step whose read was verified may write (apiserver/server.go:409).     *)
(***************************************************************************)
THEOREM ReadAlwaysAllowsWrite == Spec => []ReadThenWrite
<1>1. TokenInv => ReadThenWrite
  BY DEF TokenInv, TypeOK, ReadInv, ReadThenWrite, Accepted, Live
<1>2. QED  BY <1>1, TokenInvariance, PTL

(***************************************************************************)
(* A live token is refused for at most the time between two fetches        *)
(* (cmd/forge-api/main.go:83).                                             *)
(***************************************************************************)
THEOREM OutageIsAlwaysBounded == Spec => []OutageIsBounded
<1>1. TokenInv => OutageIsBounded
  BY DurationAssumption DEF TokenInv, TypeOK, FetchInv, OutageIsBounded, Accepted, Live
<1>2. QED  BY <1>1, TokenInvariance, PTL
=============================================================================
