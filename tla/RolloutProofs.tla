--------------------------- MODULE RolloutProofs ---------------------------
(***************************************************************************)
(* The safety properties of Rollout, for every finite set of requests and  *)
(* every choice of the durations that leaves the probe its margin.         *)
(***************************************************************************)
EXTENDS Rollout, FiniteSetTheorems, TLAPS

(***************************************************************************)
(* The slots of the attempts are spaced by an attempt and a wait, and the  *)
(* last of them begins before the third probe (cmd/forge-api/main.go:67).  *)
(***************************************************************************)
LEMMA Slots ==
  ASSUME NEW n \in 0..MaxAttempts
  PROVE  /\ Slot(n) \in Nat
         /\ Slot(n) < ProbeDeadline
         /\ Slot(n + 1) = Slot(n) + QuickFetch + Wait
<1> DEFINE D == QuickFetch + Wait
<1>1. /\ D \in Nat /\ n \in Nat /\ MaxAttempts \in Nat /\ LockTimeout \in Nat
      /\ QuickFetch \in Nat /\ Wait \in Nat
      /\ LockTimeout + MaxAttempts * D < ProbeDeadline /\ ProbeDeadline \in Nat
  BY StartupAssumption
<1>2. Slot(n) = LockTimeout + n * D /\ Slot(n + 1) = LockTimeout + (n + 1) * D
  BY DEF Slot
<1>3. D = QuickFetch + Wait
  OBVIOUS
<1> HIDE DEF D
<1>4. (n + 1) * D = n * D + D /\ n * D \in Nat
  BY <1>1
<1>5. n * D <= MaxAttempts * D
  <2>1. PICK k \in Nat : MaxAttempts = n + k
    <3>1. MaxAttempts - n \in Nat /\ MaxAttempts = n + (MaxAttempts - n)
      BY <1>1
    <3>2. QED  BY <3>1
  <2>2. (n + k) * D = n * D + k * D /\ k * D \in Nat
    BY <1>1
  <2>3. QED  BY <2>1, <2>2, <1>4
<1>6. MaxAttempts * D \in Nat
  BY <1>1
<1>7. QED  BY <1>1, <1>2, <1>3, <1>4, <1>5, <1>6

(***************************************************************************)
(* The goroutines that the WaitGroup counts are finitely many              *)
(* (apiserver/server.go:166).                                              *)
(***************************************************************************)
LEMMA CountedIsFinite ==
  /\ IsFiniteSet(Counted)
  /\ Cardinality(Counted) \in 0..Cardinality(Request)
<1>1. Counted \in SUBSET Request  BY DEF Counted
<1>2. IsFiniteSet(Counted) /\ Cardinality(Counted) <= Cardinality(Request)
  BY <1>1, RequestAssumption, FS_Subset
<1>3. Cardinality(Counted) \in Nat /\ Cardinality(Request) \in Nat
  BY <1>2, RequestAssumption, FS_CardinalityType
<1>4. QED  BY <1>2, <1>3

(***************************************************************************)
(* Initially nothing is under way (cmd/forge-api/main.go:93).              *)
(***************************************************************************)
LEMMA RolloutInvInit == RolloutInit => RolloutInv
<1> SUFFICES ASSUME RolloutInit PROVE RolloutInv
  OBVIOUS
<1> USE DEF RolloutInit, Init, StartupInit
<1>1. Counted = {}  BY DEF Counted
<1>2. wg = Cardinality(Counted) /\ wg \in 0..Cardinality(Request)
  <2>1. Cardinality(Counted) = 0  BY <1>1, FS_EmptySet
  <2>2. Cardinality(Request) \in Nat  BY RequestAssumption, FS_CardinalityType
  <2>3. QED  BY <2>1, <2>2
<1>3. RolloutTypeOK
  <2>1. TypeOK  BY <1>2 DEF TypeOK, ReqState
  <2>2. StartupTypeOK
    <3>1. /\ 0 \in 0..MaxAttempts /\ 0 \in 0..ProbeDeadline
          /\ MaxHangs \in 0..MaxHangs /\ MaxReplaced \in 0..MaxReplaced
      BY StartupAssumption
    <3>2. QED  BY <3>1 DEF StartupTypeOK
  <2>3. QED  BY <2>1, <2>2 DEF RolloutTypeOK
<1>4. OldInv /\ EarlyInv /\ LockInv /\ AgeInv
  BY <1>2 DEF OldInv, EarlyInv, LockInv, AgeInv, Successor
<1>5. QED  BY <1>3, <1>4 DEF RolloutInv

(***************************************************************************)
(* A step of a create request or of its goroutine keeps the invariant: the *)
(* WaitGroup goes on counting the provisions, and a provision from before  *)
(* SIGTERM ends with the store open (apiserver/server.go:166).             *)
(***************************************************************************)
LEMMA RequestStep ==
  ASSUME RolloutInv, NEW r \in Request, UNCHANGED <<startupVars, killed>>,
         \/ Accept(r) \/ StoreNew(r) \/ Spawn(r)
         \/ ProvisionReturns(r) \/ ProvisionLeaves(r) \/ ProvisionFails(r) \/ Mark(r)
  PROVE  RolloutInv'
<1> USE DEF RolloutInv
<1>0. /\ req \in [Request -> ReqState]
      /\ status \in [Request -> {"absent", "provisioning", "ready", "failed"}]
      /\ early \subseteq Request
      /\ wg = Cardinality(Counted) /\ Counted \subseteq Request
      /\ main # "exited" /\ ~killed
      /\ UNCHANGED server
  BY DEF RolloutTypeOK, TypeOK, EarlyInv, OldInv, Counted, Accept, StoreNew, Spawn,
         ProvisionReturns, ProvisionLeaves, ProvisionFails, Mark, MarkFailed,
         MarkFailedLost, Step
<1>a. IsFiniteSet(Counted) /\ Cardinality(Counted) \in Nat
  BY CountedIsFinite
<1>1. /\ req' \in [Request -> ReqState]
      /\ status' \in [Request -> {"absent", "provisioning", "ready", "failed"}]
  BY <1>0 DEF Accept, StoreNew, Spawn, ProvisionReturns, ProvisionLeaves, ProvisionFails,
              Mark, MarkFailed, MarkFailedLost, Step, ReqState
<1>2. wg' = Cardinality(Counted')
  <2>1. CASE Accept(r) \/ StoreNew(r) \/ ProvisionFails(r)
    <3>1. Counted' = Counted
      BY <2>1, <1>0 DEF Counted, Accept, StoreNew, ProvisionFails, Step
    <3>2. wg' = wg  BY <2>1 DEF Accept, StoreNew, ProvisionFails
    <3>3. QED  BY <3>1, <3>2, <1>0
  <2>2. CASE Spawn(r)
    <3>1. Counted' = Counted \cup {r} /\ r \notin Counted
      BY <2>2, <1>0 DEF Counted, Spawn, Step
    <3>2. wg' = wg + 1  BY <2>2 DEF Spawn
    <3>3. QED  BY <3>1, <3>2, <1>0, <1>a, FS_AddElement
  <2>3. CASE ProvisionReturns(r) \/ ProvisionLeaves(r) \/ Mark(r)
    <3>1. Counted' = Counted \ {r} /\ r \in Counted
      BY <2>3, <1>0 DEF Counted, ProvisionReturns, ProvisionLeaves, Mark, MarkFailed,
                        MarkFailedLost, Step
    <3>2. wg' = wg - 1
      BY <2>3 DEF ProvisionReturns, ProvisionLeaves, Mark, MarkFailed, MarkFailedLost
    <3>3. QED  BY <3>1, <3>2, <1>0, <1>a, FS_RemoveElement
  <2>4. QED  BY <2>1, <2>2, <2>3
<1>3. RolloutTypeOK'
  <2>1. wg' \in 0..Cardinality(Request)
    <3>1. Counted' \in SUBSET Request  BY DEF Counted
    <3>2. IsFiniteSet(Counted') /\ Cardinality(Counted') <= Cardinality(Request)
      BY <3>1, RequestAssumption, FS_Subset
    <3>3. Cardinality(Counted') \in Nat /\ Cardinality(Request) \in Nat
      BY <3>2, RequestAssumption, FS_CardinalityType
    <3>4. QED  BY <3>2, <3>3, <1>2
  <2>2. TypeOK'
    BY <2>1, <1>0, <1>1 DEF RolloutTypeOK, TypeOK, server
  <2>3. StartupTypeOK' /\ killed' \in BOOLEAN
    BY DEF RolloutTypeOK, StartupTypeOK, startupVars
  <2>4. QED  BY <2>2, <2>3 DEF RolloutTypeOK
<1>4. OldInv' /\ LockInv' /\ AgeInv'
  BY <1>0 DEF OldInv, LockInv, AgeInv, Successor, server, startupVars
<1>5. ASSUME NEW q \in early PROVE q \in Counted' \/ Settled(q)'
  <2>1. q \in Request /\ (q \in Counted \/ Settled(q))
    BY <1>0, <1>5 DEF EarlyInv
  <2>2. CASE q # r
    BY <2>1, <2>2, <1>0 DEF Counted, Settled, Accept, StoreNew, Spawn, ProvisionReturns,
                       ProvisionLeaves, ProvisionFails, Mark, MarkFailed, MarkFailedLost, Step
  <2>3. CASE q = r
    <3>1. main \in {"closing", "closed"} => Settled(r)
      BY <1>0, <1>5, <2>3 DEF EarlyInv
    <3>2. req[r] \in {"provisioning", "marking"}
      BY <2>1, <2>3 DEF Counted, Settled, LeftOpen, Accept, StoreNew, Spawn,
                        ProvisionReturns, ProvisionLeaves, ProvisionFails, Mark, MarkFailed,
                        MarkFailedLost, Step
    <3>3. open
      BY <3>1, <3>2, <1>0 DEF OldInv, Settled, LeftOpen, RolloutTypeOK, TypeOK
    <3>4. CASE ProvisionFails(r)
      BY <3>4, <2>3, <1>0 DEF Counted, ProvisionFails, Step
    <3>5. CASE ProvisionReturns(r) \/ ProvisionLeaves(r) \/ Mark(r)
      BY <3>3, <3>5, <2>3, <1>0 DEF Settled, LeftOpen, ProvisionReturns, ProvisionLeaves,
                                    Mark, MarkFailed, MarkFailedLost, Step
    <3>6. QED
      BY <3>2, <3>4, <3>5 DEF Accept, StoreNew, Spawn, Step
  <2>4. QED  BY <2>2, <2>3
<1>6. main \in {"closing", "closed", "exited"} /\ ~killed =>
          \A q \in early : Settled(q)'
  <2> SUFFICES ASSUME main \in {"closing", "closed", "exited"}, NEW q \in early
               PROVE  Settled(q)'
    OBVIOUS
  <2>1. Settled(q) /\ q \in Request  BY <1>0 DEF EarlyInv
  <2>2. q # r
    BY <2>1 DEF Settled, LeftOpen, Accept, StoreNew, Spawn, ProvisionReturns,
                ProvisionLeaves, ProvisionFails, Mark, MarkFailed, MarkFailedLost, Step
  <2>3. QED
    BY <2>1, <2>2, <1>0 DEF Settled, Accept, StoreNew, Spawn, ProvisionReturns,
                ProvisionLeaves, ProvisionFails, Mark, MarkFailed, MarkFailedLost, Step
<1>7. EarlyInv'
  BY <1>0, <1>2, <1>5, <1>6 DEF EarlyInv, server
<1>8. QED  BY <1>3, <1>4, <1>7

(***************************************************************************)
(* A step of the old pod's main goroutine, or the kill, keeps it: the      *)
(* store is closed when nothing of before SIGTERM is left (server.go:469). *)
(***************************************************************************)
LEMMA MainStep ==
  ASSUME RolloutInv, UNCHANGED startupVars,
         \/ (Sigterm \/ Shutdown \/ ServeReturns \/ Drained \/ CloseStore \/ Exit)
              /\ UNCHANGED killed
         \/ Kill
  PROVE  RolloutInv'
<1> USE DEF RolloutInv
<1>0. /\ UNCHANGED <<wg, req, status>>
      /\ req \in [Request -> ReqState] /\ wg = Cardinality(Counted)
      /\ early \subseteq Request
  BY DEF Sigterm, Shutdown, ServeReturns, Drained, CloseStore, Exit, Kill, EarlyInv,
         RolloutTypeOK, TypeOK
<1>1. Counted' = Counted /\ \A r : Settled(r)' = Settled(r)
  BY <1>0 DEF Counted, Settled
<1>2. RolloutTypeOK'
  <2>1. early' \subseteq Request
    BY <1>0 DEF Sigterm, Shutdown, ServeReturns, Drained, CloseStore, Exit, Kill
  <2>2. /\ cancelled' \in BOOLEAN /\ listening' \in BOOLEAN /\ open' \in BOOLEAN
        /\ main' \in {"serving", "draining", "closing", "closed", "exited"}
        /\ killed' \in BOOLEAN
    BY DEF RolloutTypeOK, TypeOK, Sigterm, Shutdown, ServeReturns, Drained, CloseStore,
           Exit, Kill
  <2>3. TypeOK'
    BY <1>0, <2>1, <2>2 DEF RolloutTypeOK, TypeOK
  <2>4. StartupTypeOK'
    BY DEF RolloutTypeOK, StartupTypeOK, startupVars
  <2>5. QED  BY <2>2, <2>3, <2>4 DEF RolloutTypeOK
<1>3. LockInv' /\ AgeInv'
  BY DEF LockInv, AgeInv, Successor, startupVars, Sigterm, Shutdown, ServeReturns,
         Drained, CloseStore, Exit, Kill
<1>4. OldInv'
  BY DEF OldInv, startupVars, Sigterm, Shutdown, ServeReturns, Drained, CloseStore,
         Exit, Kill, RolloutTypeOK, TypeOK
<1>5. EarlyInv'
  <2>1. CASE Sigterm /\ UNCHANGED killed
    <3>1. main = "serving" /\ early' = Counted
      BY <2>1 DEF Sigterm, OldInv, Counted
    <3>2. main' = "serving"  BY <2>1, <3>1 DEF Sigterm
    <3>3. QED  BY <1>0, <1>1, <3>1, <3>2 DEF EarlyInv
  <2>2. CASE Drained /\ UNCHANGED killed
    <3>1. wg = 0 /\ early' = early  BY <2>2 DEF Drained
    <3>2. Counted = {}
      BY <1>0, <3>1, CountedIsFinite, FS_EmptySet
    <3>3. \A r \in early : Settled(r)  BY <3>2 DEF EarlyInv
    <3>4. QED  BY <1>0, <1>1, <3>1, <3>3 DEF EarlyInv
  <2>3. CASE (Shutdown \/ ServeReturns \/ CloseStore \/ Exit) /\ UNCHANGED killed
    BY <1>0, <1>1, <2>3 DEF EarlyInv, Shutdown, ServeReturns, CloseStore, Exit
  <2>4. CASE Kill
    BY <1>0, <1>1, <2>4 DEF EarlyInv, Kill
  <2>5. QED  BY <2>1, <2>2, <2>3, <2>4
<1>6. QED  BY <1>2, <1>3, <1>4, <1>5

(***************************************************************************)
(* A step of the successor keeps it: it takes the lock only when it is     *)
(* free, and an attempt that does not hang ends in its slot                *)
(* (cmd/forge-api/main.go:67).                                             *)
(***************************************************************************)
LEMMA SuccessorStep ==
  ASSUME RolloutInv, Start \/ Open \/ FindsLocked \/ NewPod \/ ReplacePod
  PROVE  RolloutInv'
<1> USE DEF RolloutInv
<1>0. UNCHANGED <<vars, killed>>
  BY DEF Start, Open, FindsLocked, NewPod, ReplacePod
<1>1. TypeOK' /\ EarlyInv' /\ killed' \in BOOLEAN
  BY <1>0 DEF RolloutTypeOK, TypeOK, EarlyInv, Counted, Settled, vars
<1>2. OldInv'
  BY <1>0 DEF OldInv, vars, Start, Open, FindsLocked, NewPod, ReplacePod, StartContainer,
              OpenStore, OpenTimesOut, FetchSucceeds, FetchFails, FetchHangs, WaitEnds,
              WaitInterrupted, ServeInterrupted, ProbeKills, ReplaceStarting, Starting
<1>3. LockInv'
  BY <1>0 DEF LockInv, LockFree, Successor, vars, Start, Open, FindsLocked, NewPod,
              ReplacePod, StartContainer, OpenStore, OpenTimesOut, FetchSucceeds,
              FetchFails, FetchHangs, WaitEnds, WaitInterrupted, ServeInterrupted,
              ProbeKills, ReplaceStarting
<1>4. StartupTypeOK /\ AgeInv
  BY DEF RolloutTypeOK
<1>a. /\ MaxAttempts \in Nat \ {0} /\ Wait \in Nat /\ QuickFetch \in Nat
      /\ SlowFetch \in Nat /\ LockTimeout \in Nat /\ ProbeDeadline \in Nat
      /\ MaxHangs \in Nat /\ MaxReplaced \in Nat
      /\ age \in Nat /\ attempt \in 0..MaxAttempts
  BY <1>4, StartupAssumption DEF StartupTypeOK
<1>b. 0..MaxAttempts # {} /\ Slot(0) = LockTimeout /\ Slot(0) < ProbeDeadline
  BY <1>a, Slots DEF Slot
<1>5. StartupTypeOK'
  <2>1. CASE Start
    <3>1. 0 \in 0..MaxAttempts /\ 0 \in 0..ProbeDeadline  BY <1>a
    <3>2. QED  BY <2>1, <3>1, <1>4 DEF StartupTypeOK, Start, StartContainer
  <2>2. CASE Open
    BY <2>2, <1>4, <1>a DEF StartupTypeOK, Open, OpenStore, Takes
  <2>3. CASE FindsLocked
    BY <2>3, <1>4 DEF StartupTypeOK, FindsLocked, OpenTimesOut
  <2>4. CASE ReplacePod
    BY <2>4, <1>4, <1>a DEF StartupTypeOK, ReplacePod, ReplaceStarting
  <2>5. CASE FetchFails
    BY <2>5, <1>4, <1>a DEF StartupTypeOK, FetchFails, Takes, AgeInv
  <2>6. CASE FetchHangs
    BY <2>6, <1>4, <1>a DEF StartupTypeOK, FetchHangs, Takes, AgeInv
  <2>7. CASE WaitEnds
    BY <2>7, <1>4, <1>a DEF StartupTypeOK, WaitEnds, Takes
  <2>8. CASE ProbeKills
    <3>1. hangs' \in 0..MaxHangs /\ hung' \in BOOLEAN
      <4>1. hangs \in 0..MaxHangs /\ MaxHangs \in Nat /\ hung \in BOOLEAN
        BY <1>4, <1>a DEF StartupTypeOK
      <4>2. hangs' = hangs \/ (hangs > 0 /\ hangs' = hangs - 1)
        BY <2>8 DEF ProbeKills
      <4>3. hung' = hung \/ hung' = TRUE
        BY <2>8 DEF ProbeKills
      <4>4. hangs' \in 0..MaxHangs  BY <4>1, <4>2
      <4>5. hung' \in BOOLEAN  BY <4>1, <4>3
      <4>6. QED  BY <4>4, <4>5
    <3>2. QED  BY <2>8, <3>1, <1>4 DEF StartupTypeOK, ProbeKills
  <2>9. CASE FetchSucceeds \/ WaitInterrupted \/ ServeInterrupted
    BY <2>9, <1>4 DEF StartupTypeOK, FetchSucceeds, WaitInterrupted, ServeInterrupted
  <2>10. QED
    BY <2>1, <2>2, <2>3, <2>4, <2>5, <2>6, <2>7, <2>8, <2>9 DEF NewPod
<1>6. AgeInv'
  <2>1. CASE Start \/ FindsLocked \/ ReplacePod
    BY <2>1, <1>4 DEF AgeInv, Start, FindsLocked, ReplacePod, StartContainer,
       OpenTimesOut, ReplaceStarting
  <2>2. CASE Open
    <3>1. /\ pod' = "fetching" /\ attempt' = 0 /\ attempt' < MaxAttempts
          /\ age' \in {0, LockTimeout}
      BY <2>2, <1>4, <1>a DEF AgeInv, Open, OpenStore, Takes
    <3>2. age' <= Slot(attempt')  BY <3>1, <1>a, <1>b
    <3>3. QED  BY <3>1, <3>2 DEF AgeInv
  <2>3. CASE FetchFails
    <3>1. /\ attempt < MaxAttempts /\ attempt' = attempt + 1 /\ UNCHANGED hung
          /\ pod' = "waiting" /\ age' <= age + QuickFetch /\ age' \in Nat
      BY <2>3, <1>4, <1>a DEF AgeInv, FetchFails, Takes
    <3>2. hung \/ age <= Slot(attempt)
      BY <2>3, <1>4 DEF AgeInv, FetchFails
    <3>3. Slot(attempt + 1) = Slot(attempt) + QuickFetch + Wait /\ Slot(attempt) \in Nat
      BY <1>a, Slots
    <3>4. QED  BY <3>1, <3>2, <3>3, <1>a DEF AgeInv
  <2>4. CASE FetchHangs
    BY <2>4, <1>4, <1>a DEF AgeInv, FetchHangs
  <2>5. CASE WaitEnds
    BY <2>5, <1>4, <1>a DEF AgeInv, WaitEnds, Takes
  <2>6. CASE FetchSucceeds \/ WaitInterrupted \/ ServeInterrupted \/ ProbeKills
    BY <2>6 DEF AgeInv, FetchSucceeds, WaitInterrupted, ServeInterrupted, ProbeKills
  <2>7. QED
    BY <2>1, <2>2, <2>3, <2>4, <2>5, <2>6 DEF NewPod
<1>7. QED  BY <1>1, <1>2, <1>3, <1>5, <1>6 DEF RolloutTypeOK

-----------------------------------------------------------------------------
(***************************************************************************)
(* The inductive invariant of the rollout holds in every reachable state,  *)
(* for every number of requests and every set of durations.                *)
(***************************************************************************)
THEOREM RolloutInvariance == RolloutSpec => []RolloutInv
<1>1. RolloutInit => RolloutInv  BY RolloutInvInit
<1>2. RolloutInv /\ [RolloutNext]_rolloutVars => RolloutInv'
  <2> SUFFICES ASSUME RolloutInv, [RolloutNext]_rolloutVars PROVE RolloutInv'
    OBVIOUS
  <2>1. CASE OldPod
    BY <2>1, RequestStep, MainStep DEF OldPod, Next
  <2>2. CASE Kill
    <3>1. UNCHANGED startupVars  BY <2>2 DEF Kill
    <3>2. QED  BY <2>2, <3>1, MainStep
  <2>3. CASE Start \/ Open \/ FindsLocked \/ NewPod \/ ReplacePod
    BY <2>3, SuccessorStep
  <2>4. CASE UNCHANGED rolloutVars
    BY <2>4 DEF rolloutVars, vars, startupVars, RolloutInv, RolloutTypeOK, TypeOK,
       StartupTypeOK, OldInv, EarlyInv, LockInv, AgeInv, Counted, Settled, Successor
  <2>5. QED  BY <2>1, <2>2, <2>3, <2>4 DEF RolloutNext
<1>3. QED  BY <1>1, <1>2, PTL DEF RolloutSpec

(***************************************************************************)
(* Every variable keeps its type; the counter of the WaitGroup never goes  *)
(* below zero, where wg.Done panics (apiserver/server.go:168).             *)
(***************************************************************************)
THEOREM RolloutTypeCorrectness == RolloutSpec => []RolloutTypeOK
<1>1. RolloutInv => RolloutTypeOK  BY DEF RolloutInv
<1>2. QED  BY <1>1, RolloutInvariance, PTL

(***************************************************************************)
(* run's deferred Close comes after the provisions of before SIGTERM are   *)
(* over: their final status is stored, or not stored for a reason that has *)
(* nothing to do with the shutdown (cmd/forge-api/main.go:46, 123-126;     *)
(* apiserver/server.go:173).                                               *)
(***************************************************************************)
THEOREM EarlyProvisionsAlwaysSettle == RolloutSpec => []EarlyProvisionsSettle
<1>1. RolloutInv => EarlyProvisionsSettle
  BY DEF RolloutInv, OldInv, EarlyInv, Settled, EarlyProvisionsSettle
<1>2. QED  BY <1>1, RolloutInvariance, PTL

(***************************************************************************)
(* A successor that has the store finds none of those provisions in        *)
(* "provisioning" for having been in flight, unless the old pod was killed *)
(* (store.go:41, apiserver/server.go:469).                                 *)
(***************************************************************************)
THEOREM SuccessorAlwaysFindsSettled == RolloutSpec => []SuccessorFindsSettled
<1>1. RolloutInv => SuccessorFindsSettled
  BY DEF RolloutInv, RolloutTypeOK, TypeOK, OldInv, EarlyInv, LockInv, Settled,
         SuccessorFindsSettled
<1>2. QED  BY <1>1, RolloutInvariance, PTL

(***************************************************************************)
(* No late goroutine of the old pod writes once the successor has the      *)
(* store (apiserver/server.go:173).                                        *)
(***************************************************************************)
THEOREM HandoverIsAlwaysClean == RolloutSpec => HandoverIsClean
<1>1. RolloutInv /\ [RolloutNext]_rolloutVars => [Successor => UNCHANGED status]_rolloutVars
  <2> SUFFICES ASSUME RolloutInv, RolloutNext, Successor PROVE UNCHANGED status
    BY DEF rolloutVars
  <2>1. ~open  BY DEF RolloutInv, LockInv
  <2>2. CASE OldPod
    BY <2>1, <2>2 DEF OldPod, Next, Accept, StoreNew, Spawn, ProvisionReturns,
       ProvisionLeaves, ProvisionFails, Mark, MarkFailed, MarkFailedLost, Sigterm, Shutdown, ServeReturns, Drained, CloseStore, Exit
  <2>3. CASE Kill \/ Start \/ Open \/ FindsLocked \/ NewPod \/ ReplacePod
    BY <2>3 DEF Kill, Start, Open, FindsLocked, NewPod, ReplacePod, vars
  <2>4. QED  BY <2>2, <2>3 DEF RolloutNext
<1>2. QED  BY <1>1, RolloutInvariance, PTL DEF RolloutSpec, HandoverIsClean

(***************************************************************************)
(* Ten attempts and their waits end before the third probe fails, so the   *)
(* probe never kills a container for retrying (cmd/forge-api/main.go:67).  *)
(***************************************************************************)
THEOREM RetriesAreAlwaysSpared == RolloutSpec => RetriesAreSpared
<1> DEFINE Spared == Starting /\ pod # "opening" /\ pod' = "exited" => told \/ hung'
<1>1. RolloutInv /\ [RolloutNext]_rolloutVars => [Spared]_rolloutVars
  <2> SUFFICES ASSUME RolloutInv, RolloutNext, Starting, pod # "opening", pod' = "exited"
               PROVE  told \/ hung'
    BY DEF rolloutVars
  <2>1. WaitInterrupted \/ ServeInterrupted \/ ProbeKills
    BY DEF RolloutNext, OldPod, Kill, Start, Open, FindsLocked, NewPod, ReplacePod, vars,
       startupVars, StartContainer, OpenStore, OpenTimesOut, FetchSucceeds, FetchFails,
       FetchHangs, WaitEnds, ReplaceStarting, Starting
  <2>2. /\ AgeInv /\ attempt \in 0..MaxAttempts /\ age \in Nat /\ hung \in BOOLEAN
        /\ QuickFetch \in Nat /\ Wait \in Nat /\ ProbeDeadline \in Nat /\ MaxAttempts \in Nat
    BY StartupAssumption DEF RolloutInv, RolloutTypeOK, StartupTypeOK
  <2>3. CASE WaitInterrupted \/ ServeInterrupted
    BY <2>3 DEF WaitInterrupted, ServeInterrupted
  <2>4. CASE ProbeKills
    <3>1. Slot(attempt) \in Nat /\ Slot(attempt) < ProbeDeadline
      BY <2>2, Slots
    <3>2. CASE pod = "waiting" /\ age + Wait >= ProbeDeadline /\ UNCHANGED hung
      BY <2>2, <3>1, <3>2 DEF AgeInv
    <3>3. CASE pod = "fetching" /\ age + QuickFetch >= ProbeDeadline /\ UNCHANGED hung
      <4>1. attempt + 1 \in 0..MaxAttempts /\ (hung \/ age <= Slot(attempt))
        BY <2>2, <3>3 DEF AgeInv
      <4>2. Slot(attempt + 1) = Slot(attempt) + QuickFetch + Wait
            /\ Slot(attempt + 1) < ProbeDeadline
        BY <2>2, <4>1, Slots
      <4>3. QED  BY <2>2, <3>1, <3>3, <4>1, <4>2
    <3>4. CASE hung' = TRUE
      BY <3>4
    <3>5. QED  BY <2>4, <3>2, <3>3, <3>4 DEF ProbeKills
  <2>5. QED  BY <2>1, <2>3, <2>4
<1>2. QED  BY <1>1, RolloutInvariance, PTL DEF RolloutSpec, RetriesAreSpared
=============================================================================
