-------------------------- MODULE AwsOutcomeProofs --------------------------
(***************************************************************************)
(* How a saga that calls AWS ends: what a completed one has made, and what *)
(* a rollback leaves.                                                      *)
(***************************************************************************)
EXTENDS AwsProofs

-----------------------------------------------------------------------------
(* What is ready stays ready while the saga runs forward.                  *)

LEMMA NamedTypeFacts ==
    ASSUME NamedInv
    PROVE  TypeInv /\ SagaInv /\ LeavingInv /\ ProgramInv /\ account \in Accounts
  BY DEF NamedInv, TypeInv, Accounts

\* Ready, before a step and after it.
IsReady(k, id) ==
    \E n \in DOMAIN account[k] : account[k][n].state = "ready" /\ (k \in Named \/ n = id)
IsReadyAfter(k, id) ==
    \E n \in DOMAIN account'[k] : account'[k][n].state = "ready" /\ (k \in Named \/ n = id)

ReadyStays(k) ==
    \A n \in DOMAIN account[k] : account[k][n].state = "ready" =>
        n \in DOMAIN account'[k] /\ account'[k][n].state = "ready"

LEMMA ReadyIsReady == \A k, id : Ready(k, id) <=> IsReady(k, id)
  BY DEF Ready, InState, Target, Alive, IsReady

LEMMA ReadyGoesOn ==
    ASSUME NEW k, NEW id, IsReady(k, id), ReadyStays(k)
    PROVE  IsReadyAfter(k, id)
  BY DEF IsReady, IsReadyAfter, ReadyStays

LEMMA CallReady ==
    ASSUME NamedInv, CallSucceeds, Running, NEW k \in Kind
    PROVE  ReadyStays(k)
  <1>1. account \in Accounts /\ account' \in Accounts /\ ~Undo /\ req.env \in [Field -> Nat]
    BY NamedTypeFacts, CallKeeps, CallFacts DEF AccountKept, Running, Undo
  <1>2. ASSUME account' = account PROVE ReadyStays(k)
    BY <1>2 DEF ReadyStays
  <1>3. ASSUME NEW j \in Kind, NEW v \in Nat, NEW p \in Nat, Appear(j, v, p)
        PROVE  ReadyStays(k)
    <2>1. CASE j = k
      <3>1. /\ DOMAIN account'[k] = 1..(Len(account[k]) + 1)
            /\ \A n \in DOMAIN account[k] : account'[k][n] = account[k][n]
        BY <1>1, <1>3, <2>1, AppearFacts
      <3>2. DOMAIN account[k] = 1..Len(account[k]) /\ Len(account[k]) \in Nat
        BY <1>1, AccountSeq
      <3> QED
        BY <3>1, <3>2 DEF ReadyStays
    <2>2. CASE j # k
      BY <1>1, <1>3, <2>2, AppearFacts DEF ReadyStays
    <2> QED
      BY <2>1, <2>2
  <1>4. ASSUME NEW j \in Kind, NEW ns, Becomes(j, ns, "ready")
        PROVE  ReadyStays(k)
    <2>1. CASE j = k
      BY <1>1, <1>4, <2>1, BecomesFacts DEF ReadyStays
    <2>2. CASE j # k
      BY <1>1, <1>4, <2>2, BecomesFacts DEF ReadyStays
    <2> QED
      BY <2>1, <2>2
  <1>5. CASE \E j \in Kind : Creates(j)
    <2>1. PICK j \in Kind : Creates(j)
      BY <1>5
    <2>2. (IF j = "db" THEN req.env["password"] ELSE 0) \in Nat
      BY <1>1 DEF Field
    <2>3. \/ account' = account
          \/ \E v \in Nat : Appear(j, v, IF j = "db" THEN req.env["password"] ELSE 0)
      BY <2>1 DEF Creates
    <2> QED
      BY <1>2, <1>3, <2>2, <2>3
  <1>6. CASE \E j \in Kind : Configures(j)
    BY <1>4, <1>6 DEF Configures
  <1>7. CASE \E what \in {"placeholder", "config"} : Uploads(what)
    <2>1. Appear("object", 0, 0) \/ Becomes("object", Alive("object"), "ready")
      BY <1>7 DEF Uploads, Upload
    <2>2. "object" \in Kind
      BY DEF Kind
    <2> QED
      BY <1>3, <1>4, <2>1, <2>2
  <1>8. CASE account' = account
    BY <1>2, <1>8
  <1> QED
    BY <1>1, <1>5, <1>6, <1>7, <1>8, NamedTypeFacts, CallCases
    DEF Calling, Comes, Goes, Sets, Clears, Checks, Deletes, Hides, Others, Puts, Quiet

LEMMA SettledReady ==
    ASSUME NamedInv, account' = account \/ \E k \in SlowToCome : Settle(k)
    PROVE  \A k \in Kind : ReadyStays(k)
  <1>1. CASE account' = account
    BY <1>1 DEF ReadyStays
  <1>2. CASE \E k \in SlowToCome : Settle(k)
    <2>1. PICK k \in SlowToCome : Settle(k)
      BY <1>2
    <2>2. k \in Kind
      BY DEF SlowToCome, Kind
    <2>3. \A j \in Kind \ {k} : ReadyStays(j)
      BY <2>1, <2>2, NamedTypeFacts, SettleKeeps DEF ReadyStays
    <2>4. ReadyStays(k)
      <3>1. DOMAIN account'[k] = DOMAIN account[k]
        BY <2>1, <2>2, NamedTypeFacts, BecomesFacts DEF Settle
      <3> QED
        BY <2>1, <2>2, <3>1, NamedTypeFacts, SettleKeeps DEF ReadyStays
    <2> QED
      BY <2>3, <2>4
  <1> QED
    BY <1>1, <1>2

\* Whole, before a step and after it.
IsWhole(s, env) ==
    /\ \A k \in Own[s] \cap Kind : env[k] # 0 /\ (k # "file" => IsReady(k, env[k]))
    /\ s = S3       => IsReady("object", 1)
    /\ s = Config   => config = [endpoint |-> env["endpoint"], password |-> env["password"]]
    /\ s = Health   => env["endpoint"] # 0
    /\ s = Registry => env["status"] # 0
IsWholeAfter(s, env) ==
    /\ \A k \in Own[s] \cap Kind : env[k] # 0 /\ (k # "file" => IsReadyAfter(k, env[k]))
    /\ s = S3       => IsReadyAfter("object", 1)
    /\ s = Config   => config' = [endpoint |-> env["endpoint"], password |-> env["password"]]
    /\ s = Health   => env["endpoint"] # 0
    /\ s = Registry => env["status"] # 0

LEMMA WholeIsWhole ==
    /\ \A s, env : Whole(s, env) <=> IsWhole(s, env)
    /\ \A s : Whole(s, stored)' <=> IsWholeAfter(s, stored')
  <1>1. \A s, env : Whole(s, env) <=> IsWhole(s, env)
    BY ReadyIsReady DEF Whole, IsWhole, Published
  <1>2. \A s : Whole(s, stored)' <=> IsWholeAfter(s, stored')
    BY DEF Whole, IsWholeAfter, Published, Ready, InState, Target, Alive, IsReadyAfter
  <1> QED
    BY <1>1, <1>2

\* What is whole stays so while its resources and its fields do.
LEMMA WholeStays ==
    ASSUME NEW s \in 1..8, NEW env, NEW new, IsWhole(s, env),
           \A f \in Own[s] : new[f] = env[f],
           s \in {Config, Health} => /\ new["endpoint"] = env["endpoint"]
                                     /\ new["password"] = env["password"],
           s = Config => config' = config,
           \A k \in Kind \ {"file"} : StepOf(k) = s => ReadyStays(k)
    PROVE  IsWholeAfter(s, new)
  <1>1. ASSUME NEW k \in Own[s] \cap Kind
        PROVE  new[k] # 0 /\ (k # "file" => IsReadyAfter(k, new[k]))
    <2>1. new[k] = env[k] /\ env[k] # 0 /\ (k # "file" => IsReady(k, env[k]))
      BY DEF IsWhole
    <2>2. k # "file" => ReadyStays(k)
      BY OwnFacts
    <2> QED
      BY <2>1, <2>2, ReadyGoesOn
  <1>2. s = S3 => IsReadyAfter("object", 1)
    <2>1. s = S3 => ReadyStays("object")
      BY OwnFacts DEF Kind
    <2> QED
      BY <2>1, ReadyGoesOn DEF IsWhole
  <1>3. s = Registry => new["status"] = env["status"]
    BY DEF Own, Registry
  <1> QED
    BY <1>1, <1>2, <1>3 DEF IsWhole, IsWholeAfter

-----------------------------------------------------------------------------
(* DoneInv is inductive.                                                   *)

\* What it says while StartSaga is not broken off.
DoneCore == NamedInv /\ PlainInv /\ AheadInv /\ WholeInv /\ DoingInv

LEMMA DoneCores == NamedInv => (DoneInv <=> (Unbroken => DoneCore))
  BY DEF DoneInv, DoneCore

LEMMA StillUnbroken ==
    ASSUME NamedInv, [Next]_vars, Unbroken'
    PROVE  Unbroken
  BY NamedTypeFacts, UnbrokenCases

LEMMA PlainStep ==
    ASSUME NamedInv, PlainInv, [Next]_vars
    PROVE  PlainInv'
  <1> SUFFICES ASSUME NEW k \in {"pub", "prv", "policy", "file"}
               PROVE  \A n \in DOMAIN account'[k] : account'[k][n].state \in {"ready", "gone"}
    BY DEF PlainInv
  <1>1. /\ \A n \in DOMAIN account[k] : account[k][n].state \in {"ready", "gone"}
        /\ k \in Kind \ {"object"} /\ k \notin SlowToCome \cup Configured /\ k \notin SlowToGo
    BY DEF PlainInv, Kind, SlowToCome, Configured, SlowToGo
  <1>2. account \in Accounts /\ account' \in Accounts
    BY NamedTypeFacts, TypeStep DEF AccountKept
  <1>3. ASSUME account'[k] = account[k]
        PROVE  \A n \in DOMAIN account'[k] : account'[k][n].state \in {"ready", "gone"}
    BY <1>1, <1>3
  <1>4. ASSUME NEW j \in Kind, NEW ns, NEW s \in {"pending", "ready", "hidden", "leaving", "gone"},
               Becomes(j, ns, s), j = k => s \in {"ready", "gone"}
        PROVE  \A n \in DOMAIN account'[k] : account'[k][n].state \in {"ready", "gone"}
    <2>1. CASE j = k
      BY <1>1, <1>2, <1>4, <2>1, BecomesFacts
    <2>2. CASE j # k
      <3>1. account'[k] = account[k]
        BY <1>1, <1>2, <1>4, <2>2, BecomesFacts
      <3> QED
        BY <1>3, <3>1
    <2> QED
      BY <2>1, <2>2
  <1>5. ASSUME NEW j \in Kind, NEW v \in Nat, NEW p \in Nat, Appear(j, v, p)
        PROVE  \A n \in DOMAIN account'[k] : account'[k][n].state \in {"ready", "gone"}
    <2>1. CASE j = k
      <3>1. /\ DOMAIN account'[k] = 1..(Len(account[k]) + 1)
            /\ \A n \in DOMAIN account[k] : account'[k][n] = account[k][n]
            /\ account'[k][Len(account[k]) + 1] =
                 [state |-> IF k \in SlowToCome \cup Configured THEN "pending" ELSE "ready",
                  vpc |-> v, pass |-> p]
        BY <1>2, <1>5, <2>1, AppearFacts
      <3>2. account'[k][Len(account[k]) + 1].state = "ready"
        BY <1>1, <3>1
      <3>3. DOMAIN account[k] = 1..Len(account[k]) /\ Len(account[k]) \in Nat
        BY <1>1, <1>2, AccountSeq
      <3> QED
        BY <1>1, <3>1, <3>2, <3>3
    <2>2. CASE j # k
      <3>1. account'[k] = account[k]
        BY <1>1, <1>2, <1>5, <2>2, AppearFacts
      <3> QED
        BY <1>3, <3>1
    <2> QED
      BY <2>1, <2>2
  <1>6. CASE CallStep
    BY <1>3, <1>6, NamedTypeFacts, RequestBegins
  <1>7. CASE CallSucceeds
    <2>1. req.env \in [Field -> Nat]
      BY <1>7, NamedTypeFacts, CallFacts
    <2>2. CASE \E j \in Kind : Creates(j)
      <3>1. PICK j \in Kind : Creates(j)
        BY <2>2
      <3>2. (IF j = "db" THEN req.env["password"] ELSE 0) \in Nat
        BY <2>1 DEF Field
      <3>3. \/ account' = account
            \/ \E v \in Nat : Appear(j, v, IF j = "db" THEN req.env["password"] ELSE 0)
        BY <3>1 DEF Creates
      <3> QED
        BY <1>3, <1>5, <3>2, <3>3
    <2>3. CASE \E j \in Kind : Configures(j)
      BY <1>4, <2>3 DEF Configures
    <2>4. CASE \E j \in Kind : Deletes(j)
      <3>1. PICK j \in Kind : \E ns : Becomes(j, ns, IF j \in SlowToGo THEN "leaving" ELSE "gone")
        BY <2>4 DEF Deletes, DeleteResource
      <3> QED
        BY <1>1, <1>4, <3>1
    <2>5. CASE Hides \/ \E what \in {"placeholder", "config"} : Uploads(what)
      <3>1. \/ Appear("object", 0, 0)
            \/ \E s \in {"ready", "hidden"} : Becomes("object", Alive("object"), s)
        BY <2>5 DEF Hides, HideObject, Uploads, Upload
      <3>2. "object" \in Kind /\ "object" # k
        BY <1>1 DEF Kind
      <3> QED
        BY <1>4, <1>5, <3>1, <3>2
    <2> QED
      BY <1>3, <1>7, <2>2, <2>3, <2>4, <2>5, NamedTypeFacts, CallCases
      DEF Calling, Comes, Goes, Sets, Clears, Checks, Others, Puts, Quiet
  <1>8. CASE Fails
    <2>1. CASE DiskLost
      BY <1>4, <2>1 DEF DiskLost, Kind
    <2>2. CASE account' = account
      BY <1>3, <2>2
    <2> QED
      BY <1>8, <2>1, <2>2
      DEF Fails, CallRefused, CallFails, WorkerDies, accountVars
  <1>9. CASE StepReturns
    BY <1>3, <1>9, NamedTypeFacts, RequestReturns
  <1>10. CASE account' = account
    BY <1>3, <1>10
  <1>11. CASE \E j \in SlowToCome : Settle(j)
    BY <1>1, <1>2, <1>3, <1>11, NamedTypeFacts, SettleKeeps DEF SlowToCome, Kind
  <1> QED
    BY <1>6, <1>7, <1>8, <1>9, <1>10, <1>11, NamedTypeFacts, RequestStops, StepCases
    DEF Marks, Aside

LEMMA AheadStep ==
    ASSUME NamedInv, AheadInv, [Next]_vars, Unbroken'
    PROVE  AheadInv'
  <1> USE NamedTypeFacts
  <1> SUFFICES ASSUME Running', NEW s \in (cur' + 1)..8, NEW f \in Own[s]
               PROVE  stored'[f] = 0
    BY DEF AheadInv
  <1>1. CASE CallStep
    BY <1>1, RequestBegins DEF AheadInv, Running
  <1>2. CASE CallSucceeds
    <2>1. Running /\ cur' = cur /\ cur \in 1..8 /\ Serving
      BY <1>2, CallFacts DEF Running
    <2>2. s \in 1..8 /\ s # cur /\ f \in Field /\ f \notin Own[cur] /\ stored[f] = 0
      BY <2>1, OwnFacts DEF AheadInv
    <2>3. req.env[f] = 0
      BY <2>1, <2>2, StillUnbroken DEF NamedInv, CopyInv
    <2> QED
      BY <1>2, <2>2, <2>3, CallRecord
  <1>3. CASE Fails
    BY <1>3, RequestFails DEF AheadInv, Running
  <1>4. CASE StepReturns
    BY <1>4, RequestReturns DEF AheadInv, Running, Undo
  <1>5. CASE Aside
    BY <1>5 DEF AheadInv, Running, Aside, sagaVars
  <1>6. CASE Marks /\ saga = "failed"
    BY <1>6 DEF Marks, sagaVars, Running
  <1> QED
    BY <1>1, <1>2, <1>3, <1>4, <1>5, <1>6, UnbrokenCases

\* Doing, in the form the steps need.
IsDoing(todo, env, old) ==
    /\ env = old \/ Put \in todo
    /\ \A k \in Own[cur] \cap Kind :
          \/ Create(k) \in todo
          \/ /\ env[k] # 0
             /\ k # "file" => IsReady(k, env[k]) \/ {Await(k), Configure(k)} \cap todo # {}
    /\ cur = S3       => Do("upload", "placeholder") \in todo \/ IsReady("object", 1)
    /\ cur = Config   => \/ Do("upload", "config") \in todo
                         \/ config = [endpoint |-> env["endpoint"], password |-> env["password"]]
    /\ cur = Health   => Do("check", "db") \in todo \/ env["endpoint"] # 0
    /\ cur = Registry => Set("status") \in todo \/ env["status"] # 0
IsDoingAfter(todo, env, old) ==
    /\ env = old \/ Put \in todo
    /\ \A k \in Own[cur] \cap Kind :
          \/ Create(k) \in todo
          \/ /\ env[k] # 0
             /\ k # "file" => IsReadyAfter(k, env[k]) \/ {Await(k), Configure(k)} \cap todo # {}
    /\ cur = S3       => Do("upload", "placeholder") \in todo \/ IsReadyAfter("object", 1)
    /\ cur = Config   => \/ Do("upload", "config") \in todo
                         \/ config' = [endpoint |-> env["endpoint"], password |-> env["password"]]
    /\ cur = Health   => Do("check", "db") \in todo \/ env["endpoint"] # 0
    /\ cur = Registry => Set("status") \in todo \/ env["status"] # 0

Unmarked(todo, old) == cur \in DOMAIN Mark /\ todo # <<>> => old[Mark[cur]] = 0

LEMMA DoingIsDoing ==
    /\ DoingInv <=> (Running /\ Serving => IsDoing(Todo, req.env, stored)
                                             /\ Unmarked(req.todo, stored))
    /\ cur' = cur =>
          (DoingInv' <=> (Running' /\ Serving' => IsDoingAfter(Todo', req'.env, stored')
                                                    /\ Unmarked(req'.todo, stored')))
  <1>1. DoingInv <=> (Running /\ Serving => IsDoing(Todo, req.env, stored)
                                              /\ Unmarked(req.todo, stored))
    BY ReadyIsReady DEF DoingInv, IsDoing, Unmarked, Published
  <1>2. ASSUME cur' = cur
        PROVE  DoingInv' <=> (Running' /\ Serving' => IsDoingAfter(Todo', req'.env, stored')
                                                        /\ Unmarked(req'.todo, stored'))
    BY <1>2 DEF DoingInv, IsDoingAfter, Unmarked, Published, Ready, InState, Target, Alive,
                IsReadyAfter
  <1> QED
    BY <1>1, <1>2

\* With nothing left to do but to store the record, the step's work is whole.
LEMMA DoneIsWhole ==
    ASSUME NEW todo, NEW env, NEW old, cur \in 1..8, IsDoing(todo, env, old), todo \subseteq {Put}
    PROVE  IsWhole(cur, env)
  <1>1. /\ \A k : Create(k) \notin todo /\ Await(k) \notin todo /\ Configure(k) \notin todo
        /\ Do("upload", "placeholder") \notin todo /\ Do("upload", "config") \notin todo
        /\ Do("check", "db") \notin todo /\ Set("status") \notin todo
    BY Verbs
  <1> QED
    BY <1>1 DEF IsDoing, IsWhole

\* The field that marks a step is one that it fills.
LEMMA MarkFacts ==
    /\ DOMAIN Mark = {Vpc, S3, Identity, Config, Registry}
    /\ \A s \in DOMAIN Mark : s \in 1..8 /\ Mark[s] \in Own[s] /\ s \notin {Rds, Ec2}
    /\ \A s \in DOMAIN Mark : \A env : IsWhole(s, env) => env[Mark[s]] # 0
  BY DEF Mark, Vpc, Rds, Ec2, S3, Identity, Config, Registry, Own, Kind, IsWhole

\* What Execute does is all to be done.
LEMMA ExecutionDoes ==
    ASSUME NEW s \in 1..8
    PROVE  LET todo == Range(Execution[s]) IN
           /\ \A k \in Own[s] \cap Kind : Create(k) \in todo
           /\ s = S3       => Do("upload", "placeholder") \in todo
           /\ s = Config   => Do("upload", "config") \in todo
           /\ s = Health   => Do("check", "db") \in todo
           /\ s = Registry => Set("status") \in todo
  <1>1. CASE s = Vpc
    BY <1>1 DEF Execution, VpcExecute, Range, Own, Kind, Vpc, S3, Config, Health, Registry
  <1>2. CASE s = Rds
    BY <1>2 DEF Execution, RdsExecute, Range, Own, Kind, Rds, S3, Config, Health, Registry
  <1>3. CASE s = Ec2
    BY <1>3 DEF Execution, Ec2Execute, Range, Own, Kind, Ec2, S3, Config, Health, Registry
  <1>4. CASE s = S3
    BY <1>4 DEF Execution, S3Execute, Range, Own, Kind, S3, Config, Health, Registry
  <1>5. CASE s = Identity
    BY <1>5
    DEF Execution, IdentityExecute, Range, Own, Kind, Identity, S3, Config, Health, Registry
  <1>6. CASE s = Config
    BY <1>6 DEF Execution, ConfigExecute, Range, Own, Kind, S3, Config, Health, Registry
  <1>7. CASE s = Health
    BY <1>7 DEF Execution, HealthExecute, Range, Own, Kind, S3, Config, Health, Registry
  <1>8. CASE s = Registry
    BY <1>8 DEF Execution, RegistryExecute, Range, Own, Kind, S3, Config, Health, Registry
  <1> QED
    BY <1>1, <1>2, <1>3, <1>4, <1>5, <1>6, <1>7, <1>8
    DEF Vpc, Rds, Ec2, S3, Identity, Config, Health, Registry

\* The call at hand is the one its name tells.
LEMMA WhichCall ==
    ASSUME NamedInv, CallSucceeds
    PROVE  /\ \A k : Now = Create(k) => Creates(k)
           /\ \A k : Now = Configure(k) => Configures(k)
           /\ \A k : Now = Await(k) => Comes(k)
           /\ \A f : Now = Set(f) => Sets(f)
           /\ \A what : Now = Do("upload", what) => Uploads(what)
           /\ Now = Do("check", "db") => Checks
           /\ Now = Put => Puts
  <1>1. Calling
    BY NamedTypeFacts, CallCases
  <1>2. ASSUME NEW k, Now = Create(k) PROVE Creates(k)
    <2>1. Now.do = "create" /\ Now.on = k
      BY <1>2, Verbs
    <2>2. PICK j \in Kind : Creates(j)
      BY <1>1, <2>1, CallVerbs DEF Calling
    <2>3. Now = Create(j)
      BY <2>2 DEF Creates
    <2>4. j = k
      BY <2>1, <2>3, Verbs
    <2> QED
      BY <2>2, <2>4
  <1>3. ASSUME NEW k, Now = Configure(k) PROVE Configures(k)
    <2>1. Now.do = "configure" /\ Now.on = k
      BY <1>3, Verbs
    <2>2. PICK j \in Kind : Configures(j)
      BY <1>1, <2>1, CallVerbs DEF Calling
    <2>3. Now = Configure(j)
      BY <2>2 DEF Configures
    <2>4. j = k
      BY <2>1, <2>3, Verbs
    <2> QED
      BY <2>2, <2>4
  <1>4. ASSUME NEW k, Now = Await(k) PROVE Comes(k)
    <2>1. Now.do = "await" /\ Now.on = k
      BY <1>4, Verbs
    <2>2. PICK j \in Kind : Comes(j)
      BY <1>1, <2>1, CallVerbs DEF Calling
    <2>3. Now = Await(j)
      BY <2>2 DEF Comes
    <2>4. j = k
      BY <2>1, <2>3, Verbs
    <2> QED
      BY <2>2, <2>4
  <1>5. ASSUME NEW f, Now = Set(f) PROVE Sets(f)
    <2>1. Now.do = "set" /\ Now.on = f
      BY <1>5, Verbs
    <2>2. PICK j \in Field : Sets(j)
      BY <1>1, <2>1, CallVerbs DEF Calling
    <2>3. Now = Set(j)
      BY <2>2 DEF Sets
    <2>4. j = f
      BY <2>1, <2>3, Verbs
    <2> QED
      BY <2>2, <2>4
  <1>6. ASSUME NEW what, Now = Do("upload", what) PROVE Uploads(what)
    <2>1. Now.do = "upload" /\ Now.on = what
      BY <1>6, Verbs
    <2>2. PICK j \in {"placeholder", "config"} : Uploads(j)
      BY <1>1, <2>1, CallVerbs DEF Calling
    <2>3. Now = Do("upload", j)
      BY <2>2 DEF Uploads
    <2>4. j = what
      BY <2>1, <2>3, Verbs
    <2> QED
      BY <2>2, <2>4
  <1>7. Now = Do("check", "db") => Checks
    BY <1>1, CallVerbs, Verbs DEF Calling
  <1>8. Now = Put => Puts
    BY <1>1, CallVerbs, Verbs DEF Calling
  <1> QED
    BY <1>2, <1>3, <1>4, <1>5, <1>6, <1>7, <1>8

\* A step that takes itself for done is.
LEMMA DoneAlready ==
    ASSUME WholeInv, Running, cur \in 1..8
    PROVE  /\ IsAlreadyDone(cur, stored) => IsWhole(cur, stored)
           /\ cur \in DOMAIN Mark =>
                 (IsAlreadyDone(cur, stored) <=> stored[Mark[cur]] # 0)
  <1>1. cur \in DOMAIN Mark => (IsAlreadyDone(cur, stored) <=> stored[Mark[cur]] # 0)
    <2> USE DEF IsAlreadyDone, Mark, Vpc, Rds, Ec2, S3, Identity, Config, Health, Registry
    <2>1. CASE cur = Vpc
      BY <2>1
    <2>2. CASE cur = S3
      BY <2>2
    <2>3. CASE cur = Identity
      BY <2>3
    <2>4. CASE cur = Config
      BY <2>4
    <2>5. CASE cur = Registry
      BY <2>5
    <2> QED
      BY <2>1, <2>2, <2>3, <2>4, <2>5
  <1>2. ASSUME IsAlreadyDone(cur, stored) PROVE IsWhole(cur, stored)
    <2>1. CASE cur \in DOMAIN Mark
      BY <1>1, <1>2, <2>1, WholeIsWhole DEF WholeInv
    <2>2. CASE cur = Rds
      <3>1. Own[cur] \cap Kind = {"db"} /\ cur \notin {S3, Config, Health, Registry}
        BY <2>2 DEF Own, Kind, Rds, S3, Config, Health, Registry
      <3>2. stored["db"] # 0 /\ Ready("db", stored["db"])
        BY <1>2, <2>2
        DEF IsAlreadyDone, Ready, Vpc, Rds, Ec2, S3, Identity, Config, Health, Registry
      <3> QED
        BY <3>1, <3>2, ReadyIsReady DEF IsWhole
    <2>3. CASE cur = Ec2
      <3>1. Own[cur] \cap Kind = {"instance"} /\ cur \notin {S3, Config, Health, Registry}
        BY <2>3 DEF Own, Kind, Ec2, S3, Config, Health, Registry
      <3>2. stored["instance"] # 0 /\ Ready("instance", stored["instance"])
        BY <1>2, <2>3
        DEF IsAlreadyDone, Ready, Vpc, Rds, Ec2, S3, Identity, Config, Health, Registry
      <3> QED
        BY <3>1, <3>2, ReadyIsReady DEF IsWhole
    <2>4. CASE cur = Health
      BY <1>2, <2>4
      DEF IsAlreadyDone, Vpc, Rds, Ec2, S3, Identity, Config, Health, Registry
    <2> QED
      BY <2>1, <2>2, <2>3, <2>4, MarkFacts
      DEF Vpc, Rds, Ec2, S3, Identity, Config, Health, Registry
  <1> QED
    BY <1>1, <1>2

\* What a kind is after the call that creates or configures it.
LEMMA CreatedIsUnderWay ==
    ASSUME NamedInv, PlainInv, CallSucceeds, NEW k \in Kind \ {"object", "file"}, Creates(k)
    PROVE  /\ req'.env[k] # 0
           /\ IsReadyAfter(k, req'.env[k]) \/ {Await(k), Configure(k)} \cap Todo' # {}
  <1> USE NamedTypeFacts
  <1>1. k \in Field /\ req'.env[k] = Value(k) /\ Len(account[k]) \in Nat
    BY CallFacts, OwnFacts, AccountSeq DEF Creates
  <1>2. Value(k) # 0
    BY <1>1 DEF Value, Kind
  <1>3. ForwardOrder(cur, req.todo) /\ Todo' = Range(Tail(req.todo)) /\ Now = Create(k)
    <2>1. Running /\ Now = Create(k)
      BY DEF Creates
    <2>2. Serving /\ req'.todo = Tail(req.todo)
      BY CallFacts
    <2> QED
      BY <2>1, <2>2 DEF ProgramInv, Todo
  <1>4. /\ k \in SlowToCome => Await(k) \in Todo'
        /\ k \in Configured => Configure(k) \in Todo'
    BY <1>3, CallFacts, ForwardTail DEF Now
  <1>5. CASE k \notin SlowToCome \cup Configured
    <2>1. k \in {"pub", "prv", "policy"}
      BY <1>5 DEF Kind, SlowToCome, Configured
    <2>2. CASE k \in Named /\ Alive(k) # {} /\ account' = account
      <3>1. PICK n \in Alive(k) : TRUE
        BY <2>2
      <3>2. n \in DOMAIN account[k] /\ account[k][n].state # "gone"
        BY <3>1 DEF Alive
      <3>3. account[k][n].state = "ready"
        BY <2>1, <3>2 DEF PlainInv
      <3> QED
        BY <1>1, <1>2, <2>2, <3>2, <3>3 DEF IsReadyAfter
    <2>3. CASE \E v \in Nat : Appear(k, v, IF k = "db" THEN req.env["password"] ELSE 0)
      <3>1. PICK v \in Nat : Appear(k, v, 0)
        BY <2>1, <2>3
      <3>2. /\ DOMAIN account'[k] = 1..(Len(account[k]) + 1)
            /\ account'[k][Len(account[k]) + 1] =
                 [state |-> IF k \in SlowToCome \cup Configured THEN "pending" ELSE "ready",
                  vpc |-> v, pass |-> 0]
        BY <3>1, AppearFacts
      <3>3. account'[k][Len(account[k]) + 1].state = "ready"
        BY <1>5, <3>2
      <3>4. k \notin Named => Value(k) = Len(account[k]) + 1
        BY <2>1 DEF Value, Kind
      <3>5. Len(account[k]) + 1 \in DOMAIN account'[k]
        BY <1>1, <3>2
      <3>6. IsReadyAfter(k, Value(k))
        BY <3>3, <3>4, <3>5 DEF IsReadyAfter
      <3> QED
        BY <1>1, <1>2, <3>6
    <2>4. \/ k \in Named /\ Alive(k) # {} /\ account' = account
          \/ \E v \in Nat : Appear(k, v, IF k = "db" THEN req.env["password"] ELSE 0)
      BY DEF Creates
    <2> QED
      BY <1>1, <1>2, <2>2, <2>3, <2>4
  <1> QED
    BY <1>1, <1>2, <1>4, <1>5

LEMMA DoingStep ==
    ASSUME DoneCore, [Next]_vars, Unbroken'
    PROVE  DoingInv'
  <1> USE NamedTypeFacts
  <1> USE DEF DoneCore
  <1>1. CASE CallStep
    <2>1. /\ cur' = cur /\ cur \in 1..8 /\ req'.env = stored /\ stored' = stored
          /\ account' = account /\ config' = config /\ Running' = Running
          /\ Running => IF IsAlreadyDone(cur, stored) THEN req'.todo = <<>>
                                                     ELSE req'.todo = Execution[cur]
      BY <1>1, RequestBegins DEF Running
    <2>2. CASE Running /\ IsAlreadyDone(cur, stored)
      <3>1. IsWhole(cur, stored) /\ Todo' = {} /\ req'.todo = <<>>
        BY <2>1, <2>2, DoneAlready DEF Todo, Range
      <3>2. IsWholeAfter(cur, stored)
        BY <2>1, <3>1, WholeStays DEF ReadyStays
      <3> QED
        BY <2>1, <3>1, <3>2, DoingIsDoing DEF IsWholeAfter, IsDoingAfter, Unmarked
    <2>3. CASE Running /\ ~IsAlreadyDone(cur, stored)
      <3>1. Todo' = Range(Execution[cur])
        BY <2>1, <2>3 DEF Todo
      <3>2. IsDoingAfter(Todo', stored, stored)
        BY <2>1, <3>1, ExecutionDoes DEF IsDoingAfter
      <3>3. Unmarked(req'.todo, stored)
        BY <2>1, <2>3, DoneAlready DEF Unmarked
      <3> QED
        BY <2>1, <3>2, <3>3, DoingIsDoing
    <2> QED
      BY <2>1, <2>2, <2>3, DoingIsDoing
  <1>2. CASE CallSucceeds
    <2> SUFFICES ASSUME Running
                 PROVE  /\ IsDoingAfter(Todo', req'.env, stored')
                        /\ Unmarked(req'.todo, stored')
      BY <1>2, CallFacts, DoingIsDoing DEF Running
    <2>1. /\ Serving /\ cur \in 1..8 /\ Todo = {Now} \cup Todo' /\ ~Undo
          /\ req.todo # <<>> /\ req.env \in [Field -> Nat]
          /\ req'.todo = Tail(req.todo) /\ Todo' = Range(Tail(req.todo))
          /\ ForwardOrder(cur, req.todo)
      <3>1. /\ Serving /\ cur \in 1..8 /\ Todo = {Now} \cup Todo'
            /\ req.todo # <<>> /\ req.env \in [Field -> Nat]
            /\ req'.todo = Tail(req.todo)
        BY <1>2, CallFacts
      <3>2. ForwardOrder(cur, req.todo)
        BY <3>1 DEF ProgramInv
      <3>3. Todo' = Range(Tail(req.todo)) /\ ~Undo
        BY <3>1 DEF Todo, Running, Undo
      <3> QED
        BY <3>1, <3>2, <3>3
    <2>2. IsDoing(Todo, req.env, stored) /\ Unmarked(req.todo, stored)
      BY <2>1, DoingIsDoing
    <2>3. \A k \in Kind : ReadyStays(k)
      BY <1>2, CallReady
    <2>4. \A f \in Field :
             \/ req'.env[f] = req.env[f]
             \/ Creates(f) /\ req'.env[f] = Value(f)
             \/ Sets(f) /\ f \notin Kind /\ req'.env[f] = Value(f)
      BY <1>2, <2>1, CallRecord DEF Clears
    <2>5. Own[cur] \subseteq Field
      BY <2>1, OwnFacts
    <2>6. req'.env = stored' \/ Put \in Todo'
      <3>1. CASE \E k : Creates(k) \/ Sets(k)
        BY <1>2, <2>1, <3>1, CallVerbs, ForwardTail, CallFacts DEF Now
      <3>2. CASE Puts
        BY <3>2 DEF Puts
      <3>3. CASE ~(\E k : Creates(k) \/ Sets(k)) /\ ~Puts
        <4>1. stored' = stored /\ req'.env = req.env
          BY <1>2, <2>1, <3>3, CallCases
          DEF Calling, Configures, Comes, Uploads, Checks, Deletes, Goes, Clears, Hides, Others,
              Quiet
        <4>2. Now # Put
          BY <1>2, <3>3, CallCases, CallVerbs, Verbs DEF Calling
        <4> QED
          BY <2>1, <2>2, <4>1, <4>2 DEF IsDoing
      <3> QED
        BY <3>1, <3>2, <3>3
    <2>7. ASSUME NEW k \in Own[cur] \cap Kind, Create(k) \notin Todo'
          PROVE  /\ req'.env[k] # 0
                 /\ k # "file" => \/ IsReadyAfter(k, req'.env[k])
                                  \/ {Await(k), Configure(k)} \cap Todo' # {}
      <3>1. k # "object" /\ k \in Field
        BY <2>1, <2>5, OwnFacts
      <3>2. CASE Creates(k)
        <4>1. CASE k = "file"
          <5>1. req'.env = [req.env EXCEPT ![k] = Value(k)]
            BY <3>2 DEF Creates
          <5>2. Value(k) = 1
            BY <4>1 DEF Value, Kind, Named
          <5> QED
            BY <2>1, <3>1, <4>1, <5>1, <5>2
        <4> QED
          BY <1>2, <3>1, <3>2, <4>1, CreatedIsUnderWay
      <3>3. CASE ~Creates(k)
        <4>1. req'.env[k] = req.env[k]
          BY <2>4, <3>1, <3>3
        <4>2. Create(k) \notin Todo
          <5>1. Now.do = "create" => \E j \in Kind : Creates(j)
            BY <1>2, CallCases, CallVerbs DEF Calling
          <5>2. \A j \in Kind : Creates(j) => Now = Create(j)
            BY DEF Creates
          <5> QED
            BY <2>1, <2>7, <3>3, <5>1, <5>2, Verbs
        <4>3. /\ req.env[k] # 0
              /\ k # "file" => IsReady(k, req.env[k]) \/ {Await(k), Configure(k)} \cap Todo # {}
          BY <2>2, <4>2 DEF IsDoing
        <4>4. CASE k # "file" /\ IsReady(k, req.env[k])
          BY <2>3, <4>1, <4>3, <4>4, ReadyGoesOn
        <4>5. CASE k # "file" /\ Await(k) \in Todo
          <5>1. CASE Now = Await(k)
            <6>1. Comes(k)
              BY <1>2, <5>1, WhichCall
            <6>3. IsReady(k, req.env[k])
              BY <6>1, ReadyIsReady DEF Comes, HasCome, Ready
            <6> QED
              BY <2>3, <4>1, <4>3, <6>3, ReadyGoesOn
          <5> QED
            BY <2>1, <4>1, <4>3, <4>5, <5>1
        <4>6. CASE k # "file" /\ Configure(k) \in Todo
          <5>1. CASE Now = Configure(k)
            <6>1. Configures(k)
              BY <1>2, <5>1, WhichCall
            <6>2. Becomes(k, Target(k, req.env[k]), "ready") /\ Target(k, req.env[k]) # {}
              BY <6>1 DEF Configures
            <6>3. PICK n \in Target(k, req.env[k]) : TRUE
              BY <6>2
            <6>4. n \in DOMAIN account[k] /\ (k \in Named \/ n = req.env[k])
              BY <6>3 DEF Target, Alive
            <6>5. account'[k][n].state = "ready" /\ n \in DOMAIN account'[k]
              BY <6>2, <6>3, <6>4, BecomesFacts
            <6> QED
              BY <4>1, <4>3, <6>4, <6>5 DEF IsReadyAfter
          <5> QED
            BY <2>1, <4>1, <4>3, <4>6, <5>1
        <4> QED
          BY <4>1, <4>3, <4>4, <4>5, <4>6
      <3> QED
        BY <3>2, <3>3
    <2>8. cur = S3 => Do("upload", "placeholder") \in Todo' \/ IsReadyAfter("object", 1)
      <3> SUFFICES ASSUME cur = S3 PROVE Do("upload", "placeholder") \in Todo'
                                           \/ IsReadyAfter("object", 1)
        OBVIOUS
      <3>1. CASE Now = Do("upload", "placeholder")
        <4>1. PICK what \in {"placeholder", "config"} : Uploads(what)
          BY <1>2, <3>1, WhichCall
        <4>2. \/ Alive("object") = {} /\ Appear("object", 0, 0)
              \/ Alive("object") # {} /\ Becomes("object", Alive("object"), "ready")
          BY <4>1 DEF Uploads, Upload
        <4>3. "object" \in Kind /\ "object" \in Named
                /\ "object" \notin SlowToCome \cup Configured
          BY DEF Kind, Named, SlowToCome, Configured
        <4>4. CASE Appear("object", 0, 0)
          <5>1. /\ DOMAIN account'["object"] = 1..(Len(account["object"]) + 1)
                /\ account'["object"][Len(account["object"]) + 1] =
                     [state |-> IF "object" \in SlowToCome \cup Configured THEN "pending"
                                                                          ELSE "ready",
                      vpc |-> 0, pass |-> 0]
            BY <4>3, <4>4, AppearFacts
          <5>2. Len(account["object"]) \in Nat
            BY <4>3, AccountSeq
          <5>3. account'["object"][Len(account["object"]) + 1].state = "ready"
            BY <4>3, <5>1
          <5> QED
            BY <4>3, <5>1, <5>2, <5>3 DEF IsReadyAfter
        <4>5. CASE Alive("object") # {} /\ Becomes("object", Alive("object"), "ready")
          <5>1. PICK n \in Alive("object") : TRUE
            BY <4>5
          <5>2. n \in DOMAIN account'["object"] /\ account'["object"][n].state = "ready"
            <6>1. n \in DOMAIN account["object"]
              BY <5>1 DEF Alive
            <6> QED
              BY <4>3, <4>5, <5>1, <6>1, BecomesFacts
          <5> QED
            BY <4>3, <5>2 DEF IsReadyAfter
        <4> QED
          BY <4>2, <4>4, <4>5
      <3>2. CASE Now # Do("upload", "placeholder")
        <4>1. "object" \in Kind
          BY DEF Kind
        <4> QED
          BY <2>1, <2>2, <2>3, <3>2, <4>1, ReadyGoesOn DEF IsDoing
      <3> QED
        BY <3>1, <3>2
    <2>9. cur = Config => \/ Do("upload", "config") \in Todo'
                          \/ config' = [endpoint |-> req'.env["endpoint"],
                                        password |-> req'.env["password"]]
      <3> SUFFICES ASSUME cur = Config, Do("upload", "config") \notin Todo'
                   PROVE  config' = [endpoint |-> req'.env["endpoint"],
                                     password |-> req'.env["password"]]
        OBVIOUS
      <3>1. /\ req'.env["endpoint"] = req.env["endpoint"]
            /\ req'.env["password"] = req.env["password"]
        BY <2>4 DEF Creates, Sets, Field, Own, Config
      <3>2. CASE \E what \in {"placeholder", "config"} : Uploads(what)
        BY <3>1, <3>2 DEF Uploads, Upload, S3, Config
      <3>3. CASE ~\E what \in {"placeholder", "config"} : Uploads(what)
        <4>1. config' = config
          BY <1>2, <2>1, <3>3, CallCases
          DEF Calling, Creates, Configures, Comes, Sets, Checks, Deletes, Goes, Clears, Hides,
              Others, Puts, Quiet
        <4>2. Now # Do("upload", "config")
          BY <1>2, <3>3, CallCases, CallVerbs, Verbs DEF Calling
        <4> QED
          BY <2>1, <2>2, <3>1, <4>1, <4>2 DEF IsDoing
      <3> QED
        BY <3>2, <3>3
    <2>10. cur = Health => Do("check", "db") \in Todo' \/ req'.env["endpoint"] # 0
      <3> SUFFICES ASSUME cur = Health, Do("check", "db") \notin Todo'
                   PROVE  req'.env["endpoint"] # 0
        OBVIOUS
      <3>1. req'.env["endpoint"] = req.env["endpoint"]
        BY <2>4 DEF Creates, Sets, Field, Own, Health
      <3>2. CASE Now = Do("check", "db")
        BY <1>2, <3>1, <3>2, WhichCall DEF Checks, Healthy
      <3> QED
        BY <2>1, <2>2, <3>1, <3>2 DEF IsDoing
    <2>11. cur = Registry => Set("status") \in Todo' \/ req'.env["status"] # 0
      <3> SUFFICES ASSUME cur = Registry, Set("status") \notin Todo'
                   PROVE  req'.env["status"] # 0
        OBVIOUS
      <3>1. CASE Now = Set("status")
        <4>1. Sets("status")
          BY <1>2, <3>1, WhichCall
        <4>3. req'.env["status"] = Value("status")
          BY <2>1, <4>1 DEF Sets, Field
        <4> QED
          BY <4>3 DEF Value, Kind
      <3>2. CASE Now # Set("status")
        <4>1. req'.env["status"] = req.env["status"]
          BY <2>4, <3>2 DEF Creates, Sets, Field, Kind
        <4> QED
          BY <2>1, <2>2, <3>2, <4>1 DEF IsDoing
      <3> QED
        BY <3>1, <3>2
    <2>12. Unmarked(req'.todo, stored')
      <3>1. CASE Puts
        <4>1. cur \in DOMAIN Mark => cur \notin {Rds, Ec2}
          BY MarkFacts
        <4>2. Head(req.todo) = Put
          BY <3>1 DEF Puts, Now
        <4>3. cur \notin {Rds, Ec2} => Tail(req.todo) = <<>>
          <5>1. req.todo \in Seq(Op)
            BY <1>2, CallFacts
          <5> QED
            BY <2>1, <4>2, <5>1, ForwardTail
        <4> QED
          BY <2>1, <4>1, <4>3 DEF Unmarked
      <3>2. CASE stored' = stored
        BY <2>1, <2>2, <3>2 DEF Unmarked
      <3> QED
        BY <1>2, <3>1, <3>2, CallRecord
    <2> QED
      BY <2>6, <2>7, <2>8, <2>9, <2>10, <2>11, <2>12 DEF IsDoingAfter
  <1>3. CASE Fails
    BY <1>3, RequestFails DEF DoingInv
  <1>4. CASE StepReturns
    BY <1>4, RequestReturns DEF DoingInv
  <1>5. CASE Aside /\ (account' = account \/ \E k \in SlowToCome : Settle(k))
    <2>1. /\ Running' = Running /\ Serving' = Serving /\ cur' = cur /\ req' = req
          /\ stored' = stored /\ config' = config /\ Todo' = Todo
      BY <1>5 DEF Aside, sagaVars, Running, Serving, Todo
    <2>2. \A k \in Kind : ReadyStays(k)
      BY <1>5, SettledReady
    <2>3. Running /\ Serving => IsDoing(Todo, req.env, stored) /\ Unmarked(req.todo, stored)
      BY DoingIsDoing
    <2>4. IsDoing(Todo, req.env, stored) => IsDoingAfter(Todo, req.env, stored)
      <3>1. "object" \in Kind
        BY DEF Kind
      <3> QED
        BY <2>1, <2>2, <3>1, ReadyGoesOn DEF IsDoing, IsDoingAfter
    <2> QED
      BY <2>1, <2>3, <2>4, DoingIsDoing
  <1>6. CASE Marks /\ saga = "failed"
    BY <1>6 DEF Marks, sagaVars, Running, DoingInv
  <1> QED
    BY <1>1, <1>2, <1>3, <1>4, <1>5, <1>6, UnbrokenCases

LEMMA WholeAfter ==
    ASSUME Running' =>
              /\ \A s \in 1..(cur' - 1) : IsWholeAfter(s, stored')
              /\ cur' \in DOMAIN Mark /\ stored'[Mark[cur']] # 0 => IsWholeAfter(cur', stored')
              /\ cur' \in DOMAIN Mark /\ stored'[Mark[cur']] = 0 =>
                    \A f \in Own[cur'] : stored'[f] = 0,
           saga' = "completed" => \A s \in 1..8 : IsWholeAfter(s, stored')
    PROVE  WholeInv'
  BY WholeIsWhole DEF WholeInv

LEMMA WholeStep ==
    ASSUME DoneCore, [Next]_vars, Unbroken'
    PROVE  WholeInv'
  <1> USE NamedTypeFacts
  <1> USE DEF DoneCore
  <1>a. Running =>
           /\ cur \in 1..8
           /\ \A s \in 1..(cur - 1) : IsWhole(s, stored)
           /\ cur \in DOMAIN Mark /\ stored[Mark[cur]] # 0 => IsWhole(cur, stored)
           /\ cur \in DOMAIN Mark /\ stored[Mark[cur]] = 0 => \A f \in Own[cur] : stored[f] = 0
    BY WholeIsWhole DEF WholeInv, SagaInv, Running
  <1>b. ASSUME NEW s \in 1..8, IsWhole(s, stored), stored' = stored, config' = config,
               \A k \in Kind \ {"file"} : ReadyStays(k)
        PROVE  IsWholeAfter(s, stored')
    BY <1>b, WholeStays
  <1>1. CASE CallStep
    <2>1. /\ UNCHANGED <<account, config, stored, saga, cur>> /\ Running' = Running
          /\ saga' # "completed"
      BY <1>1, RequestBegins DEF Running, Undo
    <2>2. \A k \in Kind : ReadyStays(k)
      BY <2>1 DEF ReadyStays
    <2>3. Running => \A s \in 1..8 : IsWhole(s, stored) => IsWholeAfter(s, stored')
      BY <1>b, <2>1, <2>2
    <2> QED
      BY <1>a, <2>1, <2>3, WholeAfter
  <1>2. CASE CallSucceeds
    <2>1. /\ UNCHANGED <<saga, cur>> /\ Serving /\ saga # "completed" /\ Running' = Running
          /\ cur \in 1..8 /\ req.todo # <<>> /\ req.todo \in Seq(Op)
          /\ req.env \in [Field -> Nat] /\ stored \in [Field -> Nat]
      BY <1>2, CallFacts DEF Running, Undo, TypeInv
    <2>2. CASE Undo
      BY <2>1, <2>2, WholeAfter DEF Running, Undo
    <2>3. CASE Running
      <3>1. \A k \in Kind : ReadyStays(k)
        BY <1>2, <2>3, CallReady
      <3>2. \A f \in Field \ Own[cur] : stored'[f] = stored[f]
        BY <1>2, <2>1, CallRecord, StillUnbroken DEF NamedInv, CopyInv
      <3>3. ASSUME NEW s \in 1..(cur - 1) PROVE IsWholeAfter(s, stored')
        <4>1. s \in 1..8 /\ s # cur /\ IsWhole(s, stored)
          BY <1>a, <2>1, <2>3
        <4>2. \A f \in Own[s] : stored'[f] = stored[f]
          BY <2>1, <3>2, <4>1, OwnFacts
        <4>3. s \in {Config, Health} => /\ stored'["endpoint"] = stored["endpoint"]
                                        /\ stored'["password"] = stored["password"]
          <5>1. s \in {Config, Health} => cur \in {7, 8}
            BY <2>1 DEF Config, Health
          <5>2. cur \in {7, 8} => {"endpoint", "password"} \subseteq Field \ Own[cur]
            BY DEF Own, Field
          <5> QED
            BY <3>2, <5>1, <5>2
        <4>4. s = Config => config' = config
          <5>1. s = Config => ~\E what \in {"placeholder", "config"} : Uploads(what)
            BY <2>1 DEF Uploads, S3, Config
          <5> QED
            BY <1>2, <2>3, <5>1, CallCases
            DEF Calling, Creates, Configures, Comes, Sets, Checks, Deletes, Goes, Clears, Hides,
                Others, Puts, Quiet, Running, Undo
        <4> QED
          BY <3>1, <4>1, <4>2, <4>3, <4>4, WholeStays
      <3>4. CASE Puts
        <4>1. IsDoing(Todo, req.env, stored) /\ ForwardOrder(cur, req.todo)
          BY <2>1, <2>3, DoingIsDoing DEF ProgramInv
        <4>2. cur \in DOMAIN Mark => Tail(req.todo) = <<>>
          BY <2>1, <3>4, <4>1, MarkFacts, ForwardTail DEF Puts, Now
        <4>3. cur \in DOMAIN Mark => Todo \subseteq {Put}
          <5>1. Todo = {Now} \cup Range(Tail(req.todo))
            BY <2>1, TailFacts DEF Todo, Now
          <5>2. Range(<<>>) = {}
            BY DEF Range
          <5> QED
            BY <3>4, <4>2, <5>1, <5>2 DEF Puts
        <4>4. cur \in DOMAIN Mark => IsWhole(cur, req.env)
          BY <2>1, <4>1, <4>3, DoneIsWhole
        <4>5. stored' = req.env /\ config' = config
          BY <3>4 DEF Puts
        <4>6. cur \in DOMAIN Mark => IsWholeAfter(cur, stored')
          BY <2>1, <3>1, <4>4, <4>5, WholeStays
        <4>7. cur \in DOMAIN Mark => stored'[Mark[cur]] # 0
          BY <4>4, <4>5, MarkFacts
        <4> QED
          BY <2>1, <3>3, <4>6, <4>7, WholeAfter
      <3>5. CASE stored' = stored
        <4>1. cur \in DOMAIN Mark => stored[Mark[cur]] = 0
          BY <2>1, <2>3, DoingIsDoing DEF Unmarked
        <4> QED
          BY <1>a, <2>1, <2>3, <3>3, <3>5, <4>1, WholeAfter
      <3> QED
        BY <1>2, <3>4, <3>5, CallRecord
    <2> QED
      BY <1>2, <2>2, <2>3, CallFacts
  <1>3. CASE Fails
    <2>1. /\ UNCHANGED <<config, stored>> /\ saga' # "completed"
          /\ Running' => Running /\ cur' = cur
          /\ \A k \in Kind \ {"file"} : account'[k] = account[k]
      BY <1>3, RequestFails DEF Running, Undo, SagaInv, Serving
    <2>2. \A k \in Kind \ {"file"} : ReadyStays(k)
      BY <2>1 DEF ReadyStays
    <2>3. \A s \in 1..8 : IsWhole(s, stored) => IsWholeAfter(s, stored')
      BY <1>b, <2>1, <2>2
    <2> QED
      BY <1>a, <2>1, <2>3, WholeAfter
  <1>4. CASE StepReturns
    <2>1. /\ UNCHANGED <<account, config, stored>> /\ Serving /\ req.todo = <<>> /\ Todo = {}
          /\ cur \in 1..8 /\ saga # "completed" /\ stored \in [Field -> Nat]
          /\ Running' => Running /\ cur \in 1..7 /\ cur' = cur + 1
          /\ saga' = "completed" => Running /\ cur = 8
      BY <1>4, RequestReturns DEF Running, Undo, TypeInv
    <2>2. Running => \A s \in 1..cur : IsWhole(s, stored)
      <3> SUFFICES ASSUME Running PROVE IsWhole(cur, stored)
        BY <1>a, <2>1
      <3>1. IsDoing({}, req.env, stored)
        BY <2>1, DoingIsDoing
      <3>2. req.env = stored
        BY <3>1 DEF IsDoing
      <3> QED
        BY <2>1, <3>1, <3>2, DoneIsWhole
    <2>3. \A k \in Kind \ {"file"} : ReadyStays(k)
      BY <2>1 DEF ReadyStays
    <2>4. \A s \in 1..8 : IsWhole(s, stored) => IsWholeAfter(s, stored')
      BY <1>b, <2>1, <2>3
    <2>5. Running /\ cur \in 1..7 => \A f \in Own[cur + 1] : stored[f] = 0
      BY DEF AheadInv
    <2>6. cur + 1 \in DOMAIN Mark => Mark[cur + 1] \in Own[cur + 1]
      BY MarkFacts
    <2> QED
      BY <2>1, <2>2, <2>4, <2>5, <2>6, WholeAfter
  <1>5. CASE Aside /\ (account' = account \/ \E k \in SlowToCome : Settle(k))
    <2>1. UNCHANGED <<config, stored, saga, cur>> /\ Running' = Running
      BY <1>5 DEF Aside, sagaVars, Running
    <2>2. \A k \in Kind : ReadyStays(k)
      BY <1>5, SettledReady
    <2>3. \A s \in 1..8 : IsWhole(s, stored) => IsWholeAfter(s, stored')
      BY <1>b, <2>1, <2>2
    <2>4. saga = "completed" => \A s \in 1..8 : IsWhole(s, stored)
      BY WholeIsWhole DEF WholeInv
    <2> QED
      BY <1>a, <2>1, <2>3, <2>4, WholeAfter
  <1>6. CASE Marks /\ saga = "failed"
    BY <1>6 DEF Marks, sagaVars, Running, WholeInv
  <1> QED
    BY <1>1, <1>2, <1>3, <1>4, <1>5, <1>6, UnbrokenCases

LEMMA DoneInit == Init => DoneInv
  <1> SUFFICES ASSUME Init PROVE DoneInv
    OBVIOUS
  <1>1. /\ saga = "running" /\ cur = 1 /\ ~Serving /\ stored = [f \in Field |-> 0]
        /\ account = [k \in Kind |-> <<>>]
    BY DEF Init, AccountInit, Vpc, Serving, Empty
  <1>2. PlainInv
    BY <1>1 DEF PlainInv, Kind
  <1>3. \A s \in 1..8 : \A f \in Own[s] : stored[f] = 0
    BY <1>1, OwnFacts
  <1>4. AheadInv
    BY <1>1, <1>3 DEF AheadInv
  <1>5. WholeInv
    BY <1>1, <1>3, MarkFacts DEF WholeInv
  <1> QED
    BY <1>1, <1>2, <1>4, <1>5, NamedInit DEF DoneInv, DoingInv

LEMMA DoneStep == DoneInv /\ [Next]_vars => DoneInv'
  <1> SUFFICES ASSUME DoneInv, [Next]_vars PROVE DoneInv'
    OBVIOUS
  <1>1. NamedInv /\ NamedInv'
    BY NamedStep DEF DoneInv
  <1>2. ASSUME Unbroken' PROVE PlainInv' /\ AheadInv' /\ WholeInv' /\ DoingInv'
    <2>1. DoneCore
      BY <1>1, <1>2, StillUnbroken, DoneCores
    <2>2. NamedInv /\ PlainInv /\ AheadInv
      BY <2>1 DEF DoneCore
    <2> QED
      BY <1>2, <2>1, <2>2, PlainStep, AheadStep, WholeStep, DoingStep
  <1> QED
    BY <1>1, <1>2 DEF DoneInv

(***************************************************************************)
(* At every point of a saga that calls AWS, as long as StartSaga has not   *)
(* broken off, everything that the steps behind it have made is up and     *)
(* named by the record; the record names nothing of the steps ahead; what  *)
(* the step at hand has not done yet is still in its program               *)
(* (internal/steps, Execute and IsAlreadyDone).                            *)
(***************************************************************************)
THEOREM DoneInvariance == Spec => []DoneInv
  BY DoneInit, DoneStep, PTL DEF Spec

(***************************************************************************)
(* However many calls fail, are retried or are forgotten with the worker,  *)
(* a saga that completes leaves every resource ready and named by the      *)
(* record, and a config.json that leads to the database; as long as        *)
(* StartSaga has not broken off (cmd/forge-api/main.go:115-118).           *)
(***************************************************************************)
THEOREM CompletedSagaIsWhole == Spec => []CompletedIsWhole
  <1>1. DoneInv => CompletedIsWhole
    <2> SUFFICES ASSUME DoneInv, Unbroken, saga = "completed" PROVE CompletedIsWhole
      BY DEF CompletedIsWhole
    <2>1. \A s \in 1..8 : Whole(s, stored)
      BY DEF DoneInv, WholeInv
    <2>2. ASSUME NEW k \in (Field \cap Kind) \ {"file"}
          PROVE  stored[k] # 0 /\ InState(k, stored[k], "ready")
      <3>1. StepOf(k) \in 1..8 /\ k \in Own[StepOf(k)] \cap Kind
        BY OwnFacts
      <3> QED
        BY <2>1, <3>1 DEF Whole, Ready
    <2>3. /\ Whole(S3, stored) /\ Whole(Config, stored)
          /\ Whole(Health, stored) /\ Whole(Registry, stored)
      BY <2>1 DEF S3, Config, Health, Registry
    <2>4. /\ InState("object", 1, "ready") /\ Published(stored)
          /\ stored["endpoint"] # 0 /\ stored["status"] # 0
      BY <2>3 DEF Whole, Ready
    <2> QED
      BY <2>2, <2>4 DEF CompletedIsWhole, Published
  <1> QED
    BY <1>1, DoneInvariance, PTL

-----------------------------------------------------------------------------
(* StrayInv is inductive.                                                  *)

\* What it says while StartSaga is not broken off.
StrayCore == DoneCore /\ LatestInv /\ HomeInv /\ DeadInv /\ DeletingInv

LEMMA StrayCores == DoneInv => (StrayInv <=> (Unbroken => StrayCore))
  BY DEF StrayInv, StrayCore, DoneInv, DoneCore

\* The last one of its kind is gone, before a step and after it.
IsDead(k) == Len(account[k]) \in DOMAIN account[k] =>
                account[k][Len(account[k])].state = "gone"
IsDeadAfter(k) == Len(account'[k]) \in DOMAIN account'[k] =>
                account'[k][Len(account'[k])].state = "gone"

LEMMA DeadIsDead == \A k : (Dead(k) <=> IsDead(k)) /\ (Dead(k)' <=> IsDeadAfter(k))
  <1>1. \A k : Dead(k) <=> IsDead(k)
    BY DEF Dead, Alive, IsDead
  <1>2. \A k : Dead(k)' <=> IsDeadAfter(k)
    BY DEF Dead, Alive, IsDeadAfter
  <1> QED
    BY <1>1, <1>2

LEMMA DeadStays ==
    ASSUME NEW k \in Kind, account \in Accounts, account' \in Accounts,
           Persists(k), Len(account'[k]) = Len(account[k]), IsDead(k)
    PROVE  IsDeadAfter(k)
  <1>1. DOMAIN account'[k] = DOMAIN account[k]
    BY AccountSeq
  <1> QED
    BY <1>1 DEF IsDead, IsDeadAfter, Persists

LEMMA AllGoneIsDead ==
    ASSUME NEW k \in Kind, account \in Accounts, Becomes(k, Alive(k), "gone")
    PROVE  IsDeadAfter(k)
  <1>1. /\ DOMAIN account'[k] = DOMAIN account[k] /\ Len(account'[k]) = Len(account[k])
        /\ \A n \in DOMAIN account[k] :
              account'[k][n].state = IF n \in Alive(k) THEN "gone" ELSE account[k][n].state
    BY BecomesFacts
  <1> QED
    BY <1>1 DEF IsDeadAfter, Alive

LEMMA NothingIsDead == \A k : Alive(k) = {} => IsDead(k)
  BY DEF Alive, IsDead

\* What is in a VPC, or is one.
LEMMA VpcFacts ==
    /\ \A k \in InVpc : k \in Kind \cap Field /\ k \notin Named /\ StepOf(k) = Vpc
    /\ \A k \in {"db", "instance"} : k \in Kind \cap Field /\ k \in Inside /\ k # "object"
    /\ Own[Vpc] \cap Kind = InVpc /\ "vpc" \in InVpc
    /\ StepOf("db") = Rds /\ StepOf("instance") = Ec2
    /\ "vpc" \in Kind \ SlowToGo /\ "vpc" \notin {"db", "instance"}
  BY DEF InVpc, Kind, Field, Named, StepOf, Inside, Occupants, Own, Vpc, Rds, Ec2, SlowToGo

\* The account outside the calls.
LEMMA OutsideCalls ==
    ASSUME NamedInv,
           \/ CallStep \/ Fails \/ StepReturns
           \/ Aside /\ (account' = account \/ \E k \in SlowToCome : Settle(k))
    PROVE  /\ AccountKept /\ stored' = stored /\ account' \in Accounts
           /\ \A k \in Kind : Persists(k) /\ Len(account'[k]) = Len(account[k])
           /\ \A k \in Kind \ {"file"} : Stays(k)
  <1> USE NamedTypeFacts
  <1>1. CASE account' = account /\ stored' = stored
    BY <1>1, SameAccount DEF AccountKept
  <1>2. CASE CallStep
    BY <1>1, <1>2, RequestBegins
  <1>3. CASE StepReturns
    BY <1>1, <1>3, RequestReturns
  <1>4. CASE Fails
    <2>1. /\ AccountKept /\ stored' = stored
          /\ \A k \in Kind : Len(account'[k]) = Len(account[k])
          /\ \A k \in Kind \ {"file"} : account'[k] = account[k]
      BY <1>4, RequestFails
    <2> QED
      BY <2>1 DEF AccountKept, Stays
  <1>5. CASE Aside /\ \E k \in SlowToCome : Settle(k)
    <2>1. PICK k \in Kind : Settle(k)
      BY <1>5 DEF SlowToCome, Kind
    <2> QED
      BY <1>5, <2>1, SettleKeeps DEF AccountKept, Aside
  <1>6. CASE Aside /\ account' = account
    BY <1>1, <1>6 DEF Aside
  <1> QED
    BY <1>2, <1>3, <1>4, <1>5, <1>6

LEMMA LatestStep ==
    ASSUME StrayCore, [Next]_vars, Unbroken'
    PROVE  LatestInv'
  <1> USE NamedTypeFacts
  <1> USE DEF StrayCore, DoneCore
  <1> SUFFICES ASSUME NEW k \in InVpc
               PROVE  /\ stored'[k] # 0 => stored'[k] = Len(account'[k])
                      /\ Serving' /\ req'.env[k] # 0 => req'.env[k] = Len(account'[k])
    BY DEF LatestInv
  <1>1. k \in Kind /\ k \in Field /\ k \notin Named /\ StepOf(k) = Vpc /\ k # "object"
    BY VpcFacts, OwnFacts
  <1>2. /\ stored[k] # 0 => stored[k] = Len(account[k])
        /\ Serving /\ req.env[k] # 0 => req.env[k] = Len(account[k])
    BY DEF LatestInv
  <1>3. CASE CallStep
    BY <1>1, <1>2, <1>3, OutsideCalls, RequestBegins
  <1>4. CASE CallSucceeds /\ Creates(k)
    <2>1. Running /\ Serving /\ cur \in 1..8 /\ k \in Own[cur] /\ req.todo # <<>>
      BY <1>4, CallFacts DEF Creates
    <2>2. cur = Vpc
      BY <1>1, <2>1, OwnFacts
    <2>3. Vpc \in DOMAIN Mark /\ Mark[Vpc] = "vpc"
      BY DEF Mark, Vpc, S3, Identity, Config, Registry
    <2>4. stored["vpc"] = 0
      BY <2>1, <2>2, <2>3, DoingIsDoing DEF Unmarked
    <2>5. stored[k] = 0
      BY <2>1, <2>2, <2>3, <2>4 DEF WholeInv
    <2>6. stored' = stored /\ req'.env = [req.env EXCEPT ![k] = Value(k)]
      BY <1>4 DEF Creates
    <2>7. req'.env[k] = Len(account[k]) + 1
      <3>1. req.env \in [Field -> Nat]
        BY <1>4, CallFacts
      <3>2. Value(k) = Len(account[k]) + 1
        BY <1>1 DEF Value, Kind, Field, InVpc
      <3> QED
        BY <1>1, <2>6, <3>1, <3>2
    <2>8. Len(account'[k]) = Len(account[k]) + 1
      <3>1. \E v \in Nat : Appear(k, v, IF k = "db" THEN req.env["password"] ELSE 0)
        BY <1>1, <1>4 DEF Creates
      <3>2. \E v \in Nat : Appear(k, v, 0)
        BY <3>1 DEF InVpc
      <3> QED
        BY <1>1, <3>2, AppearFacts
    <2> QED
      BY <2>5, <2>6, <2>7, <2>8
  <1>5. CASE CallSucceeds /\ ~Creates(k)
    <2>1. Len(account'[k]) = Len(account[k])
      BY <1>1, <1>5, CallGrows
    <2>2. Serving /\ (req'.env[k] = req.env[k] \/ req'.env[k] = 0)
      BY <1>1, <1>5, CallFacts, CallRecord
    <2>3. stored'[k] = stored[k] \/ stored'[k] = req.env[k]
      BY <1>5, CallRecord
    <2> QED
      BY <1>2, <2>1, <2>2, <2>3
  <1>6. CASE Fails
    BY <1>1, <1>2, <1>6, OutsideCalls, RequestFails
  <1>7. CASE StepReturns
    BY <1>1, <1>2, <1>7, OutsideCalls, RequestReturns
  <1>8. CASE Aside /\ (account' = account \/ \E j \in SlowToCome : Settle(j))
    <2>1. Len(account'[k]) = Len(account[k]) /\ stored' = stored
      BY <1>1, <1>8, OutsideCalls
    <2>2. Serving' = Serving /\ req' = req
      BY <1>8 DEF Aside, sagaVars, Serving
    <2> QED
      BY <1>2, <2>1, <2>2
  <1>9. CASE Marks /\ saga = "failed"
    BY <1>1, <1>9 DEF Marks, sagaVars, Serving, SagaInv, NamedInv, Empty
  <1> QED
    BY <1>3, <1>4, <1>5, <1>6, <1>7, <1>8, <1>9, UnbrokenCases

\* What lives in VPCs, after a step.
HomeAfter(k) ==
    /\ \A n \in DOMAIN account'[k] : account'[k][n].vpc = Len(account'["vpc"])
    /\ IsDeadAfter("vpc") => \A n \in DOMAIN account'[k] : account'[k][n].state = "gone"

LEMMA HomeIsHome ==
    ASSUME \A k \in {"db", "instance"} :
              HomeAfter(k) /\ (Running' /\ cur' = Vpc => account'[k] = <<>>)
    PROVE  HomeInv'
  <1>1. ASSUME NEW k \in {"db", "instance"}
        PROVE  Dead("vpc")' => Alive(k)' = {}
    BY DeadIsDead DEF HomeAfter, Alive
  <1> QED
    BY <1>1 DEF HomeInv, HomeAfter

LEMMA HomeStays ==
    ASSUME NEW k \in {"db", "instance"}, HomeInv, LeavingInv,
           account \in Accounts, account' \in Accounts,
           Len(account'["vpc"]) = Len(account["vpc"]), Stays("vpc"),
           Len(account'[k]) = Len(account[k]), Persists(k)
    PROVE  HomeAfter(k)
  <1>1. k \in Kind /\ "vpc" \in Kind \ SlowToGo
    BY VpcFacts
  <1>2. DOMAIN account'[k] = DOMAIN account[k] /\ DOMAIN account'["vpc"] = DOMAIN account["vpc"]
    BY <1>1, AccountSeq
  <1>3. \A n \in DOMAIN account[k] : account[k][n].vpc = Len(account["vpc"])
    BY DEF HomeInv
  <1>4. IsDeadAfter("vpc") => IsDead("vpc")
    BY <1>1, <1>2 DEF IsDead, IsDeadAfter, Stays, LeavingInv
  <1>5. IsDead("vpc") => \A n \in DOMAIN account[k] : account[k][n].state = "gone"
    BY DeadIsDead DEF HomeInv, Alive
  <1> QED
    BY <1>2, <1>3, <1>4, <1>5 DEF HomeAfter, Persists

LEMMA HomeCall ==
    ASSUME StrayCore, Unbroken, CallSucceeds, NEW k \in {"db", "instance"}
    PROVE  HomeAfter(k) /\ (Running /\ cur = Vpc => account'[k] = <<>>)
  <1> USE NamedTypeFacts
  <1> USE DEF StrayCore, DoneCore
  <1>1. k \in Kind /\ k \in Inside /\ k # "object" /\ "vpc" \in Kind \ SlowToGo /\ "vpc" # k
        /\ "vpc" # "object" /\ k \notin InVpc
    BY VpcFacts, OwnFacts DEF InVpc
  <1>2. /\ Serving /\ cur \in 1..8 /\ req.todo # <<>> /\ account' \in Accounts
        /\ Persists(k) /\ req.env \in [Field -> Nat]
    BY <1>1, CallFacts, CallKeeps DEF AccountKept
  <1>3. /\ \A n \in DOMAIN account[k] : account[k][n].vpc = Len(account["vpc"])
        /\ Running /\ cur = Vpc => account[k] = <<>>
        /\ Dead("vpc") => Alive(k) = {}
    BY DEF HomeInv
  <1>4. CASE Creates("vpc")
    <2>1. Running /\ "vpc" \in Own[cur]
      BY <1>4 DEF Creates
    <2>2. cur = Vpc
      BY <1>2, <2>1, VpcFacts, OwnFacts
    <2>3. account[k] = <<>>
      BY <1>3, <2>1, <2>2
    <2>4. account'[k] = account[k]
      <3>1. \E v \in Nat : Appear("vpc", v, 0)
        BY <1>4, VpcFacts DEF Creates
      <3> QED
        BY <1>1, <3>1, AppearFacts
    <2> QED
      BY <2>3, <2>4 DEF HomeAfter
  <1>5. CASE Creates(k)
    <2>1. Running /\ k \in Own[cur]
      BY <1>5 DEF Creates
    <2>2. cur \in {Rds, Ec2}
      BY <1>1, <1>2, <2>1, VpcFacts, OwnFacts
    <2>3. Vpc \in 1..(cur - 1) /\ cur # Vpc
      BY <2>2 DEF Vpc, Rds, Ec2
    <2>4. IsWhole(Vpc, stored)
      BY <2>1, <2>3, WholeIsWhole DEF WholeInv
    <2>5. stored["vpc"] # 0 /\ IsReady("vpc", stored["vpc"])
      BY <2>4, VpcFacts DEF IsWhole
    <2>6. req.env["vpc"] = stored["vpc"]
      <3>1. "vpc" \in Field /\ "vpc" \notin Own[cur]
        BY <1>2, <2>3, VpcFacts, OwnFacts
      <3> QED
        BY <1>2, <3>1 DEF NamedInv, CopyInv
    <2>7. stored["vpc"] = Len(account["vpc"])
      BY <2>5, VpcFacts DEF LatestInv
    <2>8. ~IsDead("vpc")
      BY <2>5, <2>7, VpcFacts DEF IsReady, IsDead
    <2>9. CASE account' = account
      BY <1>3, <2>8, <2>3, <2>9 DEF HomeAfter, IsDead, IsDeadAfter
    <2>10. CASE \E v \in Nat : Appear(k, v, IF k = "db" THEN req.env["password"] ELSE 0)
                                 /\ v = req.env["vpc"]
      <3>1. (IF k = "db" THEN req.env["password"] ELSE 0) \in Nat
        BY <1>2 DEF Field
      <3>2. PICK v \in Nat, p \in Nat : Appear(k, v, p) /\ v = Len(account["vpc"])
        BY <2>6, <2>7, <2>10, <3>1
      <3>3. /\ account'["vpc"] = account["vpc"]
            /\ DOMAIN account'[k] = 1..(Len(account[k]) + 1)
            /\ \A n \in DOMAIN account[k] : account'[k][n] = account[k][n]
            /\ account'[k][Len(account[k]) + 1].vpc = v
        <4>1. account \in Accounts /\ k \in Kind
          BY <1>1
        <4>2. /\ \A j \in Kind \ {k} : account'[j] = account[j]
              /\ DOMAIN account'[k] = 1..(Len(account[k]) + 1)
              /\ \A n \in DOMAIN account[k] : account'[k][n] = account[k][n]
              /\ account'[k][Len(account[k]) + 1] =
                   [state |-> IF k \in SlowToCome \cup Configured THEN "pending" ELSE "ready",
                    vpc |-> v, pass |-> p]
          BY <3>2, <4>1, AppearFacts
        <4> QED
          BY <1>1, <4>2
      <3>4. DOMAIN account[k] = 1..Len(account[k]) /\ Len(account[k]) \in Nat
        BY <1>1, AccountSeq
      <3>5. ~IsDeadAfter("vpc")
        BY <2>8, <3>3 DEF IsDead, IsDeadAfter
      <3>6. \A n \in DOMAIN account'[k] : account'[k][n].vpc = Len(account'["vpc"])
        BY <1>3, <3>2, <3>3, <3>4
      <3> QED
        BY <2>3, <3>5, <3>6 DEF HomeAfter
    <2>11. \/ account' = account
           \/ \E v \in Nat : Appear(k, v, IF k = "db" THEN req.env["password"] ELSE 0)
                               /\ v = req.env["vpc"]
      BY <1>1, <1>5 DEF Creates
    <2> QED
      BY <2>9, <2>10, <2>11
  <1>6. CASE Deletes("vpc")
    <2>1. PICK id : DeleteResource("vpc", id)
      BY <1>6 DEF Deletes
    <2>2. ~InUse("vpc", id) /\ Becomes("vpc", Target("vpc", id), "gone")
      BY <1>1, <2>1 DEF DeleteResource
    <2>3. /\ account'[k] = account[k] /\ DOMAIN account'["vpc"] = DOMAIN account["vpc"]
          /\ Len(account'["vpc"]) = Len(account["vpc"])
          /\ \A n \in DOMAIN account["vpc"] :
                n \notin Target("vpc", id) => account'["vpc"][n] = account["vpc"][n]
      BY <1>1, <2>2, BecomesFacts
    <2>4. ASSUME IsDeadAfter("vpc"), NEW m \in Alive(k)
          PROVE  FALSE
      <3>1. ~IsDead("vpc")
        BY <1>3, <2>4, DeadIsDead
      <3>2. Len(account["vpc"]) \in Target("vpc", id)
        BY <2>3, <2>4, <3>1 DEF IsDead, IsDeadAfter
      <3>3. k \in Occupants("vpc") /\ account[k][m].vpc = Len(account["vpc"])
        BY <1>1, <1>3, <2>4 DEF Inside, Alive
      <3> QED
        BY <2>2, <2>4, <3>2, <3>3 DEF InUse
    <2>5. Undo
      BY <1>6 DEF Deletes
    <2> QED
      BY <1>3, <2>3, <2>4, <2>5 DEF HomeAfter, Alive, Running, Undo
  <1>7. CASE ~Creates("vpc") /\ ~Creates(k) /\ ~Deletes("vpc")
    <2>1. /\ Len(account'["vpc"]) = Len(account["vpc"])
          /\ Len(account'[k]) = Len(account[k]) /\ Stays("vpc")
      BY <1>1, <1>7, CallGrows, CallKeeps
    <2>2. HomeAfter(k)
      BY <1>2, <2>1, HomeStays
    <2>3. account[k] = <<>> => account'[k] = <<>>
      BY <1>1, <1>2, <2>1, AccountSeq, EmptySeq
    <2> QED
      BY <1>3, <2>2, <2>3
  <1> QED
    BY <1>4, <1>5, <1>6, <1>7

LEMMA HomeStep ==
    ASSUME StrayCore, [Next]_vars, Unbroken'
    PROVE  HomeInv'
  <1> USE NamedTypeFacts
  <1> USE DEF StrayCore, DoneCore
  <1>1. CASE CallSucceeds
    <2>1. Running' = Running /\ cur' = cur
      BY <1>1, CallFacts DEF Running
    <2> QED
      BY <1>1, <2>1, StillUnbroken, HomeCall, HomeIsHome
  <1>2. CASE \/ CallStep \/ Fails \/ StepReturns
             \/ Aside /\ (account' = account \/ \E k \in SlowToCome : Settle(k))
    <2>1. "vpc" \in Kind \ {"file"} /\ \A k \in {"db", "instance"} : k \in Kind
      BY VpcFacts DEF Kind
    <2>2. \A k \in {"db", "instance"} : HomeAfter(k)
      BY <1>2, <2>1, OutsideCalls, HomeStays
    <2>3. Running' /\ cur' = Vpc => Running /\ cur = Vpc
      <3>1. CASE CallStep
        BY <3>1, RequestBegins DEF Running
      <3>2. CASE Fails
        BY <3>2, RequestFails DEF Running, Undo
      <3>3. CASE StepReturns
        BY <3>3, RequestReturns DEF Running, Undo, Vpc
      <3>4. CASE Aside
        BY <3>4 DEF Aside, sagaVars, Running
      <3> QED
        BY <1>2, <3>1, <3>2, <3>3, <3>4
    <2>4. ASSUME NEW k \in {"db", "instance"}, account[k] = <<>> PROVE account'[k] = <<>>
      <3>1. Len(account'[k]) = Len(account[k]) /\ account' \in Accounts
        BY <1>2, <2>1, OutsideCalls
      <3> QED
        BY <2>1, <2>4, <3>1, AccountSeq, EmptySeq
    <2> QED
      BY <2>2, <2>3, <2>4, HomeIsHome DEF HomeInv
  <1>3. CASE Marks /\ saga = "failed"
    BY <1>3 DEF Marks, sagaVars, Running, HomeInv, Dead, Alive
  <1> QED
    BY <1>1, <1>2, <1>3, UnbrokenCases

\* Going backward, nothing is created.
LEMMA UndoCall ==
    ASSUME NamedInv, CallSucceeds, Undo
    PROVE  /\ account' \in Accounts
           /\ \A k \in Kind : Len(account'[k]) = Len(account[k])
           /\ \A k \in Kind : IsDead(k) => IsDeadAfter(k)
  <1> USE NamedTypeFacts
  <1>1. account' \in Accounts /\ \A k \in Kind : Persists(k)
    BY CallKeeps DEF AccountKept
  <1>2. \A k \in Kind : Len(account'[k]) = Len(account[k])
    <2>1. ASSUME NEW j \in Kind, NEW ns,
                 NEW s \in {"pending", "ready", "hidden", "leaving", "gone"}, Becomes(j, ns, s)
          PROVE  \A k \in Kind : Len(account'[k]) = Len(account[k])
      BY <2>1, BecomesFacts
    <2>2. CASE \E j \in Kind : Deletes(j)
      <3>1. PICK j \in Kind : \E ns : Becomes(j, ns, IF j \in SlowToGo THEN "leaving" ELSE "gone")
        BY <2>2 DEF Deletes, DeleteResource
      <3>2. (IF j \in SlowToGo THEN "leaving" ELSE "gone")
               \in {"pending", "ready", "hidden", "leaving", "gone"}
        OBVIOUS
      <3> QED
        BY <2>1, <3>1, <3>2
    <2>3. CASE Hides
      <3>1. Becomes("object", Alive("object"), "hidden") /\ "object" \in Kind
        BY <2>3 DEF Hides, HideObject, Kind
      <3> QED
        BY <2>1, <3>1
    <2>4. CASE account' = account
      BY <2>4
    <2>5. ~Running
      BY DEF Running, Undo
    <2> QED
      BY <2>2, <2>3, <2>4, <2>5, CallCases
      DEF Calling, Creates, Configures, Comes, Sets, Uploads, Checks, Goes, Clears, Others,
          Puts, Quiet
  <1> QED
    BY <1>1, <1>2, DeadStays

\* DeadInv and DeletingInv, in the form the steps need.
DeadlyAfter ==
    /\ \A k \in (Field \cap Kind) \ {"instance"} :
          StepOf(k) < failedStep' /\ stored'[k] = 0 => IsDeadAfter(k)
    /\ S3 < failedStep' /\ stored'["bucket"] = 0 => IsDeadAfter("object")

LEMMA DeadlyIsDead ==
    ASSUME saga' \in {"compensating", "failed"} => DeadlyAfter
    PROVE  DeadInv'
  BY DeadIsDead DEF DeadInv, DeadlyAfter

\* The call after which nothing of kind k is left.
Last(k) == IF k = "db" THEN AwaitGone(k) ELSE Delete(k)

LEMMA DeletingDead ==
    ASSUME DeletingInv, Undo, Serving
    PROVE  /\ \A k \in (Own[cur] \cap Kind) \ {"instance"} : Last(k) \in Todo \/ IsDead(k)
           /\ cur = S3 => Delete("object") \in Todo \/ IsDead("object")
           /\ \A k \in InVpc : Delete(k) \in Todo => req.env[k] # 0
  BY DeadIsDead DEF DeletingInv, Last

LEMMA DeadlyIsDeleting ==
    ASSUME Undo' /\ Serving' =>
              /\ \A k \in (Own[cur'] \cap Kind) \ {"instance"} :
                    Last(k) \in Todo' \/ IsDeadAfter(k)
              /\ cur' = S3 => Delete("object") \in Todo' \/ IsDeadAfter("object")
              /\ \A k \in InVpc : Delete(k) \in Todo' => req'.env[k] # 0
    PROVE  DeletingInv'
  BY DeadIsDead DEF DeletingInv, Last

LEMMA DeadStep ==
    ASSUME StrayCore, [Next]_vars, Unbroken'
    PROVE  DeadInv'
  <1> USE NamedTypeFacts
  <1> USE DEF StrayCore, DoneCore
  <1> SUFFICES ASSUME saga' \in {"compensating", "failed"} PROVE DeadlyAfter
    BY DeadlyIsDead
  <1>1. saga \in {"compensating", "failed"} =>
           /\ \A k \in (Field \cap Kind) \ {"instance"} :
                 StepOf(k) < failedStep /\ stored[k] = 0 => IsDead(k)
           /\ S3 < failedStep /\ stored["bucket"] = 0 => IsDead("object")
    BY DeadIsDead DEF DeadInv
  <1>2. "object" \in Kind /\ "bucket" \in Kind \cap Field
    BY DEF Kind, Field
  <1>3. CASE CallSucceeds
    <2>1. Undo /\ failedStep' = failedStep /\ cur \in 1..7 /\ Serving
          /\ req.todo # <<>> /\ req.todo \in Seq(Op)
      BY <1>3, CallFacts DEF Running, Undo
    <2>2. \A k \in Kind : IsDead(k) => IsDeadAfter(k)
      BY <1>3, <2>1, UndoCall
    <2>3. saga \in {"compensating", "failed"}
      BY <2>1 DEF Undo
    <2>4. CASE stored' = stored
      BY <1>1, <1>2, <2>1, <2>2, <2>3, <2>4 DEF DeadlyAfter
    <2>5. CASE Puts /\ stored' = req.env
      <3>1. Todo = {Put}
        <4>1. Now = Put /\ BackwardOrder(cur, req.todo)
          BY <2>1, <2>5 DEF Puts, ProgramInv
        <4>2. Tail(req.todo) = <<>>
          BY <2>1, <4>1, BackwardTail DEF Now
        <4>3. Todo = {Now} \cup Range(<<>>)
          BY <2>1, <4>2, TailFacts DEF Todo, Now
        <4> QED
          BY <4>1, <4>3 DEF Range
      <3>2. \A k : Delete(k) \notin Todo /\ Last(k) \notin Todo
        BY <3>1, Verbs DEF Last
      <3>3. ASSUME NEW k \in (Field \cap Kind) \ {"instance"}, StepOf(k) < failedStep,
                   req.env[k] = 0
            PROVE  IsDead(k)
        <4>1. CASE k \in Own[cur]
          BY <2>1, <3>2, <4>1, DeletingDead
        <4>2. CASE k \notin Own[cur]
          <5>1. stored[k] = 0
            BY <2>1, <3>3, <4>2, StillUnbroken DEF NamedInv, CopyInv
          <5> QED
            BY <1>1, <2>3, <3>3, <5>1
        <4> QED
          BY <4>1, <4>2
      <3>4. ASSUME S3 < failedStep, req.env["bucket"] = 0
            PROVE  IsDead("object")
        <4>1. CASE cur = S3
          BY <2>1, <3>2, <4>1, DeletingDead
        <4>2. CASE cur # S3
          <5>1. "bucket" \notin Own[cur]
            BY <2>1, <4>2, OwnFacts DEF Kind, StepOf
          <5>2. stored["bucket"] = 0
            BY <1>2, <2>1, <3>4, <5>1, StillUnbroken DEF NamedInv, CopyInv
          <5> QED
            BY <1>1, <2>3, <3>4, <5>2
        <4> QED
          BY <4>1, <4>2
      <3> QED
        BY <1>2, <2>1, <2>2, <2>5, <3>3, <3>4 DEF DeadlyAfter
    <2> QED
      BY <1>3, <2>4, <2>5, CallRecord
  <1>4. CASE Fails /\ Running
    <2>1. stored' = stored /\ failedStep' = cur /\ cur \in 1..8
      BY <1>4, RequestFails DEF Running, Undo
    <2>2. \A s \in 1..(cur - 1) : IsWhole(s, stored)
      BY <1>4, WholeIsWhole DEF WholeInv
    <2>3. ASSUME NEW k \in Field \cap Kind, StepOf(k) < cur PROVE stored[k] # 0
      <3>1. StepOf(k) \in 1..(cur - 1) /\ k \in Own[StepOf(k)] \cap Kind
        BY <2>1, <2>3, OwnFacts
      <3> QED
        BY <2>2, <3>1 DEF IsWhole
    <2>4. StepOf("bucket") = S3
      BY DEF StepOf
    <2> QED
      BY <1>2, <2>1, <2>3, <2>4 DEF DeadlyAfter
  <1>5. CASE /\ ~Running
             /\ \/ CallStep \/ Fails \/ StepReturns
                \/ Aside /\ (account' = account \/ \E j \in SlowToCome : Settle(j))
    <2>1. /\ account' \in Accounts /\ stored' = stored
          /\ \A k \in Kind : Persists(k) /\ Len(account'[k]) = Len(account[k])
      BY <1>5, OutsideCalls
    <2>2. \A k \in Kind : IsDead(k) => IsDeadAfter(k)
      BY <2>1, DeadStays
    <2>3. saga \in {"compensating", "failed"} /\ failedStep' = failedStep
      <3>1. CASE CallStep
        BY <3>1, RequestBegins
      <3>2. CASE Fails
        BY <1>5, <3>2, RequestFails
      <3>3. CASE StepReturns
        BY <1>5, <3>3, RequestReturns DEF Undo
      <3>4. CASE Aside
        BY <3>4 DEF Aside, sagaVars
      <3> QED
        BY <1>5, <3>1, <3>2, <3>3, <3>4
    <2> QED
      BY <1>1, <1>2, <2>1, <2>2, <2>3 DEF DeadlyAfter
  <1>6. CASE Running /\ ~Fails /\ ~CallSucceeds
    <2>1. CASE CallStep
      BY <1>6, <2>1, RequestBegins DEF Running
    <2>2. CASE StepReturns
      BY <1>6, <2>2, RequestReturns DEF Running, Undo
    <2>3. CASE Aside
      BY <1>6, <2>3 DEF Aside, sagaVars, Running
    <2> QED
      BY <1>6, <2>1, <2>2, <2>3, UnbrokenCases DEF Running
  <1>7. CASE Marks /\ saga = "failed"
    <2>1. account' = account /\ failedStep' = failedStep
      BY <1>7 DEF Marks, sagaVars
    <2>2. \A k \in Kind : IsDead(k) => IsDeadAfter(k)
      BY <2>1 DEF IsDead, IsDeadAfter
    <2>3. cur = 0
      BY <1>7, StillUnbroken DEF NamedInv, SagaInv, Running
    <2>4. \A k \in Field \cap Kind : StepOf(k) < failedStep => stored[k] = 0
      BY <1>7, <2>3, StillUnbroken, OwnFacts DEF NamedInv, ClearedInv
    <2>5. StepOf("bucket") = S3
      BY DEF StepOf
    <2> QED
      BY <1>1, <1>2, <1>7, <2>1, <2>2, <2>4, <2>5 DEF DeadlyAfter
  <1> QED
    BY <1>3, <1>4, <1>5, <1>6, <1>7, UnbrokenCases

LEMMA DeletingStep ==
    ASSUME StrayCore, [Next]_vars, Unbroken'
    PROVE  DeletingInv'
  <1> USE NamedTypeFacts
  <1> USE DEF StrayCore, DoneCore
  <1> SUFFICES ASSUME Undo', Serving'
               PROVE  /\ \A k \in (Own[cur'] \cap Kind) \ {"instance"} :
                            Last(k) \in Todo' \/ IsDeadAfter(k)
                      /\ cur' = S3 => Delete("object") \in Todo' \/ IsDeadAfter("object")
                      /\ \A k \in InVpc : Delete(k) \in Todo' => req'.env[k] # 0
    BY DeadlyIsDeleting
  <1>1. "object" \in Kind /\ "db" \in SlowToGo /\ StepOf("bucket") = S3
    BY DEF Kind, SlowToGo, StepOf
  <1>2. CASE CallStep
    <2>1. /\ Undo /\ cur' = cur /\ cur \in 1..7 /\ req'.env = stored
          /\ Undoes(cur, stored, req'.todo) /\ account' = account /\ stored' = stored
      BY <1>2, RequestBegins DEF Undo
    <2>2. Todo' = Range(req'.todo)
      BY DEF Todo
    <2>3. cur < failedStep /\ saga = "compensating"
      BY <2>1 DEF Undo, SagaInv, Running
    <2>4. \A k : IsDead(k) => IsDeadAfter(k)
      BY <2>1 DEF IsDead, IsDeadAfter
    <2>5. /\ \A k \in (Field \cap Kind) \ {"instance"} :
                StepOf(k) < failedStep /\ stored[k] = 0 => IsDead(k)
          /\ S3 < failedStep /\ stored["bucket"] = 0 => IsDead("object")
      BY <2>3, DeadIsDead DEF DeadInv
    <2>6. ASSUME NEW k \in (Own[cur] \cap Kind) \ {"instance"}
          PROVE  Last(k) \in Todo' \/ IsDeadAfter(k)
      <3>1. k \in Field /\ StepOf(k) = cur
        BY <2>1, OwnFacts
      <3>2. CASE stored[k] # 0
        BY <1>1, <2>1, <2>2, <2>6, <3>2 DEF Undoes, Last
      <3>3. CASE stored[k] = 0
        BY <2>3, <2>4, <2>5, <3>1, <3>3
      <3> QED
        BY <3>2, <3>3
    <2>7. cur = S3 => Delete("object") \in Todo' \/ IsDeadAfter("object")
      BY <2>1, <2>2, <2>3, <2>4, <2>5 DEF Undoes
    <2>8. ASSUME NEW k \in InVpc, Delete(k) \in Todo' PROVE stored[k] # 0
      <3>1. CASE cur = Vpc
        BY <2>1, <2>2, <2>8, <3>1 DEF Undoes
      <3>2. CASE cur # Vpc
        <4>1. BackwardOp(cur, Delete(k))
          BY <2>1, <2>2, <2>8 DEF Undoes, Backward
        <4>2. k \in Own[cur] \cap Kind \/ k = "object"
          BY <4>1, Verbs DEF BackwardOp, Do, Other, Put, Delete
        <4> QED
          BY <2>1, <3>2, <4>2, VpcFacts, OwnFacts DEF InVpc
      <3> QED
        BY <3>1, <3>2
    <2> QED
      BY <2>1, <2>6, <2>7, <2>8
  <1>3. CASE CallSucceeds
    <2>1. /\ Undo /\ Serving /\ cur' = cur /\ cur \in 1..7 /\ Todo = {Now} \cup Todo'
          /\ req.todo # <<>> /\ req.todo \in Seq(Op) /\ BackwardOp(cur, Now)
          /\ Todo' = Range(Tail(req.todo))
      <3>1. Undo /\ Serving /\ cur' = cur /\ req'.todo = Tail(req.todo)
        BY <1>3, CallFacts DEF Undo
      <3> QED
        BY <1>3, <3>1, CallFacts DEF Todo
    <2>2. \A k \in Kind : IsDead(k) => IsDeadAfter(k)
      BY <1>3, <2>1, UndoCall
    <2>3. /\ \A k \in (Own[cur] \cap Kind) \ {"instance"} : Last(k) \in Todo \/ IsDead(k)
          /\ cur = S3 => Delete("object") \in Todo \/ IsDead("object")
          /\ \A k \in InVpc : Delete(k) \in Todo => req.env[k] # 0
      BY <2>1, DeletingDead
    <2>4. ASSUME NEW k \in Kind \ {"db", "instance"}, Now = Delete(k)
          PROVE  IsDeadAfter(k)
      <3>1. PICK j \in Kind : Deletes(j)
        BY <1>3, <2>4, CallCases, CallVerbs, Verbs DEF Calling
      <3>2. j = k
        <4>1. Now = Delete(j)
          BY <3>1 DEF Deletes
        <4>2. Delete(j).on = j /\ Delete(k).on = k
          BY Verbs
        <4> QED
          BY <2>4, <4>1, <4>2
      <3>3. PICK id : /\ DeleteResource(k, id)
                      /\ (k \in Own[cur] /\ id = req.env[k]) \/ k = "object"
        BY <3>1, <3>2 DEF Deletes
      <3>4. k \notin SlowToGo
        BY <2>4 DEF SlowToGo
      <3>5. Becomes(k, Target(k, id), "gone")
        BY <3>3, <3>4 DEF DeleteResource
      <3>6. CASE k \in Named
        BY <3>5, <3>6, AllGoneIsDead DEF Target
      <3>7. CASE k \notin Named
        <4>1. k \in InVpc /\ k # "object"
          BY <2>4, <3>7 DEF Kind, Named, InVpc
        <4>2. req.env[k] # 0
          BY <2>1, <2>3, <2>4, <4>1
        <4>3. id = Len(account[k])
          BY <2>1, <3>3, <4>1, <4>2 DEF LatestInv
        <4>4. /\ DOMAIN account'[k] = DOMAIN account[k] /\ Len(account'[k]) = Len(account[k])
              /\ \A n \in DOMAIN account[k] :
                    account'[k][n].state = IF n \in Target(k, id) THEN "gone"
                                                                  ELSE account[k][n].state
          BY <3>5, BecomesFacts
        <4> QED
          BY <3>7, <4>3, <4>4 DEF Target, Alive, IsDeadAfter
      <3> QED
        BY <3>6, <3>7
    <2>5. ASSUME Now = AwaitGone("db") PROVE IsDeadAfter("db")
      <3>1. PICK j \in Kind : Goes(j)
        BY <1>3, <2>5, CallCases, CallVerbs, Verbs DEF Calling
      <3>2. j = "db"
        <4>1. Now = AwaitGone(j)
          BY <3>1 DEF Goes
        <4> QED
          BY <2>5, <4>1, Verbs
      <3>3. Alive("db") = {}
        BY <3>1, <3>2 DEF Goes, HasGone, Target, Named
      <3> QED
        BY <2>2, <3>3, NothingIsDead DEF Kind
    <2>6. \A k \in (Own[cur] \cap Kind) \ {"instance"} : Last(k) \in Todo' \/ IsDeadAfter(k)
      BY <2>1, <2>2, <2>3, <2>4, <2>5 DEF Last
    <2>7. cur = S3 => Delete("object") \in Todo' \/ IsDeadAfter("object")
      BY <1>1, <2>1, <2>2, <2>3, <2>4
    <2>8. ASSUME NEW k \in InVpc, Delete(k) \in Todo' PROVE req'.env[k] # 0
      <3>1. k \in Field \cap Kind /\ req.env[k] # 0
        BY <2>1, <2>3, <2>8, VpcFacts
      <3>2. cur = Vpc
        <4>1. BackwardOp(cur, Delete(k))
          BY <2>1, <2>8 DEF ProgramInv
        <4>2. k \in Own[cur] \cap Kind \/ k = "object"
          BY <4>1, Verbs DEF BackwardOp, Do, Other, Put, Delete
        <4> QED
          BY <2>1, <4>2, VpcFacts, OwnFacts DEF InVpc
      <3>3. ASSUME NEW fs \in SUBSET Field, Clears(fs) PROVE FALSE
        <4>1. Now.do = "clear" /\ BackwardOrder(Vpc, req.todo)
          BY <2>1, <3>2, <3>3, CallVerbs DEF ProgramInv
        <4>2. \A c \in Todo' : c = Put
          BY <2>1, <4>1, BackwardTail DEF Now
        <4> QED
          BY <2>8, <4>2, Verbs
      <3>4. req'.env[k] = req.env[k]
        BY <1>3, <2>1, <3>1, <3>3, CallRecord DEF Creates, Running, Undo
      <3> QED
        BY <3>1, <3>4
    <2> QED
      BY <2>1, <2>6, <2>7, <2>8
  <1>4. CASE Fails
    BY <1>4, RequestFails
  <1>5. CASE StepReturns
    BY <1>5, RequestReturns
  <1>6. CASE Aside /\ (account' = account \/ \E j \in SlowToCome : Settle(j))
    <2>1. Undo /\ Serving /\ cur' = cur /\ Todo' = Todo /\ req' = req
      BY <1>6 DEF Aside, sagaVars, Undo, Serving, Todo
    <2>2. \A k \in Kind : IsDead(k) => IsDeadAfter(k)
      BY <1>6, OutsideCalls, DeadStays
    <2> QED
      BY <1>1, <2>1, <2>2, DeletingDead
  <1>7. CASE Marks /\ saga = "failed"
    BY <1>7 DEF Marks, sagaVars, Undo
  <1> QED
    BY <1>2, <1>3, <1>4, <1>5, <1>6, <1>7, UnbrokenCases

LEMMA StrayInit == Init => StrayInv
  <1> SUFFICES ASSUME Init PROVE StrayInv
    OBVIOUS
  <1>1. /\ saga = "running" /\ ~Serving /\ stored = [f \in Field |-> 0]
        /\ account = [k \in Kind |-> <<>>]
    BY DEF Init, AccountInit, Serving, Empty
  <1>2. LatestInv
    BY <1>1, VpcFacts DEF LatestInv
  <1>3. HomeInv
    BY <1>1, VpcFacts DEF HomeInv, Alive
  <1>4. DeadInv /\ DeletingInv
    BY <1>1 DEF DeadInv, DeletingInv, Undo
  <1> QED
    BY <1>2, <1>3, <1>4, DoneInit DEF StrayInv

LEMMA StrayStep == StrayInv /\ [Next]_vars => StrayInv'
  <1> SUFFICES ASSUME StrayInv, [Next]_vars PROVE StrayInv'
    OBVIOUS
  <1>1. DoneInv /\ DoneInv' /\ NamedInv
    BY DoneStep DEF StrayInv, DoneInv
  <1>2. ASSUME Unbroken' PROVE LatestInv' /\ HomeInv' /\ DeadInv' /\ DeletingInv'
    <2>1. StrayCore
      BY <1>1, <1>2, StillUnbroken, StrayCores
    <2> QED
      BY <1>2, <2>1, LatestStep, HomeStep, DeadStep, DeletingStep
  <1> QED
    BY <1>1, <1>2 DEF StrayInv

(***************************************************************************)
(* As long as StartSaga has not broken off, the record names the last VPC  *)
(* and what is in it; what a compensation has struck from the record is    *)
(* gone from the account, or its deletion is still in the program; nothing *)
(* outlives the VPC it lives in (internal/steps, the Compensate methods).  *)
(***************************************************************************)
THEOREM StrayInvariance == Spec => []StrayInv
  BY StrayInit, StrayStep, PTL DEF Spec

(***************************************************************************)
(* What a finished rollback leaves behind comes from attempts that failed  *)
(* and were made up for: the last resource of each kind, of every step     *)
(* that it undid, is gone; as long as StartSaga has not broken off, for    *)
(* the record that the goroutine then stores names nothing                 *)
(* (cmd/forge-api/main.go:115-118, internal/apiserver/server.go:169-173).  *)
(***************************************************************************)
THEOREM RollbackLeavesOnlyStrays == Spec => []RollbackLeavesStrays
  <1>1. StrayInv => RollbackLeavesStrays
    <2> SUFFICES ASSUME StrayInv, Unbroken, saga = "failed", NEW k \in Kind, StepOf(k) < failedStep
                 PROVE  Len(account[k]) \notin Alive(k)
      BY DEF RollbackLeavesStrays
    <2>1. NamedInv /\ cur = 0 /\ \A j \in Kind : StepOf(j) \in 1..6
      BY OwnFacts DEF StrayInv, DoneInv, NamedInv, SagaInv, Running
    <2>2. ASSUME NEW j \in Field \cap Kind, StepOf(j) < failedStep PROVE stored[j] = 0
      <3>1. cur < StepOf(j)
        BY <2>1
      <3> QED
        BY <2>1, <2>2, <3>1 DEF NamedInv, ClearedInv
    <2>3. CASE k \notin {"object", "instance"}
      BY <2>2, <2>3, OwnFacts DEF StrayInv, DeadInv, Dead
    <2>4. CASE k = "object"
      <3>1. StepOf("bucket") = S3 /\ StepOf("object") = S3 /\ "bucket" \in Field \cap Kind
        BY DEF StepOf, Field, Kind
      <3> QED
        BY <2>2, <2>4, <3>1 DEF StrayInv, DeadInv, Dead
    <2>5. CASE k = "instance"
      <3>1. StepOf("vpc") = 1 /\ StepOf("instance") = 3 /\ "vpc" \in Field \cap Kind
              /\ "vpc" # "instance"
        BY VpcFacts DEF Vpc, Ec2
      <3>2. failedStep \in 1..8
        BY <2>1 DEF NamedInv, SagaInv, Running
      <3>3. Dead("vpc")
        BY <2>2, <2>5, <3>1, <3>2 DEF StrayInv, DeadInv
      <3> QED
        BY <2>5, <3>3 DEF StrayInv, HomeInv
    <2> QED
      BY <2>3, <2>4, <2>5
  <1> QED
    BY <1>1, StrayInvariance, PTL

-----------------------------------------------------------------------------
(* The order in which a compensation asks for things.                      *)

LEMMA OrderlyTail ==
    ASSUME NEW t \in Seq(Op), t # <<>>, Orderly(t)
    PROVE  Orderly(Tail(t)) /\ \A d \in Range(Tail(t)) : Before(Head(t), d)
  <1>1. ASSUME NEW i \in DOMAIN Tail(t), NEW j \in DOMAIN Tail(t), i < j
        PROVE  Before(Tail(t)[i], Tail(t)[j])
    <2>1. /\ i + 1 \in DOMAIN t /\ j + 1 \in DOMAIN t /\ i + 1 < j + 1
          /\ Tail(t)[i] = t[i + 1] /\ Tail(t)[j] = t[j + 1]
      BY <1>1, TailFacts
    <2> QED
      BY <2>1 DEF Orderly
  <1>2. ASSUME NEW j \in DOMAIN Tail(t) PROVE Before(Head(t), Tail(t)[j])
    <2>1. /\ 1 \in DOMAIN t /\ j + 1 \in DOMAIN t /\ 1 < j + 1
          /\ Head(t) = t[1] /\ Tail(t)[j] = t[j + 1]
      BY <1>2, TailFacts
    <2> QED
      BY <2>1 DEF Orderly
  <1> QED
    BY <1>1, <1>2 DEF Orderly, Range

LEMMA OrderlyConcat ==
    ASSUME NEW a \in Seq(Op), NEW b \in Seq(Op), Orderly(a), Orderly(b),
           \A c \in Range(a), d \in Range(b) : Before(c, d)
    PROVE  Orderly(a \o b)
  <1> SUFFICES ASSUME NEW i \in DOMAIN (a \o b), NEW j \in DOMAIN (a \o b), i < j
               PROVE  Before((a \o b)[i], (a \o b)[j])
    BY DEF Orderly
  <1>1. Len(a) \in Nat /\ DOMAIN a = 1..Len(a) /\ DOMAIN b = 1..Len(b) /\ Len(b) \in Nat
    BY LenProperties
  <1>2. i \in Int /\ j \in Int
    BY ConcatFacts, LenProperties
  <1>3. CASE i \in DOMAIN a /\ (a \o b)[i] = a[i]
    <2>1. CASE j \in DOMAIN a /\ (a \o b)[j] = a[j]
      BY <1>3, <2>1 DEF Orderly
    <2>2. CASE j - Len(a) \in DOMAIN b /\ (a \o b)[j] = b[j - Len(a)]
      BY <1>3, <2>2 DEF Range
    <2> QED
      BY <2>1, <2>2, ConcatFacts
  <1>4. CASE i - Len(a) \in DOMAIN b /\ (a \o b)[i] = b[i - Len(a)]
    <2>1. CASE j \in DOMAIN a
      BY <1>1, <1>2, <1>4, <2>1
    <2>2. CASE j - Len(a) \in DOMAIN b /\ (a \o b)[j] = b[j - Len(a)]
      <3>1. i - Len(a) < j - Len(a)
        BY <1>1, <1>2
      <3> QED
        BY <1>4, <2>2, <3>1 DEF Orderly
    <2> QED
      BY <2>1, <2>2, ConcatFacts
  <1> QED
    BY <1>3, <1>4, ConcatFacts

\* What may come before what.
LEMMA BeforeFacts ==
    /\ \A c, d : d.do \notin {"delete", "awaitGone"} => Before(c, d)
    /\ \A c, d : c.do \notin {"delete", "clear"} => Before(c, d)
    /\ \A j, k : j # k => Before(Delete(j), Delete(k))
    /\ \A j, k : Before(Delete(j), AwaitGone(k))
  <1>1. ASSUME NEW c, NEW d, d.do \notin {"delete", "awaitGone"} PROVE Before(c, d)
    BY <1>1, Verbs DEF Before
  <1>2. ASSUME NEW c, NEW d, c.do \notin {"delete", "clear"} PROVE Before(c, d)
    BY <1>2, Verbs DEF Before
  <1>3. ASSUME NEW j, NEW k, j # k PROVE Before(Delete(j), Delete(k))
    <2>1. ASSUME NEW i, Delete(k) = Delete(i), Delete(j) = Delete(i) PROVE FALSE
      <3>1. Delete(k).on = k /\ Delete(j).on = j
        BY Verbs
      <3> QED
        BY <1>3, <2>1, <3>1
    <2>2. Delete(j).do = "delete"
      BY Verbs
    <2> QED
      BY <2>1, <2>2 DEF Before
  <1>4. ASSUME NEW j, NEW k PROVE Before(Delete(j), AwaitGone(k))
    <2>1. Delete(j).do = "delete" /\ AwaitGone(k).do = "awaitGone"
          /\ \A i : Delete(i).do = "delete"
      BY Verbs
    <2> QED
      BY <2>1 DEF Before
  <1> QED
    BY <1>1, <1>2, <1>3, <1>4

LEMMA OrderlyOne == Orderly(<<>>) /\ \A c : Orderly(<< c >>)
  BY DEF Orderly

LEMMA OrderlyIf ==
    ASSUME NEW env, NEW f, NEW t, Orderly(t)
    PROVE  Orderly(If(env, f, t))
  BY OrderlyOne DEF If

LEMMA OrderlyFour ==
    ASSUME NEW c1, NEW c2, NEW c3, NEW c4,
           Before(c1, c2), Before(c1, c3), Before(c1, c4),
           Before(c2, c3), Before(c2, c4), Before(c3, c4)
    PROVE  Orderly(<< c1, c2, c3, c4 >>)
  BY DEF Orderly

LEMMA VpcIsOrderly == \A env : Orderly(VpcCompensate(env))
  <1> SUFFICES ASSUME NEW env PROVE Orderly(VpcCompensate(env))
    OBVIOUS
  <1> DEFINE a == If(env, "sg", << Delete("sg") >>)
             b == If(env, "pub", << Delete("pub") >>)
             c == If(env, "prv", << Delete("prv") >>)
             d == If(env, "vpc", << Delete("vpc") >>)
             e == << Clear({"sg", "pub", "prv", "vpc"}), Put >>
             ab == a \o b
             abc == ab \o c
             abcd == abc \o d
  <1>1. VpcCompensate(env) = abcd \o e
    BY DEF VpcCompensate
  <1>2. /\ a \in Seq(Op) /\ b \in Seq(Op) /\ c \in Seq(Op) /\ d \in Seq(Op)
        /\ Range(a) \subseteq {Delete("sg")} /\ Range(b) \subseteq {Delete("pub")}
        /\ Range(c) \subseteq {Delete("prv")} /\ Range(d) \subseteq {Delete("vpc")}
    BY IfDelete DEF Field, Kind
  <1>3. Orderly(a) /\ Orderly(b) /\ Orderly(c) /\ Orderly(d)
    BY OrderlyOne, OrderlyIf
  <1>4. e \in Seq(Op) /\ Range(e) = {Clear({"sg", "pub", "prv", "vpc"}), Put}
    BY DEF Op, Clear, Put, Do, Range, Field, Kind, Upper
  <1>5. Orderly(e)
    <2>1. Before(Clear({"sg", "pub", "prv", "vpc"}), Put)
      BY BeforeFacts, Verbs
    <2> QED
      BY <2>1 DEF Orderly
  <1> HIDE DEF a, b, c, d, e, ab, abc, abcd
  <1>6. ab \in Seq(Op) /\ Range(ab) \subseteq {Delete("sg"), Delete("pub")}
    BY <1>2, ConcatFacts DEF ab
  <1>7. abc \in Seq(Op) /\ Range(abc) \subseteq {Delete("sg"), Delete("pub"), Delete("prv")}
    BY <1>2, <1>6, ConcatFacts DEF abc
  <1>8. abcd \in Seq(Op)
    BY <1>2, <1>7, ConcatFacts DEF abcd
  <1>9. Orderly(ab)
    <2>1. \A x \in Range(a), y \in Range(b) : Before(x, y)
      BY <1>2, BeforeFacts
    <2> QED
      BY <1>2, <1>3, <2>1, OrderlyConcat DEF ab
  <1>10. Orderly(abc)
    <2>1. \A x \in {Delete("sg"), Delete("pub")} : Before(x, Delete("prv"))
      BY BeforeFacts
    <2>2. \A x \in Range(ab), y \in Range(c) : Before(x, y)
      BY <1>2, <1>6, <2>1
    <2> QED
      BY <1>2, <1>3, <1>6, <1>9, <2>2, OrderlyConcat DEF abc
  <1>11. Orderly(abcd)
    <2>1. \A x \in {Delete("sg"), Delete("pub"), Delete("prv")} : Before(x, Delete("vpc"))
      BY BeforeFacts
    <2>2. \A x \in Range(abc), y \in Range(d) : Before(x, y)
      BY <1>2, <1>7, <2>1
    <2> QED
      BY <1>2, <1>3, <1>7, <1>10, <2>2, OrderlyConcat DEF abcd
  <1>12. \A x \in Range(abcd), y \in Range(e) : Before(x, y)
    BY <1>4, BeforeFacts, Verbs
  <1> QED
    BY <1>1, <1>4, <1>5, <1>8, <1>11, <1>12, OrderlyConcat

LEMMA IdentityIsOrderly == \A env : Orderly(IdentityCompensate(env))
  <1> SUFFICES ASSUME NEW env PROVE Orderly(IdentityCompensate(env))
    OBVIOUS
  <1> DEFINE p == << Delete("policy"), Clear({"policy"}), Other >>
             a == If(env, "policy", p)
             b == << Clear({"entries"}), Put >>
  <1>1. IdentityCompensate(env) = a \o b
    BY DEF IdentityCompensate
  <1>2. p \in Seq(Op) /\ b \in Seq(Op) /\ <<>> \in Seq(Op)
    BY EmptySeq DEF Op, Delete, Clear, Other, Put, Do, Field, Kind, Upper
  <1>3. a \in Seq(Op)
    BY <1>2 DEF If
  <1>4. Range(b) = {Clear({"entries"}), Put}
    BY DEF Range
  <1>5. \A x : \A y \in {Clear({"policy"}), Other, Clear({"entries"}), Put} : Before(x, y)
    BY BeforeFacts, Verbs
  <1>6. Orderly(p) /\ Orderly(b)
    BY <1>5 DEF Orderly
  <1>7. Orderly(a)
    BY <1>6, OrderlyIf
  <1> HIDE DEF p, a, b
  <1> QED
    BY <1>1, <1>2, <1>3, <1>4, <1>5, <1>6, <1>7, OrderlyConcat

LEMMA ConfigIsOrderly == \A env : Orderly(ConfigCompensate(env))
  <1> SUFFICES ASSUME NEW env PROVE Orderly(ConfigCompensate(env))
    OBVIOUS
  <1> DEFINE p == << Do("hide", "object") >>
             q == << Delete("file"), Clear({"file"}) >>
             a == If(env, "bucket", p)
             b == If(env, "file", q)
             c == << Put >>
             ab == a \o b
  <1>1. ConfigCompensate(env) = ab \o c
    BY DEF ConfigCompensate
  <1>2. p \in Seq(Op) /\ q \in Seq(Op) /\ c \in Seq(Op) /\ <<>> \in Seq(Op)
    BY EmptySeq DEF Op, Delete, Clear, Put, Do, Field, Kind, Upper
  <1>3. a \in Seq(Op) /\ b \in Seq(Op)
    BY <1>2 DEF If
  <1>4. Range(a) \subseteq {Do("hide", "object")} /\ Range(c) = {Put}
    BY DEF Range, If
  <1>5. \A x : Before(x, Clear({"file"})) /\ Before(x, Put) /\ Before(Do("hide", "object"), x)
    BY BeforeFacts, Verbs
  <1>6. Orderly(p) /\ Orderly(q) /\ Orderly(c)
    BY <1>5, OrderlyOne DEF Orderly
  <1>7. Orderly(a) /\ Orderly(b)
    BY <1>6, OrderlyIf
  <1> HIDE DEF p, q, a, b, c, ab
  <1>8. ab \in Seq(Op) /\ Orderly(ab)
    BY <1>3, <1>4, <1>5, <1>7, ConcatFacts, OrderlyConcat DEF ab
  <1> QED
    BY <1>1, <1>2, <1>4, <1>5, <1>6, <1>8, OrderlyConcat

LEMMA CompensationOrderly ==
    ASSUME NEW s \in 1..7, NEW env
    PROVE  Orderly(Compensation(s, env))
  <1>0. \A x : \A fs : Before(x, Clear(fs)) /\ Before(x, Put)
    BY BeforeFacts, Verbs
  <1> USE DEF Compensation, Vpc, Rds, Ec2, S3, Identity, Config, Health
  <1>1. CASE s = Vpc
    BY <1>1, VpcIsOrderly
  <1>2. CASE s = Rds
    <2>1. Orderly(<< Delete("db"), AwaitGone("db"),
                     Clear({"db", "endpoint", "password"}), Put >>)
      BY <1>0, BeforeFacts, OrderlyFour
    <2> QED
      BY <1>2, <2>1, OrderlyIf DEF RdsCompensate
  <1>3. CASE s = Ec2
    <2>1. Orderly(<< Delete("instance"), AwaitGone("instance"), Clear({"instance", "ip"}), Put >>)
      BY <1>0, BeforeFacts, OrderlyFour
    <2> QED
      BY <1>3, <2>1, OrderlyIf DEF Ec2Compensate
  <1>4. CASE s = S3
    <2>1. Orderly(<< Delete("object"), Delete("bucket"), Clear({"bucket"}), Put >>)
      BY <1>0, BeforeFacts, OrderlyFour
    <2> QED
      BY <1>4, <2>1, OrderlyIf DEF S3Compensate
  <1>5. CASE s = Identity
    BY <1>5, IdentityIsOrderly
  <1>6. CASE s = Config
    BY <1>6, ConfigIsOrderly
  <1>7. CASE s = Health
    BY <1>7, OrderlyOne
  <1> QED
    BY <1>1, <1>2, <1>3, <1>4, <1>5, <1>6, <1>7

\* All that a step has filled is struck from the record.
LEMMA CompensationClears ==
    ASSUME NEW s \in 1..6, NEW env, \A k \in Own[s] \cap Kind : env[k] # 0
    PROVE  LET todo == Range(Compensation(s, env)) IN
           /\ Put \in todo
           /\ \A f \in Own[s] : \E c \in todo : c.do = "clear" /\ f \in c.on
  <1> USE DEF Compensation, Vpc, Rds, Ec2, S3, Identity, Config, Health
  <1>1. CASE s = Vpc
    <2>1. {Clear(VpcFields), Put} \subseteq Range(VpcCompensate(env))
      BY VpcIsBackward
    <2>2. Own[s] = VpcFields
      BY <1>1 DEF Own, VpcFields
    <2> QED
      BY <1>1, <2>1, <2>2, ClearFacts
  <1>2. CASE s = Rds
    <2>1. env["db"] # 0 /\ Own[s] = {"db", "endpoint", "password"}
      BY <1>2 DEF Own, Kind
    <2>2. {Clear(Own[s]), Put} \subseteq Range(RdsCompensate(env))
      BY <2>1, RdsIsBackward
    <2> QED
      BY <1>2, <2>2, ClearFacts
  <1>3. CASE s = Ec2
    <2>1. env["instance"] # 0 /\ Own[s] = {"instance", "ip"}
      BY <1>3 DEF Own, Kind
    <2>2. {Clear(Own[s]), Put} \subseteq Range(Ec2Compensate(env))
      BY <2>1, Ec2IsBackward
    <2> QED
      BY <1>3, <2>2, ClearFacts
  <1>4. CASE s = S3
    <2>1. env["bucket"] # 0 /\ Own[s] = {"bucket"}
      BY <1>4 DEF Own, Kind
    <2>2. {Clear(Own[s]), Put} \subseteq Range(S3Compensate(env))
      BY <2>1, S3IsBackward
    <2> QED
      BY <1>4, <2>2, ClearFacts
  <1>5. CASE s = Identity
    <2>1. env["policy"] # 0 /\ Own[s] = {"policy", "entries"}
      BY <1>5 DEF Own, Kind
    <2>2. {Clear({"policy"}), Clear({"entries"}), Put} \subseteq Range(IdentityCompensate(env))
      BY <2>1, IdentityIsBackward
    <2> QED
      BY <1>5, <2>1, <2>2, ClearFacts
  <1>6. CASE s = Config
    <2>1. env["file"] # 0 /\ Own[s] = {"file"}
      BY <1>6 DEF Own, Kind
    <2>2. {Clear(Own[s]), Put} \subseteq Range(ConfigCompensate(env))
      BY <2>1, ConfigIsBackward
    <2> QED
      BY <1>6, <2>2, ClearFacts
  <1> QED
    BY <1>1, <1>2, <1>3, <1>4, <1>5, <1>6

LEMMA ExecutionUploadsOnce ==
    ASSUME NEW s \in 1..8
    PROVE  NoneAfter(Execution[s], Maker("object"), Maker("object"))
  <1>1. CASE s = S3
    <2>1. Execution[s] = S3Execute
      BY <1>1 DEF Execution, S3
    <2> QED
      BY <2>1 DEF S3Execute, NoneAfter, Maker, Create, Configure, Put, Do
  <1>2. CASE s # S3
    <2>1. \A c \in Range(Execution[s]) : ForwardOp(s, c)
      BY ExecutionForward, ForwardIsForward
    <2>2. ~ForwardOp(s, Maker("object"))
      BY <1>2 DEF ForwardOp, Maker, Do, Other, Put
    <2> QED
      BY <2>1, <2>2, NoneAfterAbsent
  <1> QED
    BY <1>1, <1>2

-----------------------------------------------------------------------------
(* RollbackInv is inductive.                                               *)

SoleAfter(k) == Len(account'[k]) = 1 /\ account'[k][1].state \notin {"leaving", "gone"}

\* Nothing of kind k is left, before a step and after it.
Nothing(k) == \A n \in DOMAIN account[k] : account[k][n].state = "gone"
NothingAfter(k) == \A n \in DOMAIN account'[k] : account'[k][n].state = "gone"

LEMMA NothingIsNothing ==
    \A k : (Alive(k) = {} <=> Nothing(k)) /\ (Alive(k)' = {} <=> NothingAfter(k))
  <1>1. \A k : Alive(k) = {} <=> Nothing(k)
    BY DEF Alive, Nothing
  <1>2. \A k : Alive(k)' = {} <=> NothingAfter(k)
    BY DEF Alive, NothingAfter
  <1> QED
    BY <1>1, <1>2

LEMMA SoleFacts ==
    ASSUME NEW k \in Kind, account \in Accounts, Sole(k)
    PROVE  /\ Len(account[k]) = 1 /\ DOMAIN account[k] = {1} /\ Alive(k) = {1}
           /\ account[k] # <<>> /\ ~Nothing(k)
           /\ account[k][1].state \notin {"leaving", "gone"}
  <1>1. Len(account[k]) = 1 /\ account[k][1].state \notin {"leaving", "gone"}
    BY DEF Sole
  <1>2. DOMAIN account[k] = {1} /\ account[k] \in Seq(Resources)
    BY <1>1, AccountSeq
  <1> QED
    BY <1>1, <1>2, EmptySeq DEF Alive, Nothing

LEMMA SoleStays ==
    ASSUME NEW k \in Kind, account \in Accounts, Sole(k), Stays(k),
           Len(account'[k]) = Len(account[k])
    PROVE  SoleAfter(k)
  BY SoleFacts DEF Stays, SoleAfter

LEMMA NothingStays ==
    ASSUME NEW k \in Kind, account \in Accounts, account' \in Accounts,
           Nothing(k), Persists(k), Len(account'[k]) = Len(account[k])
    PROVE  NothingAfter(k)
  <1>1. DOMAIN account'[k] = DOMAIN account[k]
    BY AccountSeq
  <1> QED
    BY <1>1 DEF Nothing, NothingAfter, Persists

LEMMA EmptyStays ==
    ASSUME NEW k \in Kind, account \in Accounts, account' \in Accounts,
           account[k] = <<>>, Len(account'[k]) = Len(account[k])
    PROVE  account'[k] = <<>>
  BY AccountSeq, EmptySeq

\* The account, while nothing has gone wrong and no call takes effect.
LEMMA CalmAccount ==
    ASSUME NamedInv,
           \/ CallStep \/ CallRefused \/ StepReturns
           \/ Aside /\ (account' = account \/ \E k \in SlowToCome : Settle(k))
    PROVE  /\ account' \in Accounts /\ stored' = stored
           /\ \A k \in Kind : Stays(k) /\ Persists(k) /\ Len(account'[k]) = Len(account[k])
  <1> USE NamedTypeFacts
  <1>1. CASE account' = account /\ stored' = stored
    BY <1>1, SameAccount DEF AccountKept
  <1>2. CASE CallStep
    BY <1>1, <1>2, RequestBegins
  <1>3. CASE StepReturns
    BY <1>1, <1>3, RequestReturns
  <1>4. CASE CallRefused
    BY <1>1, <1>4 DEF CallRefused, accountVars
  <1>5. CASE Aside /\ \E k \in SlowToCome : Settle(k)
    <2>1. PICK k \in Kind : Settle(k)
      BY <1>5 DEF SlowToCome, Kind
    <2> QED
      BY <1>5, <2>1, SettleKeeps DEF AccountKept, Aside
  <1>6. CASE Aside /\ account' = account
    BY <1>1, <1>6 DEF Aside
  <1> QED
    BY <1>2, <1>3, <1>4, <1>5, <1>6

LEMMA CalmUnbroken == Undisturbed => Unbroken
  BY DEF Undisturbed, Unbroken

\* As long as nothing has gone wrong, nothing went wrong.
LEMMA CalmCases ==
    ASSUME NamedInv, [Next]_vars, Undisturbed'
    PROVE  /\ Undisturbed
           /\ \/ CallStep \/ CallSucceeds \/ CallRefused \/ StepReturns
              \/ Aside /\ (account' = account \/ \E k \in SlowToCome : Settle(k))
              \/ Marks /\ saga = "failed"
  <1>1. /\ left \in [errors : 0..MaxErrors, restarts : 0..MaxRestarts, breaks : 0..MaxBreaks]
        /\ MaxErrors \in Nat /\ MaxRestarts \in Nat /\ MaxBreaks \in Nat
    BY NamedTypeFacts, AwsStepsAssumption DEF TypeInv
  <1>2. /\ left'.errors = MaxErrors /\ left'.restarts = MaxRestarts
        /\ left'.breaks = MaxBreaks /\ Unbroken'
    BY DEF Undisturbed, Unbroken
  <1>3. ~CallFails /\ ~WorkerDies /\ ~Breaks
    BY <1>1, <1>2 DEF CallFails, WorkerDies, Breaks
  <1>4. \/ CallStep \/ CallSucceeds \/ CallRefused \/ StepReturns
        \/ Aside /\ (account' = account \/ \E k \in SlowToCome : Settle(k))
        \/ Marks /\ saga = "failed"
    BY <1>2, <1>3, NamedTypeFacts, UnbrokenCases DEF Fails
  <1>5. left' = left
    BY <1>3
    DEF Next, vars, CallStep, CallSucceeds, CallRefused, StepReturns, ConductorRestarts,
        SagaStopped, StartSagaBreaks, SagaReturns, MarkFailed, ProvisionLost, AwsSettles
  <1> QED
    BY <1>4, <1>5 DEF Undisturbed

\* CalmForwardInv and CalmBackwardInv, kind by kind.
Built(k) ==
    /\ StepOf(k) < cur => Sole(k) /\ (k \in Field => stored[k] = 1)
    /\ StepOf(k) > cur => account[k] = <<>>
    /\ StepOf(k) = cur /\ ~Serving =>
          account[k] = <<>> /\ \A f \in Own[cur] : stored[f] = 0
    /\ StepOf(k) = cur /\ Serving =>
          IF Maker(k) \in Todo THEN account[k] = <<>>
                               ELSE Sole(k) /\ (k \in Field => req.env[k] = 1)
BuiltAfter(k) ==
    /\ StepOf(k) < cur' => SoleAfter(k) /\ (k \in Field => stored'[k] = 1)
    /\ StepOf(k) > cur' => account'[k] = <<>>
    /\ StepOf(k) = cur' /\ ~Serving' =>
          account'[k] = <<>> /\ \A f \in Own[cur'] : stored'[f] = 0
    /\ StepOf(k) = cur' /\ Serving' =>
          IF Maker(k) \in Todo' THEN account'[k] = <<>>
                                ELSE SoleAfter(k) /\ (k \in Field => req'.env[k] = 1)

ToDelete(k) ==
    /\ Delete(k) \in Todo
    /\ Sole(k) /\ (k \in Field => req.env[k] = 1)
    /\ k \in SlowToGo => AwaitGone(k) \in Todo
    /\ k = "object" => Delete("bucket") \in Todo
ToDeleteAfter(k) ==
    /\ Delete(k) \in Todo'
    /\ SoleAfter(k) /\ (k \in Field => req'.env[k] = 1)
    /\ k \in SlowToGo => AwaitGone(k) \in Todo'
    /\ k = "object" => Delete("bucket") \in Todo'
Deleted(k) ==
    /\ Delete(k) \notin Todo
    /\ \/ Nothing(k)
       \/ AwaitGone(k) \in Todo /\ Len(account[k]) = 1 /\ req.env[k] = 1
DeletedAfter(k) ==
    /\ Delete(k) \notin Todo'
    /\ \/ NothingAfter(k)
       \/ AwaitGone(k) \in Todo' /\ Len(account'[k]) = 1 /\ req'.env[k] = 1

Razed(k) ==
    /\ StepOf(k) < cur \/ (StepOf(k) = cur /\ ~Serving) =>
          Sole(k) /\ (k \in Field => stored[k] = 1)
    /\ StepOf(k) > cur => Nothing(k)
    /\ StepOf(k) = cur /\ Serving => ToDelete(k) \/ Deleted(k)
RazedAfter(k) ==
    /\ StepOf(k) < cur' \/ (StepOf(k) = cur' /\ ~Serving') =>
          SoleAfter(k) /\ (k \in Field => stored'[k] = 1)
    /\ StepOf(k) > cur' => NothingAfter(k)
    /\ StepOf(k) = cur' /\ Serving' => ToDeleteAfter(k) \/ DeletedAfter(k)

Struck(f) ==
    /\ stored[f] = 0 \/ Put \in Todo
    /\ req.env[f] = 0 \/ \E c \in Todo : c.do = "clear" /\ f \in c.on
StruckAfter(f) ==
    /\ stored'[f] = 0 \/ Put \in Todo'
    /\ req'.env[f] = 0 \/ \E c \in Todo' : c.do = "clear" /\ f \in c.on

LEMMA CalmForward ==
    /\ CalmForwardInv /\ Undisturbed /\ Running =>
          /\ \A k \in Kind : Built(k)
          /\ Serving => NoneAfter(req.todo, Maker("object"), Maker("object"))
    /\ (Undisturbed' /\ Running' =>
          /\ \A k \in Kind : BuiltAfter(k)
          /\ Serving' => NoneAfter(req'.todo, Maker("object"), Maker("object")))
       => CalmForwardInv'
  <1>1. ASSUME CalmForwardInv, Undisturbed, Running
        PROVE  /\ \A k \in Kind : Built(k)
               /\ Serving => NoneAfter(req.todo, Maker("object"), Maker("object"))
    BY <1>1 DEF CalmForwardInv, Built
  <1>2. ASSUME Undisturbed' /\ Running' =>
                  /\ \A k \in Kind : BuiltAfter(k)
                  /\ Serving' => NoneAfter(req'.todo, Maker("object"), Maker("object"))
        PROVE  CalmForwardInv'
    BY <1>2 DEF CalmForwardInv, BuiltAfter, Sole, SoleAfter
  <1> QED
    BY <1>1, <1>2

LEMMA CalmBackward ==
    /\ CalmBackwardInv /\ Undisturbed /\ Undo =>
          /\ \A k \in Kind : Razed(k)
          /\ \A s \in (cur + 1)..8 : \A f \in Own[s] : stored[f] = 0
          /\ Serving => Orderly(req.todo) /\ \A f \in Own[cur] : Struck(f)
    /\ (Undisturbed' /\ Undo' =>
          /\ \A k \in Kind : RazedAfter(k)
          /\ \A s \in (cur' + 1)..8 : \A f \in Own[s] : stored'[f] = 0
          /\ Serving' => Orderly(req'.todo) /\ \A f \in Own[cur'] : StruckAfter(f))
       => CalmBackwardInv'
  <1>1. ASSUME CalmBackwardInv, Undisturbed, Undo
        PROVE  /\ \A k \in Kind : Razed(k)
               /\ \A s \in (cur + 1)..8 : \A f \in Own[s] : stored[f] = 0
               /\ Serving => Orderly(req.todo) /\ \A f \in Own[cur] : Struck(f)
    BY <1>1, NothingIsNothing DEF CalmBackwardInv, Razed, ToDelete, Deleted, Struck
  <1>2. ASSUME Undisturbed' /\ Undo' =>
                  /\ \A k \in Kind : RazedAfter(k)
                  /\ \A s \in (cur' + 1)..8 : \A f \in Own[s] : stored'[f] = 0
                  /\ Serving' => Orderly(req'.todo) /\ \A f \in Own[cur'] : StruckAfter(f)
        PROVE  CalmBackwardInv'
    BY <1>2, NothingIsNothing
    DEF CalmBackwardInv, RazedAfter, ToDeleteAfter, DeletedAfter, StruckAfter, Sole, SoleAfter
  <1> QED
    BY <1>1, <1>2

\* What the calls of a program still to be made say of its kinds.
LEMMA UndoKinds ==
    ASSUME NamedInv, Undo, Serving
    PROVE  /\ cur \in 1..7 /\ ~Running
           /\ \A k : AwaitGone(k) \in Todo => k \in {"db", "instance"} \cap Own[cur]
           /\ \A k \in Kind : StepOf(k) = cur => k \in Own[cur] \/ (k = "object" /\ cur = S3)
  <1>1. cur \in 1..7 /\ ~Running
    BY NamedTypeFacts DEF SagaInv, Undo, Running
  <1>2. ASSUME NEW k, AwaitGone(k) \in Todo PROVE k \in {"db", "instance"} \cap Own[cur]
    <2>1. BackwardOp(cur, AwaitGone(k))
      BY <1>2, NamedTypeFacts DEF ProgramInv
    <2>2. AwaitGone(k).do = "awaitGone" /\ AwaitGone(k).on = k /\ Delete("object").do = "delete"
          /\ Do("hide", "object").do = "hide" /\ Other.do = "other" /\ Put.do = "put"
      BY Verbs
    <2> QED
      BY <2>1, <2>2 DEF BackwardOp, SlowToGo
  <1>3. \A k \in Kind : StepOf(k) = cur => k \in Own[cur] \/ (k = "object" /\ cur = S3)
    BY OwnFacts
  <1> QED
    BY <1>1, <1>2, <1>3

-----------------------------------------------------------------------------
(* What a saga that nothing disturbs makes, and what its rollback undoes.  *)

\* A request that has a call to make.
LEMMA CallAhead ==
    ASSUME NamedInv, Serving, req.todo # <<>>
    PROVE  /\ req.todo \in Seq(Op) /\ Now \in Op /\ Now = Do(Now.do, Now.on)
           /\ Now \in Todo /\ Todo = {Now} \cup Range(Tail(req.todo))
           /\ cur \in 1..8 /\ req.env \in [Field -> Nat]
           /\ Running => ForwardOp(cur, Now) /\ ForwardOrder(cur, req.todo)
           /\ Undo => BackwardOp(cur, Now) /\ BackwardOrder(cur, req.todo)
  <1>1. req.todo \in Seq(Op) /\ req.env \in [Field -> Nat]
    BY NamedTypeFacts DEF TypeInv
  <1>2. Now \in Op /\ Todo = {Now} \cup Range(Tail(req.todo)) /\ Now \in Todo
    BY <1>1, TailFacts DEF Now, Todo
  <1>3. cur \in 1..8
    BY NamedTypeFacts DEF SagaInv, Running
  <1> QED
    BY <1>1, <1>2, <1>3, NamedTypeFacts, OpShape DEF ProgramInv

LEMMA ForwardRefusal ==
    ASSUME NamedInv, CalmForwardInv, Undisturbed, Running, CallRefused
    PROVE  cur = Health
  <1>1. Serving /\ req.todo # <<>> /\ Refused(Now, req.env)
    BY DEF CallRefused, Now
  <1> DEFINE t == req.todo
  <1>2. /\ t \in Seq(Op) /\ Now \in Op /\ Now = Do(Now.do, Now.on)
        /\ Now \in Todo /\ Todo = {Now} \cup Range(Tail(t)) /\ cur \in 1..8
        /\ ForwardOp(cur, Now) /\ ForwardOrder(cur, t)
    BY <1>1, CallAhead
  <1>3. \A k \in Kind : Built(k)
    BY CalmForward
  <1>4. account \in Accounts
    BY NamedTypeFacts
  <1>5. CASE Now.do = "create" /\ CreateRefused(Now.on)
    <2>1. Now.on \in Own[cur] \cap Kind
      BY <1>2, <1>5, Verbs DEF ForwardOp
    <2>2. StepOf(Now.on) = cur /\ Now.on # "object"
      BY <2>1, <1>2, OwnFacts
    <2>3. Maker(Now.on) \in Todo
      BY <1>2, <1>5, <2>2 DEF Maker, Create
    <2>4. account[Now.on] = <<>>
      BY <1>1, <1>3, <2>1, <2>2, <2>3 DEF Built
    <2>5. Alive(Now.on) = {}
      BY <2>4, EmptySeq DEF Alive
    <2> QED
      BY <1>5, <2>5 DEF CreateRefused
  <1>6. CASE Now.do \in {"upload", "hide"} /\ Alive("bucket") = {}
    <2>1. ~Sole("bucket")
      BY <1>4, <1>6, SoleFacts DEF Kind
    <2>2. "bucket" \in Kind /\ StepOf("bucket") = S3 /\ Maker("bucket") = Create("bucket")
      BY DEF Kind, StepOf, Maker
    <2>3. (Now = Do("upload", "placeholder") /\ cur = S3) \/ cur = Config
      BY <1>2, <1>6, Verbs DEF ForwardOp
    <2>4. CASE Now = Do("upload", "placeholder") /\ cur = S3
      <3>1. Create("bucket") \notin Range(Tail(t))
        BY <1>1, <1>2, <2>4, ForwardTail DEF Now
      <3>2. Create("bucket") # Now
        BY <2>4, Verbs
      <3> QED
        BY <1>1, <1>2, <1>3, <2>1, <2>2, <2>4, <3>1, <3>2 DEF Built
    <2>5. CASE cur = Config
      BY <1>3, <2>1, <2>2, <2>5 DEF Built, S3, Config
    <2> QED
      BY <2>3, <2>4, <2>5
  <1>7. CASE Now.do = "delete"
    BY <1>2, <1>7, Verbs DEF ForwardOp
  <1>8. CASE Now.do = "check"
    BY <1>2, <1>8, Verbs DEF ForwardOp
  <1>9. ASSUME NEW k \in Field \cap Kind, StepOf(k) < cur PROVE req.env[k] = 1
    <2>1. stored[k] = 1 /\ k \notin Own[cur]
      BY <1>2, <1>3, <1>9, OwnFacts DEF Built
    <2> QED
      BY <1>1, <2>1, CalmUnbroken DEF NamedInv, CopyInv
  <1>10. CASE Now \in {Create("db"), Create("instance")} /\ req.env["vpc"] = 0
    <2>1. Now.do = "create" /\ Now.on \in {"db", "instance"}
      BY <1>10, Verbs
    <2>2. Now.on \in Own[cur] \cap Kind
      BY <1>2, <2>1, Verbs DEF ForwardOp
    <2>3. StepOf(Now.on) = cur
      BY <1>2, <2>2, OwnFacts
    <2>4. "vpc" \in Field \cap Kind /\ StepOf("vpc") < cur
      BY <2>1, <2>3 DEF StepOf, Field, Kind, Vpc, Rds, Ec2
    <2> QED
      BY <1>9, <1>10, <2>4
  <1>11. CASE Now.do \in {"upload", "hide"} /\ req.env["bucket"] = 0
    <2>1. "bucket" \in Field \cap Kind /\ StepOf("bucket") = S3
            /\ Maker("bucket") = Create("bucket")
      BY DEF Field, Kind, StepOf, Maker
    <2>2. (Now = Do("upload", "placeholder") /\ cur = S3) \/ cur = Config
      BY <1>2, <1>11, Verbs DEF ForwardOp
    <2>3. CASE Now = Do("upload", "placeholder") /\ cur = S3
      <3>1. Create("bucket") \notin Range(Tail(t))
        BY <1>1, <1>2, <2>3, ForwardTail DEF Now
      <3>2. Create("bucket") # Now
        BY <2>3, Verbs
      <3> QED
        BY <1>1, <1>2, <1>3, <1>11, <2>1, <2>3, <3>1, <3>2 DEF Built
    <2>4. CASE cur = Config
      BY <1>9, <1>11, <2>1, <2>4 DEF S3, Config
    <2> QED
      BY <2>2, <2>3, <2>4
  <1> QED
    BY <1>1, <1>5, <1>6, <1>7, <1>8, <1>10, <1>11, Verbs DEF Refused

LEMMA BackwardRefusal ==
    ASSUME NamedInv, CalmBackwardInv, Undisturbed, Undo, CallRefused
    PROVE  FALSE
  <1>1. Serving /\ req.todo # <<>> /\ Refused(Now, req.env)
    BY DEF CallRefused, Now
  <1> DEFINE t == req.todo
  <1>2. /\ t \in Seq(Op) /\ Now \in Op /\ Now = Do(Now.do, Now.on)
        /\ Now \in Todo /\ Todo = {Now} \cup Range(Tail(t))
        /\ BackwardOp(cur, Now) /\ BackwardOrder(cur, t)
    BY <1>1, CallAhead
  <1>3. \A k \in Kind : Razed(k)
    BY CalmBackward
  <1>4. /\ account \in Accounts /\ cur \in 1..7
        /\ \A k : AwaitGone(k) \in Todo => k \in {"db", "instance"} \cap Own[cur]
    BY <1>1, NamedTypeFacts, UndoKinds
  <1>5. ASSUME NEW k \in Kind, Now = Delete(k), StepOf(k) = cur
        PROVE  /\ Sole(k) /\ (k \in Field => req.env[k] = 1)
               /\ \A j \in Occupants(k) : Alive(j) = {}
    <2>1. ToDelete(k)
      BY <1>1, <1>2, <1>3, <1>5 DEF Razed, Deleted
    <2>2. ASSUME NEW j \in Occupants(k) PROVE Nothing(j)
      <3>1. CASE StepOf(j) > cur /\ j \in Kind
        BY <1>3, <3>1 DEF Razed
      <3>2. CASE /\ j \in Kind /\ StepOf(j) = cur /\ Delete(j) \notin Range(Tail(t))
                 /\ j \notin {"db", "instance"} /\ j # k
        <4>1. Delete(j) # Now
          BY <1>5, <3>2, Verbs
        <4>2. Delete(j) \notin Todo /\ AwaitGone(j) \notin Todo
          BY <1>2, <1>4, <3>2, <4>1
        <4> QED
          BY <1>1, <1>3, <3>2, <4>2 DEF Razed, ToDelete, Deleted
      <3>3. CASE k = "vpc"
        <4>1. cur = Vpc /\ j \in {"pub", "prv", "sg", "db", "instance"}
          BY <1>5, <2>2, <3>3 DEF Occupants, StepOf
        <4>2. \A i \in {"pub", "prv", "sg"} : Delete(i) \notin Range(Tail(t))
          BY <1>1, <1>2, <1>5, <3>3, <4>1, BackwardTail DEF Now
        <4> QED
          BY <3>1, <3>2, <3>3, <4>1, <4>2 DEF StepOf, Kind, Vpc, Rds, Ec2
      <3>4. CASE k \in {"sg", "pub"}
        <4>1. cur = Vpc /\ j \in {"db", "instance"}
          BY <1>5, <2>2, <3>4 DEF Occupants, StepOf
        <4> QED
          BY <3>1, <4>1 DEF StepOf, Kind, Vpc, Rds, Ec2
      <3>5. CASE k = "bucket"
        <4>1. cur = S3 /\ j = "object"
          BY <1>5, <2>2, <3>5 DEF Occupants, StepOf
        <4>2. Delete("object") \notin Range(Tail(t))
          BY <1>1, <1>2, <1>5, <3>5, <4>1, BackwardTail DEF Now
        <4> QED
          BY <3>2, <3>5, <4>1, <4>2 DEF StepOf, Kind
      <3> QED
        BY <2>2, <3>3, <3>4, <3>5 DEF Occupants
    <2> QED
      BY <2>1, <2>2, NothingIsNothing DEF ToDelete
  <1>6. CASE Now.do = "delete" /\ Now.on # "object" /\ DeleteRefused(Now.on, req.env[Now.on])
    <2> DEFINE k == Now.on
    <2>1. k \in Own[cur] \cap Kind
      BY <1>2, <1>6, Verbs DEF BackwardOp
    <2>2. StepOf(k) = cur /\ k \in Field /\ k \in Kind
      BY <1>4, <2>1, OwnFacts
    <2>3. Now = Delete(k)
      BY <1>2, <1>6 DEF Delete
    <2>4. Sole(k) /\ req.env[k] = 1 /\ \A j \in Occupants(k) : Alive(j) = {}
      BY <1>5, <2>2, <2>3
    <2>5. Alive(k) = {1} /\ account[k][1].state # "leaving"
      BY <1>4, <2>2, <2>4, SoleFacts
    <2>6. Target(k, 1) = {1}
      BY <2>5 DEF Target
    <2>7. ~InUse(k, 1)
      BY <2>4 DEF InUse
    <2> HIDE DEF k
    <2>8. ~DeleteRefused(k, 1)
      BY <2>5, <2>6, <2>7 DEF DeleteRefused, InState
    <2> QED
      BY <1>6, <2>4, <2>8 DEF k
  <1>7. CASE Now.do \in {"upload", "hide"} /\ Alive("bucket") = {}
    <2>1. cur = Config
      BY <1>2, <1>7, Verbs DEF BackwardOp
    <2>2. "bucket" \in Kind /\ StepOf("bucket") < cur
      BY <2>1 DEF Kind, StepOf, S3, Config
    <2> QED
      BY <1>3, <1>4, <1>7, <2>2, SoleFacts DEF Razed
  <1>8. CASE Now = Delete("object") /\ Alive("bucket") = {}
    <2>1. cur = S3 /\ "object" \in Kind /\ "bucket" \in Kind
            /\ StepOf("object") = S3 /\ StepOf("bucket") = S3
      <3>1. Now.do = "delete" /\ Now.on = "object" /\ "object" \notin Own[cur] \cap Kind
        BY <1>4, <1>8, Verbs, OwnFacts
      <3> QED
        BY <1>2, <3>1, Verbs DEF BackwardOp, StepOf, Kind
    <2>2. ToDelete("object")
      BY <1>1, <1>2, <1>3, <1>8, <2>1 DEF Razed, Deleted
    <2>3. Sole("bucket")
      BY <1>1, <1>3, <2>1, <2>2 DEF Razed, ToDelete, Deleted
    <2> QED
      BY <1>4, <1>8, <2>1, <2>3, SoleFacts
  <1>9. CASE Now.do \in {"create", "check"}
    BY <1>2, <1>9, Verbs DEF BackwardOp
  <1>10. CASE Now.do \in {"upload", "hide"} /\ req.env["bucket"] = 0
    <2>1. cur = Config
      BY <1>2, <1>10, Verbs DEF BackwardOp
    <2>2. "bucket" \in Kind \cap Field /\ StepOf("bucket") < cur /\ "bucket" \notin Own[cur]
      BY <2>1 DEF Kind, Field, StepOf, Own, S3, Config
    <2>3. stored["bucket"] = 1
      BY <1>3, <2>2 DEF Razed
    <2> QED
      BY <1>1, <1>10, <2>2, <2>3, CalmUnbroken DEF NamedInv, CopyInv
  <1>11. CASE Now = Delete("object") /\ req.env["bucket"] = 0
    <2>1. cur = S3 /\ "object" \in Kind /\ "bucket" \in Kind \cap Field
            /\ StepOf("object") = S3 /\ StepOf("bucket") = S3
      <3>1. Now.do = "delete" /\ Now.on = "object" /\ "object" \notin Own[cur] \cap Kind
        BY <1>4, <1>11, Verbs, OwnFacts
      <3> QED
        BY <1>2, <3>1, Verbs DEF BackwardOp, StepOf, Kind, Field
    <2>2. ToDelete("object")
      BY <1>1, <1>2, <1>3, <1>11, <2>1 DEF Razed, Deleted
    <2>3. req.env["bucket"] = 1
      BY <1>1, <1>3, <2>1, <2>2 DEF Razed, ToDelete, Deleted
    <2> QED
      BY <1>11, <2>3
  <1> QED
    BY <1>1, <1>6, <1>7, <1>8, <1>9, <1>10, <1>11, Verbs DEF Refused

\* Only a first upload adds to the objects.
LEMMA ObjectGrows ==
    ASSUME NamedInv, CallSucceeds, Alive("object") # {} \/ \A what : ~Uploads(what)
    PROVE  Len(account'["object"]) = Len(account["object"])
  <1> USE NamedTypeFacts
  <1>1. "object" \in Kind /\ \A s : "object" \notin Own[s] \/ s \notin 1..8
    BY OwnFacts DEF Kind
  <1>2. cur \in 1..8
    BY CallFacts
  <1>3. CASE account' = account
    BY <1>3
  <1>4. ASSUME NEW k \in Kind, NEW ns, NEW s \in {"pending", "ready", "hidden", "leaving", "gone"},
               Becomes(k, ns, s)
        PROVE  Len(account'["object"]) = Len(account["object"])
    BY <1>1, <1>4, BecomesFacts
  <1>5. ASSUME NEW k \in Kind, Creates(k)
        PROVE  Len(account'["object"]) = Len(account["object"])
    <2>1. k # "object" /\ req.env["password"] \in Nat
      BY <1>1, <1>2, <1>5, CallFacts DEF Creates, Field
    <2>2. CASE account' = account
      BY <2>2
    <2>3. CASE \E v \in Nat : Appear(k, v, IF k = "db" THEN req.env["password"] ELSE 0)
      BY <1>1, <2>1, <2>3, AppearFacts
    <2> QED
      BY <1>5, <2>2, <2>3 DEF Creates
  <1>6. ASSUME NEW what, Uploads(what)
        PROVE  Len(account'["object"]) = Len(account["object"])
    <2>1. Becomes("object", Alive("object"), "ready")
      BY <1>6 DEF Uploads, Upload
    <2> QED
      BY <1>1, <1>4, <2>1
  <1>7. ASSUME NEW k \in Kind, Configures(k)
        PROVE  Len(account'["object"]) = Len(account["object"])
    BY <1>4, <1>7 DEF Configures
  <1>8. ASSUME NEW k \in Kind, Deletes(k)
        PROVE  Len(account'["object"]) = Len(account["object"])
    BY <1>1, <1>4, <1>8 DEF Deletes, DeleteResource
  <1>9. ASSUME Hides PROVE Len(account'["object"]) = Len(account["object"])
    BY <1>1, <1>4, <1>9 DEF Hides, HideObject
  <1>10. ASSUME \/ \E k \in Kind : Comes(k) \/ Goes(k)
                \/ \E f \in Field : Sets(f)
                \/ \E fs \in SUBSET Field : Clears(fs)
                \/ Checks \/ Others \/ Puts
         PROVE  account' = account
    BY <1>10 DEF Comes, Goes, Sets, Clears, Checks, Others, Puts, Quiet
  <1> QED
    BY <1>3, <1>5, <1>6, <1>7, <1>8, <1>9, <1>10, CallCases DEF Calling

\* What comes first of its kind is the only one, and has the first name.
LEMMA MadeIsSole ==
    ASSUME NamedInv, CallSucceeds, NEW k \in Kind, Now = Maker(k), account[k] = <<>>
    PROVE  SoleAfter(k) /\ (k \in Field => req'.env[k] = 1)
  <1> USE NamedTypeFacts
  <1>1. Alive(k) = {} /\ Len(account[k]) = 0
    BY EmptySeq DEF Alive
  <1>2. ASSUME NEW v \in Nat, NEW p \in Nat, Appear(k, v, p) PROVE SoleAfter(k)
    <2>1. account'[k][1] =
            [state |-> IF k \in SlowToCome \cup Configured THEN "pending" ELSE "ready",
             vpc |-> v, pass |-> p] /\ Len(account'[k]) = 1
      <3> DEFINE n == Len(account[k]) + 1
      <3>1. account'[k][n] =
              [state |-> IF k \in SlowToCome \cup Configured THEN "pending" ELSE "ready",
               vpc |-> v, pass |-> p] /\ Len(account'[k]) = n
        BY <1>2, AppearFacts
      <3>2. n = 1
        BY <1>1
      <3> HIDE DEF n
      <3> QED
        BY <3>1, <3>2
    <2> QED
      BY <2>1 DEF SoleAfter
  <1>3. CASE k # "object"
    <2>1. Creates(k)
      BY <1>3, WhichCall DEF Maker
    <2>2. SoleAfter(k)
      <3>1. req.env["password"] \in Nat
        BY CallFacts DEF Field
      <3> QED
        BY <1>1, <1>2, <2>1, <3>1 DEF Creates
    <2>3. req'.env = [req.env EXCEPT ![k] = Value(k)] /\ req.env \in [Field -> Nat]
      BY <2>1, CallFacts DEF Creates
    <2>4. Value(k) = 1
      <3>1. k # "password"
        BY DEF Kind
      <3> QED
        BY <1>1, <3>1 DEF Value
    <2> QED
      BY <2>2, <2>3, <2>4
  <1>4. CASE k = "object"
    <2>1. Uploads("placeholder")
      BY <1>4, WhichCall DEF Maker
    <2>2. Appear("object", 0, 0)
      BY <1>1, <1>4, <2>1 DEF Uploads, Upload
    <2> QED
      BY <1>2, <1>4, <2>2, OwnFacts
  <1> QED
    BY <1>3, <1>4

LEMMA BuiltCall ==
    ASSUME NamedInv, CalmForwardInv, Undisturbed, Running, CallSucceeds, NEW k \in Kind
    PROVE  BuiltAfter(k)
  <1> USE NamedTypeFacts
  <1>1. /\ Serving /\ Serving' /\ cur \in 1..8 /\ cur' = cur /\ ~Undo
        /\ req.todo \in Seq(Op) /\ req.todo # <<>> /\ Now = Head(req.todo)
        /\ Todo = {Now} \cup Todo' /\ Todo' = Range(Tail(req.todo))
        /\ req'.todo = Tail(req.todo)
    <2>1. /\ Serving /\ Serving' /\ cur \in 1..8 /\ cur' = cur /\ ~Undo
          /\ req.todo \in Seq(Op) /\ req.todo # <<>> /\ Now = Head(req.todo)
          /\ Todo = {Now} \cup Todo' /\ req'.todo = Tail(req.todo)
      BY CallFacts DEF Serving, Running, Undo, Now
    <2> QED
      BY <2>1 DEF Todo
  <1>2. Built(k) /\ NoneAfter(req.todo, Maker("object"), Maker("object"))
    BY <1>1, CalmForward
  <1>3. Stays(k) /\ Persists(k) /\ account' \in Accounts
    BY <1>1, CallKeeps DEF AccountKept, Deletes
  <1>4. Creates(k) => StepOf(k) = cur /\ k # "object" /\ Now = Maker(k)
    BY <1>1, OwnFacts DEF Creates, Maker
  <1>5. \A what : Uploads(what) /\ cur # S3 => cur = Config
    BY DEF Uploads
  <1>6. \A what : Uploads(what) /\ cur = S3 => Now = Maker("object")
    BY DEF Uploads, Maker, S3, Config
  <1>7. StepOf("object") = S3 /\ ~(Config < S3) /\ S3 # Config
    BY OwnFacts DEF S3, Config
  <1>8. ASSUME Now # Maker(k), StepOf(k) = cur \/ cur < StepOf(k) \/ Alive(k) # {}
        PROVE  Len(account'[k]) = Len(account[k])
    <2>1. CASE k # "object"
      BY <1>4, <1>8, <2>1, CallGrows
    <2>2. CASE k = "object"
      BY <1>1, <1>5, <1>6, <1>7, <1>8, <2>2, ObjectGrows
    <2> QED
      BY <2>1, <2>2
  <1>9. ASSUME Now = Maker(k) PROVE cur = StepOf(k)
    <2>1. CASE k # "object"
      BY <1>4, <1>9, <2>1, WhichCall DEF Maker
    <2>2. CASE k = "object"
      <3>1. Uploads("placeholder")
        BY <1>9, <2>2, WhichCall DEF Maker
      <3> QED
        BY <1>7, <2>2, <3>1 DEF Uploads
    <2> QED
      BY <2>1, <2>2
  <1>10. CASE StepOf(k) < cur
    <2>1. Sole(k) /\ (k \in Field => stored[k] = 1)
      BY <1>2, <1>10 DEF Built
    <2>2. Now # Maker(k) /\ Alive(k) # {}
      <3>1. Alive(k) = {1}
        BY <2>1, SoleFacts
      <3>2. StepOf(k) # cur
        BY <1>1, <1>10, OwnFacts
      <3> QED
        BY <1>9, <3>1, <3>2
    <2>3. SoleAfter(k)
      BY <1>3, <1>8, <2>1, <2>2, SoleStays
    <2>4. k \in Field => stored'[k] = stored[k]
      <3>1. k \notin Own[cur]
        BY <1>1, <1>10, OwnFacts
      <3>2. k \in Field => req.env[k] = stored[k]
        BY <1>1, <3>1, CalmUnbroken DEF NamedInv, CopyInv
      <3> QED
        BY <3>2, CallRecord
    <2>5. ~(StepOf(k) > cur) /\ StepOf(k) # cur
      BY <1>1, <1>10, OwnFacts
    <2> QED
      BY <1>1, <2>1, <2>3, <2>4, <2>5 DEF BuiltAfter
  <1>11. CASE StepOf(k) > cur
    <2>1. account[k] = <<>>
      BY <1>2, <1>11 DEF Built
    <2>2. Now # Maker(k) /\ ~(StepOf(k) < cur) /\ StepOf(k) # cur
      BY <1>1, <1>9, <1>11, OwnFacts
    <2>3. account'[k] = <<>>
      BY <1>3, <1>8, <1>11, <2>1, <2>2, EmptyStays
    <2> QED
      BY <1>1, <2>2, <2>3 DEF BuiltAfter
  <1>12. CASE StepOf(k) = cur
    <2>0. ~(StepOf(k) < cur) /\ ~(StepOf(k) > cur)
      BY <1>1, <1>12, OwnFacts
    <2>1. ASSUME Maker(k) \in Todo' PROVE account'[k] = <<>>
      <3>1. account[k] = <<>>
        BY <1>1, <1>2, <1>12, <2>1 DEF Built
      <3>2. Now # Maker(k)
        <4>1. CASE k = "object"
          BY <1>1, <1>2, <2>1, <4>1, NoneAfterTail
        <4>2. CASE k # "object"
          <5>1. ForwardOrder(cur, req.todo)
            BY <1>1, CallAhead
          <5> QED
            BY <1>1, <2>1, <4>2, <5>1, ForwardTail DEF Maker
        <4> QED
          BY <4>1, <4>2
      <3> QED
        BY <1>3, <1>8, <1>12, <3>1, <3>2, EmptyStays
    <2>2. ASSUME Maker(k) \notin Todo'
          PROVE  SoleAfter(k) /\ (k \in Field => req'.env[k] = 1)
      <3>1. CASE Maker(k) \in Todo
        <4>1. Now = Maker(k) /\ account[k] = <<>>
          BY <1>1, <1>2, <1>12, <2>2, <3>1 DEF Built
        <4> QED
          BY <4>1, MadeIsSole
      <3>2. CASE Maker(k) \notin Todo
        <4>1. Now # Maker(k)
          BY <1>1, <3>2
        <4>2. Sole(k) /\ (k \in Field => req.env[k] = 1)
          BY <1>1, <1>2, <1>12, <3>2 DEF Built
        <4>3. SoleAfter(k)
          BY <1>3, <1>8, <1>12, <4>1, <4>2, SoleStays
        <4>4. k \in Field => req'.env[k] = req.env[k]
          BY <1>1, <1>4, <4>1, CallRecord DEF Clears
        <4> QED
          BY <4>2, <4>3, <4>4
      <3> QED
        BY <3>1, <3>2
    <2> QED
      BY <1>1, <1>12, <2>0, <2>1, <2>2 DEF BuiltAfter
  <1> QED
    BY <1>1, <1>10, <1>11, <1>12, OwnFacts

LEMMA NotDoneYet ==
    ASSUME NEW s \in 1..8, \A f \in Own[s] : stored[f] = 0
    PROVE  ~IsAlreadyDone(s, stored)
  <1> USE DEF IsAlreadyDone, Vpc, Rds, Ec2, S3, Identity, Config, Health, Registry
  <1>1. CASE s = Vpc
    <2>1. "vpc" \in Own[s]
      BY <1>1 DEF Own
    <2>2. stored["vpc"] = 0
      BY <2>1
    <2> QED
      BY <1>1, <2>2
  <1>2. CASE s = Rds
    <2>1. "db" \in Own[s]
      BY <1>2 DEF Own
    <2>2. stored["db"] = 0
      BY <2>1
    <2> QED
      BY <1>2, <2>2
  <1>3. CASE s = Ec2
    <2>1. "instance" \in Own[s]
      BY <1>3 DEF Own
    <2>2. stored["instance"] = 0
      BY <2>1
    <2> QED
      BY <1>3, <2>2
  <1>4. CASE s = S3
    <2>1. "bucket" \in Own[s]
      BY <1>4 DEF Own
    <2>2. stored["bucket"] = 0
      BY <2>1
    <2> QED
      BY <1>4, <2>2
  <1>5. CASE s = Identity
    <2>1. "policy" \in Own[s]
      BY <1>5 DEF Own
    <2>2. stored["policy"] = 0
      BY <2>1
    <2> QED
      BY <1>5, <2>2
  <1>6. CASE s = Config
    <2>1. "file" \in Own[s]
      BY <1>6 DEF Own
    <2>2. stored["file"] = 0
      BY <2>1
    <2> QED
      BY <1>6, <2>2
  <1>7. CASE s = Health
    BY <1>7
  <1>8. CASE s = Registry
    <2>1. "status" \in Own[s]
      BY <1>8 DEF Own
    <2>2. stored["status"] = 0
      BY <2>1
    <2> QED
      BY <1>8, <2>2
  <1> HIDE DEF IsAlreadyDone
  <1> QED
    BY <1>1, <1>2, <1>3, <1>4, <1>5, <1>6, <1>7, <1>8

\* What the step has still to make, at its first call.
LEMMA BuiltBegins ==
    ASSUME NamedInv, CalmForwardInv, Undisturbed, Running, CallStep, NEW k \in Kind
    PROVE  BuiltAfter(k)
  <1> USE NamedTypeFacts
  <1>1. /\ ~Serving /\ Serving' /\ cur \in 1..8 /\ cur' = cur /\ req'.env = stored
        /\ IF IsAlreadyDone(cur, stored) THEN req'.todo = <<>> ELSE req'.todo = Execution[cur]
        /\ stored' = stored /\ account' = account
    BY RequestBegins
  <1>2. Built(k)
    BY CalmForward
  <1>3. account' \in Accounts /\ Stays(k) /\ Len(account'[k]) = Len(account[k])
    BY CalmAccount
  <1>4. ASSUME StepOf(k) = cur PROVE account'[k] = <<>> /\ Maker(k) \in Todo'
    <2>1. account[k] = <<>> /\ \A f \in Own[cur] : stored[f] = 0
      BY <1>1, <1>2, <1>4 DEF Built
    <2>2. req'.todo = Execution[cur]
      BY <1>1, <2>1, NotDoneYet
    <2>3. Maker(k) \in Range(Execution[cur])
      BY <1>1, <1>4, ExecutionDoes, OwnFacts DEF Maker
    <2>4. Todo' = Range(req'.todo)
      BY DEF Todo
    <2> QED
      BY <1>1, <2>1, <2>2, <2>3, <2>4
  <1>5. StepOf(k) < cur => SoleAfter(k) /\ (k \in Field => stored'[k] = 1)
    BY <1>1, <1>2, <1>3, SoleStays DEF Built
  <1>6. StepOf(k) > cur => account'[k] = <<>>
    BY <1>1, <1>2 DEF Built
  <1> QED
    BY <1>1, <1>4, <1>5, <1>6 DEF BuiltAfter

\* The step has made what it had to, when it returns.
LEMMA BuiltReturns ==
    ASSUME DoneCore, CalmForwardInv, Undisturbed, Running, Running', StepReturns, NEW k \in Kind
    PROVE  BuiltAfter(k)
  <1>0. NamedInv
    BY DEF DoneCore
  <1>1. /\ Serving /\ ~Serving' /\ Todo = {} /\ cur \in 1..7 /\ cur' = cur + 1
        /\ stored' = stored /\ account' = account
    BY <1>0, NamedTypeFacts, RequestReturns DEF Running, Undo
  <1>2. Built(k) /\ StepOf(k) \in 1..6
    BY <1>1, CalmForward, OwnFacts
  <1>3. req.env = stored
    BY <1>1 DEF DoneCore, DoingInv
  <1>4. ASSUME StepOf(k) < cur' PROVE SoleAfter(k) /\ (k \in Field => stored'[k] = 1)
    <2>1. StepOf(k) < cur \/ StepOf(k) = cur
      BY <1>1, <1>2, <1>4
    <2>2. Sole(k) /\ (k \in Field => stored[k] = 1)
      BY <1>1, <1>2, <1>3, <2>1 DEF Built
    <2> QED
      BY <1>1, <2>2 DEF Sole, SoleAfter
  <1>5. ASSUME StepOf(k) = cur' \/ StepOf(k) > cur' PROVE account'[k] = <<>>
    <2>1. StepOf(k) > cur
      BY <1>1, <1>2, <1>5
    <2> QED
      BY <1>1, <1>2, <2>1 DEF Built
  <1>6. \A f \in Own[cur'] : stored'[f] = 0
    BY <1>1 DEF DoneCore, AheadInv
  <1> QED
    BY <1>1, <1>4, <1>5, <1>6 DEF BuiltAfter

LEMMA BuiltAside ==
    ASSUME NamedInv, CalmForwardInv, Undisturbed, Running, NEW k \in Kind,
           \/ Aside /\ (account' = account \/ \E j \in SlowToCome : Settle(j))
           \/ CallRefused /\ Running'
    PROVE  BuiltAfter(k)
  <1> USE NamedTypeFacts
  <1>1. /\ account' \in Accounts /\ Stays(k) /\ Len(account'[k]) = Len(account[k])
        /\ stored' = stored
    BY CalmAccount
  <1>2. Built(k)
    BY CalmForward
  <1>3. Sole(k) => SoleAfter(k)
    BY <1>1, SoleStays
  <1>4. account[k] = <<>> => account'[k] = <<>>
    BY <1>1, EmptyStays
  <1>5. CASE Aside
    <2>1. cur' = cur /\ (Serving' <=> Serving) /\ Todo' = Todo /\ req' = req
      BY <1>5 DEF Aside, sagaVars, Serving, Todo
    <2> QED
      BY <1>1, <1>2, <1>3, <1>4, <2>1 DEF Built, BuiltAfter
  <1>6. CASE CallRefused /\ Running'
    <2>1. cur = Health
      BY <1>6, ForwardRefusal
    <2>2. cur' = cur /\ ~Serving'
      BY <1>6, <2>1, RequestFails DEF Fails, Running, Undo, Health
    <2>3. StepOf(k) < cur /\ ~(StepOf(k) > cur) /\ StepOf(k) # cur
      BY <2>1, OwnFacts DEF Health
    <2> QED
      BY <1>1, <1>2, <1>3, <2>2, <2>3 DEF Built, BuiltAfter
  <1> QED
    BY <1>5, <1>6

LEMMA CalmForwardStep ==
    ASSUME RollbackInv, [Next]_vars
    PROVE  CalmForwardInv'
  <1>1. DoneInv /\ NamedInv /\ CalmForwardInv
    BY DEF RollbackInv, StrayInv, DoneInv
  <1> USE <1>1, NamedTypeFacts
  <1>2. SUFFICES ASSUME Undisturbed', Running'
                 PROVE  /\ \A k \in Kind : BuiltAfter(k)
                        /\ Serving' => NoneAfter(req'.todo, Maker("object"), Maker("object"))
    BY CalmForward
  <1>3. /\ Undisturbed
        /\ \/ CallStep \/ CallSucceeds \/ CallRefused \/ StepReturns
           \/ Aside /\ (account' = account \/ \E k \in SlowToCome : Settle(k))
           \/ Marks /\ saga = "failed"
    BY <1>2, CalmCases
  <1>4. CASE CallStep
    <2>1. /\ Running /\ cur \in 1..8
          /\ req'.todo = <<>> \/ req'.todo = Execution[cur]
      BY <1>2, <1>4, RequestBegins DEF Running, Undo
    <2>2. NoneAfter(<<>>, Maker("object"), Maker("object"))
      BY DEF NoneAfter
    <2> QED
      BY <1>3, <1>4, <2>1, <2>2, BuiltBegins, ExecutionUploadsOnce
  <1>5. CASE CallSucceeds
    <2>1. /\ Running /\ Serving
          /\ req.todo \in Seq(Op) /\ req.todo # <<>> /\ req'.todo = Tail(req.todo)
      BY <1>2, <1>5, CallFacts DEF Running, Undo
    <2>2. NoneAfter(req.todo, Maker("object"), Maker("object"))
      BY <1>3, <2>1, CalmForward
    <2> QED
      BY <1>3, <1>5, <2>1, <2>2, BuiltCall, NoneAfterTail
  <1>6. CASE CallRefused
    <2>1. Running /\ ~Serving'
      BY <1>2, <1>6, RequestFails DEF Fails, Running, Undo
    <2> QED
      BY <1>2, <1>3, <1>6, <2>1, BuiltAside
  <1>7. CASE StepReturns
    <2>1. Running /\ ~Serving'
      BY <1>2, <1>7, RequestReturns DEF Running, Undo
    <2> QED
      BY <1>2, <1>3, <1>7, <2>1, CalmUnbroken, DoneCores, BuiltReturns
  <1>8. CASE Aside /\ (account' = account \/ \E k \in SlowToCome : Settle(k))
    <2>1. Running /\ (Serving' => Serving) /\ req' = req
      BY <1>2, <1>8 DEF Aside, sagaVars, Running, Serving
    <2> QED
      BY <1>3, <1>8, <2>1, BuiltAside, CalmForward
  <1>9. CASE Marks /\ saga = "failed"
    BY <1>2, <1>9 DEF Marks, sagaVars, Running
  <1> QED
    BY <1>3, <1>4, <1>5, <1>6, <1>7, <1>8, <1>9

\* What the next call of a compensation does.
LEMMA WhichUndo ==
    ASSUME NamedInv, CallSucceeds, Undo
    PROVE  /\ \A k : Now = Delete(k) => Deletes(k)
           /\ \A k : Now = AwaitGone(k) => Goes(k)
           /\ Now.do = "clear" => Clears(Now.on)
  <1>1. Calling
    BY NamedTypeFacts, CallCases
  <1>2. ASSUME NEW k, Now = Delete(k) PROVE Deletes(k)
    <2>1. Now.do = "delete" /\ Now.on = k
      BY <1>2, Verbs
    <2>2. ASSUME NEW j, Deletes(j) PROVE Deletes(k)
      <3>1. Now.on = j
        BY <2>2, Verbs DEF Deletes
      <3> QED
        BY <2>1, <2>2, <3>1
    <2>3. \E j \in Kind : Deletes(j)
      BY <1>1, <2>1, CallVerbs DEF Calling
    <2> QED
      BY <2>2, <2>3
  <1>3. ASSUME NEW k, Now = AwaitGone(k) PROVE Goes(k)
    <2>1. Now.do = "awaitGone" /\ Now.on = k
      BY <1>3, Verbs
    <2>2. ASSUME NEW j, Goes(j) PROVE Goes(k)
      <3>1. Now.on = j
        BY <2>2, Verbs DEF Goes
      <3> QED
        BY <2>1, <2>2, <3>1
    <2>3. \E j \in Kind : Goes(j)
      BY <1>1, <2>1, CallVerbs DEF Calling
    <2> QED
      BY <2>2, <2>3
  <1>4. ASSUME Now.do = "clear" PROVE Clears(Now.on)
    <2>1. ASSUME NEW fs, Clears(fs) PROVE Clears(Now.on)
      <3>1. Now.on = fs
        BY <2>1, Verbs DEF Clears
      <3> QED
        BY <2>1, <3>1
    <2>2. \E fs \in SUBSET Field : Clears(fs)
      BY <1>1, <1>4, CallVerbs DEF Calling
    <2> QED
      BY <2>1, <2>2
  <1> QED
    BY <1>2, <1>3, <1>4

\* A compensation, at its first call, has all of its step still to delete.
LEMMA RazedBegins ==
    ASSUME NamedInv, CalmBackwardInv, Undisturbed, Undo, CallStep, NEW k \in Kind
    PROVE  RazedAfter(k)
  <1> USE NamedTypeFacts
  <1>1. /\ ~Serving /\ Serving' /\ cur \in 1..7 /\ cur' = cur /\ req'.env = stored
        /\ Undoes(cur, stored, req'.todo) /\ Todo' = Range(req'.todo)
        /\ stored' = stored /\ account' = account
    BY RequestBegins DEF Todo
  <1>2. \A j \in Kind : Razed(j)
    BY CalmBackward
  <1>3. Sole(k) => SoleAfter(k)
    BY <1>1 DEF Sole, SoleAfter
  <1>4. Nothing(k) => NothingAfter(k)
    BY <1>1 DEF Nothing, NothingAfter
  <1>5. ASSUME StepOf(k) = cur PROVE ToDeleteAfter(k)
    <2>1. \A j \in Kind : StepOf(j) = cur => Sole(j) /\ (j \in Field => stored[j] = 1)
      BY <1>1, <1>2 DEF Razed
    <2>2. ASSUME NEW j \in Kind \cap Field, StepOf(j) = cur
          PROVE  Delete(j) \in Todo' /\ (j \in SlowToGo => AwaitGone(j) \in Todo')
      <3>1. j \in Own[cur] \cap Kind /\ stored[j] # 0
        BY <2>1, <2>2, OwnFacts
      <3> QED
        BY <1>1, <3>1 DEF Undoes
    <2>3. CASE k \in Field
      <3>1. k # "object"
        BY <2>3, OwnFacts
      <3> QED
        BY <1>1, <1>3, <1>5, <2>1, <2>2, <2>3, <3>1 DEF ToDeleteAfter
    <2>4. CASE k = "object"
      <3>1. "bucket" \in Kind \cap Field /\ StepOf("bucket") = cur /\ cur = S3
              /\ "object" \notin SlowToGo /\ "object" \notin Field
        BY <1>5, <2>4, OwnFacts DEF Kind, Field, StepOf, SlowToGo
      <3>2. stored["bucket"] = 1
        BY <2>1, <3>1
      <3>3. Delete("object") \in Todo'
        BY <1>1, <3>1, <3>2 DEF Undoes
      <3>4. Delete("bucket") \in Todo'
        BY <2>2, <3>1
      <3> QED
        BY <1>3, <1>5, <2>1, <2>4, <3>1, <3>3, <3>4 DEF ToDeleteAfter
    <2> QED
      BY <2>3, <2>4, OwnFacts
  <1> QED
    BY <1>1, <1>2, <1>3, <1>4, <1>5 DEF Razed, RazedAfter

\* Its calls delete that, piece by piece.
LEMMA RazedCall ==
    ASSUME NamedInv, CalmBackwardInv, Undisturbed, Undo, CallSucceeds, NEW k \in Kind
    PROVE  RazedAfter(k)
  <1> USE NamedTypeFacts
  <1> DEFINE t == req.todo
  <1>1. /\ Serving /\ Serving' /\ cur \in 1..7 /\ cur' = cur /\ ~Running
        /\ t \in Seq(Op) /\ t # <<>> /\ Now = Head(t) /\ req'.todo = Tail(t)
        /\ Todo = {Now} \cup Todo'
    BY CallFacts DEF Serving, Running, Undo, Now
  <1>2. Todo' = Range(Tail(t))
    BY <1>1 DEF Todo
  <1>3. Razed(k) /\ Orderly(t) /\ BackwardOrder(cur, t)
    BY <1>1, CalmBackward, CallAhead
  <1>4. \A d \in Todo' : Before(Now, d)
    BY <1>1, <1>2, <1>3, OrderlyTail
  <1>5. Deletes(k) => StepOf(k) = cur /\ Now = Delete(k)
    BY <1>1, OwnFacts DEF Deletes
  <1>6. /\ account' \in Accounts /\ Persists(k) /\ Len(account'[k]) = Len(account[k])
        /\ ~Deletes(k) => Stays(k)
    BY CallKeeps, UndoCall DEF AccountKept
  <1>7. Nothing(k) => NothingAfter(k)
    BY <1>6, NothingStays
  <1>8. Sole(k) /\ ~Deletes(k) => SoleAfter(k)
    BY <1>6, SoleStays
  <1>9. ASSUME Delete(k) \in Todo' \/ AwaitGone(k) \in Todo', k \in Field
        PROVE  req'.env[k] = req.env[k]
    <2>1. ASSUME NEW fs, Clears(fs), k \in fs PROVE FALSE
      <3>1. Now.do = "clear" /\ k \in Now.on
        BY <2>1, Verbs DEF Clears
      <3> QED
        BY <1>4, <1>9, <3>1 DEF Before
    <2> QED
      BY <1>1, <1>9, <2>1, CallRecord DEF Creates, Sets
  <1>10. ASSUME StepOf(k) < cur PROVE SoleAfter(k) /\ (k \in Field => stored'[k] = 1)
    <2>1. k \notin Own[cur] /\ StepOf(k) # cur
      BY <1>1, <1>10, OwnFacts
    <2>2. Sole(k) /\ (k \in Field => stored[k] = 1)
      BY <1>3, <1>10 DEF Razed
    <2>3. k \in Field => stored'[k] = stored[k]
      <3>1. k \in Field => req.env[k] = stored[k]
        BY <1>1, <2>1, CalmUnbroken DEF NamedInv, CopyInv
      <3> QED
        BY <3>1, CallRecord
    <2> QED
      BY <1>5, <1>8, <2>1, <2>2, <2>3
  <1>11. ASSUME StepOf(k) = cur, ToDelete(k), Now = Delete(k) PROVE DeletedAfter(k)
    <2>1. Sole(k) /\ (k \in Field => req.env[k] = 1) /\ Deletes(k)
      BY <1>11, WhichUndo DEF ToDelete
    <2>2. Delete(k) \notin Todo'
      BY <1>4, <1>11 DEF Before
    <2>3. Alive(k) = {1} /\ Target(k, 1) = {1} /\ DOMAIN account[k] = {1}
            /\ Len(account[k]) = 1
      BY <2>1, SoleFacts DEF Target
    <2>4. DeleteResource(k, 1) /\ req'.env = req.env
      <3>1. k \in Own[cur] => k \in Field
        BY <1>1, OwnFacts
      <3> QED
        BY <2>1, <3>1 DEF Deletes
    <2>5. CASE k \in SlowToGo
      <3>1. AwaitGone(k) \in Todo'
        BY <1>1, <1>11, <2>5, Verbs DEF ToDelete
      <3>2. k \in Field
        BY <2>5 DEF SlowToGo, Field, Kind
      <3>3. req'.env[k] = 1 /\ Len(account'[k]) = 1
        BY <1>6, <2>1, <2>3, <2>4, <3>2
      <3> QED
        BY <2>2, <3>1, <3>3 DEF DeletedAfter
    <2>6. CASE k \notin SlowToGo
      <3>1. Becomes(k, {1}, "gone")
        BY <2>3, <2>4, <2>6 DEF DeleteResource
      <3>2. NothingAfter(k)
        BY <2>3, <3>1, BecomesFacts DEF NothingAfter
      <3> QED
        BY <2>2, <3>2 DEF DeletedAfter
    <2> QED
      BY <2>5, <2>6
  <1>12. ASSUME StepOf(k) = cur, ToDelete(k), Now # Delete(k) PROVE ToDeleteAfter(k)
    <2>1. Sole(k) /\ (k \in Field => req.env[k] = 1) /\ Delete(k) \in Todo'
      BY <1>1, <1>12 DEF ToDelete
    <2>2. SoleAfter(k) /\ (k \in Field => req'.env[k] = 1)
      BY <1>5, <1>8, <1>9, <1>12, <2>1
    <2>3. ASSUME k \in SlowToGo PROVE AwaitGone(k) \in Todo'
      <3>1. AwaitGone(k) \in Todo /\ k \in Field
        BY <1>12, <2>3 DEF ToDelete, SlowToGo, Field, Kind
      <3>2. ASSUME Now = AwaitGone(k) PROVE FALSE
        <4>1. HasGone(k, 1)
          BY <2>1, <3>1, <3>2, WhichUndo DEF Goes
        <4>2. Target(k, 1) = {1}
          BY <2>1, SoleFacts DEF Target
        <4> QED
          BY <4>1, <4>2 DEF HasGone
      <3> QED
        BY <1>1, <3>1, <3>2
    <2>4. ASSUME k = "object" PROVE Delete("bucket") \in Todo'
      <3>1. Delete("bucket") \in Todo /\ cur = S3
        BY <1>12, <2>4, OwnFacts DEF ToDelete
      <3>2. Now # Delete("bucket")
        BY <1>1, <1>2, <1>3, <2>1, <2>4, <3>1, BackwardTail
      <3> QED
        BY <1>1, <3>1, <3>2
    <2> QED
      BY <2>1, <2>2, <2>3, <2>4 DEF ToDeleteAfter
  <1>13. ASSUME StepOf(k) = cur, Deleted(k) PROVE DeletedAfter(k)
    <2>1. Delete(k) \notin Todo'
      BY <1>1, <1>13 DEF Deleted
    <2>2. CASE Nothing(k)
      BY <1>7, <2>1, <2>2 DEF DeletedAfter
    <2>3. CASE AwaitGone(k) \in Todo /\ Len(account[k]) = 1 /\ req.env[k] = 1
      <3>1. k \in Field
        BY <1>1, <2>3, UndoKinds DEF Field, Kind
      <3>2. CASE Now = AwaitGone(k)
        <4>1. HasGone(k, 1) /\ account' = account
          BY <2>3, <3>2, WhichUndo DEF Goes, Quiet
        <4>2. DOMAIN account[k] = {1}
          BY <2>3, AccountSeq
        <4>3. Alive(k) = {}
          BY <4>1, <4>2 DEF HasGone, Target, Alive
        <4>4. NothingAfter(k)
          BY <1>7, <4>3, NothingIsNothing
        <4> QED
          BY <2>1, <4>4 DEF DeletedAfter
      <3>3. CASE Now # AwaitGone(k)
        <4>1. AwaitGone(k) \in Todo'
          BY <1>1, <2>3, <3>3
        <4>2. req'.env[k] = 1 /\ Len(account'[k]) = 1
          BY <1>6, <1>9, <2>3, <3>1, <4>1
        <4> QED
          BY <2>1, <4>1, <4>2 DEF DeletedAfter
      <3> QED
        BY <3>2, <3>3
    <2> QED
      BY <1>13, <2>2, <2>3 DEF Deleted
  <1>14. ASSUME StepOf(k) = cur PROVE ToDeleteAfter(k) \/ DeletedAfter(k)
    BY <1>1, <1>3, <1>11, <1>12, <1>13, <1>14 DEF Razed
  <1>15. StepOf(k) > cur => NothingAfter(k)
    BY <1>3, <1>7 DEF Razed
  <1> QED
    BY <1>1, <1>10, <1>14, <1>15 DEF RazedAfter

LEMMA StruckCall ==
    ASSUME NamedInv, CalmBackwardInv, Undisturbed, Undo, CallSucceeds, NEW f \in Own[cur]
    PROVE  StruckAfter(f)
  <1> USE NamedTypeFacts
  <1> DEFINE t == req.todo
  <1>1. /\ Serving /\ cur \in 1..7 /\ ~Running
        /\ t \in Seq(Op) /\ t # <<>> /\ Now = Head(t) /\ req'.todo = Tail(t)
        /\ Todo = {Now} \cup Todo'
    BY CallFacts DEF Running, Undo, Now
  <1>2. Todo' = Range(Tail(t)) /\ f \in Field
    BY <1>1, OwnFacts DEF Todo
  <1>3. Struck(f) /\ BackwardOrder(cur, t)
    BY <1>1, CalmBackward, CallAhead
  <1>4. stored'[f] = 0 \/ Put \in Todo'
    <2>1. CASE Now = Put
      <3>1. Tail(t) = <<>>
        BY <1>1, <1>3, <2>1, BackwardTail
      <3>2. Todo' = {}
        BY <1>2, <3>1 DEF Range
      <3>3. \A c \in Todo : c.do # "clear"
        BY <1>1, <2>1, <3>2, Verbs
      <3>4. req.env[f] = 0
        BY <1>3, <3>3 DEF Struck
      <3>5. stored' = req.env
        BY <2>1, WhichCall DEF Puts
      <3> QED
        BY <3>4, <3>5
    <2>2. CASE Now # Put
      <3>1. stored' = stored
        BY <2>2, CallRecord DEF Puts
      <3> QED
        BY <1>1, <1>3, <2>2, <3>1 DEF Struck
    <2> QED
      BY <2>1, <2>2
  <1>5. req'.env[f] = 0 \/ \E c \in Todo' : c.do = "clear" /\ f \in c.on
    <2>1. CASE req.env[f] = 0
      BY <1>1, <1>2, <2>1, CallRecord DEF Creates, Sets
    <2>2. CASE Now.do = "clear" /\ f \in Now.on
      <3>1. Clears(Now.on)
        BY <2>2, WhichUndo
      <3> QED
        BY <1>2, <2>2, <3>1 DEF Clears
    <2>3. CASE \E c \in Todo' : c.do = "clear" /\ f \in c.on
      BY <2>3
    <2> QED
      BY <1>1, <1>3, <2>1, <2>2, <2>3 DEF Struck
  <1> QED
    BY <1>4, <1>5 DEF StruckAfter

\* Nothing is left of the step, when its compensation returns.
LEMMA RazedReturns ==
    ASSUME NamedInv, CalmBackwardInv, Undisturbed, Undo, StepReturns, NEW k \in Kind
    PROVE  RazedAfter(k) /\ (StepOf(k) >= cur => NothingAfter(k))
  <1> USE NamedTypeFacts
  <1>1. /\ Serving /\ ~Serving' /\ Todo = {} /\ cur \in 1..7 /\ cur' = cur - 1
        /\ stored' = stored /\ account' = account
    BY RequestReturns DEF Running, Undo
  <1>2. Razed(k) /\ StepOf(k) \in 1..6
    BY <1>1, CalmBackward, OwnFacts
  <1>3. Sole(k) => SoleAfter(k)
    BY <1>1 DEF Sole, SoleAfter
  <1>4. Nothing(k) => NothingAfter(k)
    BY <1>1 DEF Nothing, NothingAfter
  <1>5. ASSUME StepOf(k) >= cur PROVE NothingAfter(k)
    <2>1. CASE StepOf(k) = cur
      BY <1>1, <1>2, <1>4, <2>1 DEF Razed, ToDelete, Deleted
    <2>2. CASE StepOf(k) > cur
      BY <1>2, <1>4, <2>2 DEF Razed
    <2> QED
      BY <1>1, <1>2, <1>5, <2>1, <2>2
  <1>6. ASSUME StepOf(k) <= cur' PROVE SoleAfter(k) /\ (k \in Field => stored'[k] = 1)
    <2>1. StepOf(k) < cur
      BY <1>1, <1>2, <1>6
    <2> QED
      BY <1>1, <1>2, <1>3, <2>1 DEF Razed
  <1>7. StepOf(k) > cur' => StepOf(k) >= cur
    BY <1>1, <1>2
  <1> QED
    BY <1>1, <1>2, <1>5, <1>6, <1>7 DEF RazedAfter

\* A rollback begins with all that the saga has made still there.
LEMMA RazedAtFirst ==
    ASSUME NamedInv, CalmForwardInv, Undisturbed, Running, CallRefused, Undo'
    PROVE  /\ ~Serving' /\ cur = Health /\ cur' = cur - 1 /\ failedStep' = Health
           /\ stored' = stored
           /\ \A k \in Kind : RazedAfter(k)
  <1> USE NamedTypeFacts
  <1>1. cur = Health
    BY ForwardRefusal
  <1>2. ~Serving' /\ cur' = cur - 1 /\ failedStep' = cur /\ stored' = stored
    BY RequestFails DEF Fails, Running, Undo
  <1>3. ASSUME NEW k \in Kind PROVE RazedAfter(k)
    <2>1. StepOf(k) < cur /\ ~(StepOf(k) > cur')
      BY <1>1, <1>2, OwnFacts DEF Health
    <2>2. Sole(k) /\ (k \in Field => stored[k] = 1)
      BY <2>1, CalmForward DEF Built
    <2>3. SoleAfter(k)
      BY <2>2, CalmAccount, SoleStays
    <2> QED
      BY <1>2, <2>1, <2>2, <2>3 DEF RazedAfter
  <1> QED
    BY <1>1, <1>2, <1>3

LEMMA RazedAside ==
    ASSUME NamedInv, CalmBackwardInv, Undisturbed, Undo, NEW k \in Kind,
           Aside, account' = account \/ \E j \in SlowToCome : Settle(j)
    PROVE  RazedAfter(k)
  <1> USE NamedTypeFacts
  <1>1. /\ account' \in Accounts /\ Stays(k) /\ Persists(k)
        /\ Len(account'[k]) = Len(account[k]) /\ stored' = stored
    BY CalmAccount
  <1>2. Razed(k)
    BY CalmBackward
  <1>3. (Sole(k) => SoleAfter(k)) /\ (Nothing(k) => NothingAfter(k))
    BY <1>1, SoleStays, NothingStays
  <1>4. cur' = cur /\ (Serving' <=> Serving) /\ Todo' = Todo /\ req' = req
    BY DEF Aside, sagaVars, Serving, Todo
  <1>5. (ToDelete(k) => ToDeleteAfter(k)) /\ (Deleted(k) => DeletedAfter(k))
    BY <1>1, <1>3, <1>4 DEF ToDelete, ToDeleteAfter, Deleted, DeletedAfter
  <1> QED
    BY <1>1, <1>2, <1>3, <1>4, <1>5 DEF Razed, RazedAfter

LEMMA CalmBackwardStep ==
    ASSUME RollbackInv, [Next]_vars
    PROVE  CalmBackwardInv'
  <1>1. DoneInv /\ NamedInv /\ CalmForwardInv /\ CalmBackwardInv /\ CalmInv
    BY DEF RollbackInv, StrayInv, DoneInv
  <1> USE <1>1, NamedTypeFacts
  <1>2. SUFFICES ASSUME Undisturbed', Undo'
                 PROVE  /\ \A k \in Kind : RazedAfter(k)
                        /\ \A s \in (cur' + 1)..8 : \A f \in Own[s] : stored'[f] = 0
                        /\ Serving' => /\ Orderly(req'.todo)
                                       /\ \A f \in Own[cur'] : StruckAfter(f)
    BY CalmBackward
  <1>3. /\ Undisturbed
        /\ \/ CallStep \/ CallSucceeds \/ CallRefused \/ StepReturns
           \/ Aside /\ (account' = account \/ \E k \in SlowToCome : Settle(k))
           \/ Marks /\ saga = "failed"
    BY <1>2, CalmCases
  <1>4. ASSUME Undo
        PROVE  /\ \A k \in Kind : Razed(k)
               /\ \A s \in (cur + 1)..8 : \A f \in Own[s] : stored[f] = 0
               /\ Serving => Orderly(req.todo) /\ \A f \in Own[cur] : Struck(f)
               /\ cur \in 1..6 /\ ~Running
    <2>1. failedStep = Health /\ cur \in 1..7 /\ cur < failedStep
      BY <1>3, <1>4 DEF CalmInv, SagaInv, Undo, Running
    <2> QED
      BY <1>3, <1>4, <2>1, CalmBackward DEF Health, Undo, Running
  <1>5. CASE CallStep
    <2>1. /\ Undo /\ ~Serving /\ cur' = cur /\ stored' = stored /\ req'.env = stored
          /\ req'.todo = Compensation(cur, stored) /\ Todo' = Range(req'.todo)
      BY <1>2, <1>5, RequestBegins DEF Running, Undo, Todo
    <2>2. \A k \in Own[cur] \cap Kind : stored[k] # 0
      <3> SUFFICES ASSUME NEW k \in Own[cur] \cap Kind PROVE stored[k] # 0
        OBVIOUS
      <3>1. StepOf(k) = cur /\ k \in Field
        BY <1>4, <2>1, OwnFacts
      <3>2. stored[k] = 1
        BY <1>4, <2>1, <3>1 DEF Razed
      <3> QED
        BY <3>2
    <2>3. Orderly(req'.todo)
      BY <1>4, <2>1, CompensationOrderly
    <2>4. \A f \in Own[cur] : StruckAfter(f)
      BY <1>4, <2>1, <2>2, CompensationClears DEF StruckAfter
    <2> QED
      BY <1>3, <1>4, <1>5, <2>1, <2>3, <2>4, RazedBegins
  <1>6. CASE CallSucceeds
    <2>1. /\ Undo /\ Serving /\ cur' = cur /\ req'.todo = Tail(req.todo)
          /\ req.todo \in Seq(Op) /\ req.todo # <<>>
      BY <1>2, <1>6, CallFacts DEF Running, Undo
    <2>2. ASSUME NEW s \in (cur' + 1)..8, NEW f \in Own[s] PROVE stored'[f] = 0
      <3>1. stored[f] = 0 /\ s \in 1..8 /\ s # cur
        BY <1>4, <2>1, <2>2
      <3>2. f \in Field /\ f \notin Own[cur]
        BY <1>4, <2>1, <2>2, <3>1, OwnFacts
      <3>3. req.env[f] = stored[f]
        BY <1>3, <2>1, <3>2, CalmUnbroken DEF NamedInv, CopyInv
      <3> QED
        BY <1>6, <3>1, <3>3, CallRecord
    <2>3. Orderly(req'.todo)
      BY <1>4, <2>1, OrderlyTail
    <2> QED
      BY <1>3, <1>6, <2>1, <2>2, <2>3, RazedCall, StruckCall
  <1>7. CASE CallRefused
    <2>1. Running
      <3>1. Running \/ Undo
        BY <1>7, RequestFails DEF Fails, SagaInv, Running, Undo
      <3> QED
        BY <1>3, <1>7, <3>1, BackwardRefusal
    <2>2. ~Serving' /\ cur = 7 /\ cur' = 6 /\ stored' = stored /\ \A k \in Kind : RazedAfter(k)
      BY <1>2, <1>3, <1>7, <2>1, RazedAtFirst DEF Health
    <2>3. ASSUME NEW s \in (cur' + 1)..8, NEW f \in Own[s] PROVE stored'[f] = 0
      <3>1. CASE s = 7
        BY <2>3, <3>1 DEF Own
      <3>2. CASE s = 8
        BY <1>3, <2>1, <2>2, <2>3, <3>2, CalmUnbroken DEF DoneInv, AheadInv
      <3> QED
        BY <2>2, <2>3, <3>1, <3>2
    <2> QED
      BY <2>2, <2>3
  <1>8. CASE StepReturns
    <2>1. Undo /\ Serving /\ ~Serving' /\ cur' = cur - 1 /\ stored' = stored /\ Todo = {}
      BY <1>2, <1>8, RequestReturns DEF Running, Undo
    <2>2. ASSUME NEW s \in (cur' + 1)..8, NEW f \in Own[s] PROVE stored'[f] = 0
      <3>1. CASE s = cur
        BY <1>4, <2>1, <2>2, <3>1 DEF Struck
      <3>2. CASE s \in (cur + 1)..8
        BY <1>4, <2>1, <2>2, <3>2
      <3> QED
        BY <1>4, <2>1, <2>2, <3>1, <3>2
    <2> QED
      BY <1>3, <1>8, <2>1, <2>2, RazedReturns
  <1>9. CASE Aside /\ (account' = account \/ \E k \in SlowToCome : Settle(k))
    <2>1. Undo /\ (Serving' => Serving) /\ req' = req /\ cur' = cur /\ stored' = stored
            /\ Todo' = Todo
      BY <1>2, <1>9 DEF Aside, sagaVars, Undo, Serving, Todo
    <2> QED
      BY <1>3, <1>4, <1>9, <2>1, RazedAside DEF Struck, StruckAfter
  <1>10. CASE Marks /\ saga = "failed"
    BY <1>2, <1>10 DEF Marks, sagaVars, Undo
  <1> QED
    BY <1>3, <1>5, <1>6, <1>7, <1>8, <1>9, <1>10

LEMMA CalmStep ==
    ASSUME RollbackInv, [Next]_vars
    PROVE  CalmInv'
  <1>1. NamedInv /\ CalmForwardInv /\ CalmBackwardInv /\ CalmInv
    BY DEF RollbackInv, StrayInv, DoneInv
  <1> USE <1>1, NamedTypeFacts
  <1>2. SUFFICES ASSUME Undisturbed'
                 PROVE  /\ saga' # "compensation_failed"
                        /\ saga' \in {"compensating", "failed"} => failedStep' = Health
    BY DEF CalmInv
  <1>3. /\ Undisturbed
        /\ \/ CallStep \/ CallSucceeds \/ CallRefused \/ StepReturns
           \/ Aside /\ (account' = account \/ \E k \in SlowToCome : Settle(k))
           \/ Marks /\ saga = "failed"
    BY <1>2, CalmCases
  <1>4. CASE UNCHANGED <<saga, failedStep>>
    BY <1>3, <1>4 DEF CalmInv
  <1>5. CASE CallStep \/ CallSucceeds \/ (Aside /\ account' = account)
             \/ (Aside /\ \E k \in SlowToCome : Settle(k)) \/ Marks
    BY <1>4, <1>5, RequestBegins, CallFacts DEF Aside, Marks, sagaVars
  <1>6. CASE CallRefused
    <2>1. ~Undo
      BY <1>3, <1>6, BackwardRefusal
    <2>2. Running => cur = Health
      BY <1>3, <1>6, ForwardRefusal
    <2> QED
      BY <1>4, <1>6, <2>1, <2>2, RequestFails DEF Fails, Health
  <1>7. CASE StepReturns
    BY <1>3, <1>7, RequestReturns DEF CalmInv, Running, Undo
  <1> QED
    BY <1>3, <1>5, <1>6, <1>7

\* Every field belongs to a step.
LEMMA FieldsOwned == \A f \in Field : \E s \in 1..8 : f \in Own[s]
  <1> SUFFICES ASSUME NEW f \in Field PROVE \E s \in 1..8 : f \in Own[s]
    OBVIOUS
  <1>1. f \in Own[1] \/ f \in Own[2] \/ f \in Own[3] \/ f \in Own[4] \/ f \in Own[5]
          \/ f \in Own[6] \/ f \in Own[8]
    BY DEF Field, Kind, Own
  <1> QED
    BY <1>1

LEMMA CalmEndStep ==
    ASSUME RollbackInv, [Next]_vars
    PROVE  CalmEndInv'
  <1>1. NamedInv /\ CalmForwardInv /\ CalmBackwardInv /\ CalmInv /\ CalmEndInv
    BY DEF RollbackInv, StrayInv, DoneInv
  <1> USE <1>1, NamedTypeFacts
  <1>2. SUFFICES ASSUME Undisturbed', saga' = "failed"
                 PROVE  stored' = Empty /\ \A k \in Kind : NothingAfter(k)
    BY NothingIsNothing DEF CalmEndInv, Empty
  <1>3. /\ Undisturbed
        /\ \/ CallStep \/ CallSucceeds \/ CallRefused \/ StepReturns
           \/ Aside /\ (account' = account \/ \E k \in SlowToCome : Settle(k))
           \/ Marks /\ saga = "failed"
    BY <1>2, CalmCases
  <1>4. ~CallStep /\ ~CallSucceeds
    BY <1>2, RequestBegins, CallFacts DEF Running, Undo
  <1>5. ~CallRefused
    <2> SUFFICES ASSUME CallRefused PROVE FALSE
      OBVIOUS
    <2>1. Running \/ Undo
      BY RequestFails DEF Fails, SagaInv, Running, Undo
    <2>2. Running /\ cur = 7
      BY <1>3, <2>1, ForwardRefusal, BackwardRefusal DEF Health
    <2> QED
      BY <1>2, <2>2, RequestFails DEF Fails, Running
  <1>6. CASE StepReturns
    <2>1. /\ Undo /\ Serving /\ cur = 1 /\ stored' = stored /\ Todo = {}
      BY <1>2, <1>6, RequestReturns DEF Running, Undo
    <2>2. /\ \A s \in (cur + 1)..8 : \A f \in Own[s] : stored[f] = 0
          /\ \A f \in Own[cur] : Struck(f)
      BY <1>3, <2>1, CalmBackward
    <2>3. \A f \in Field : stored[f] = 0
      <3> SUFFICES ASSUME NEW f \in Field PROVE stored[f] = 0
        OBVIOUS
      <3>1. PICK s \in 1..8 : f \in Own[s]
        BY FieldsOwned
      <3>2. CASE s = 1
        BY <2>1, <2>2, <3>1, <3>2 DEF Struck
      <3>3. CASE s # 1
        BY <2>1, <2>2, <3>1, <3>3
      <3> QED
        BY <3>2, <3>3
    <2>4. stored \in [Field -> Nat]
      BY DEF TypeInv
    <2>5. stored' = Empty
      BY <2>1, <2>3, <2>4 DEF Empty
    <2>6. \A k \in Kind : NothingAfter(k)
      BY <1>3, <1>6, <2>1, RazedReturns, OwnFacts
    <2> QED
      BY <2>5, <2>6
  <1>7. CASE Aside /\ (account' = account \/ \E k \in SlowToCome : Settle(k))
    <2>1. saga = "failed" /\ stored' = stored
      BY <1>2, <1>7 DEF Aside, sagaVars
    <2>2. stored = Empty /\ \A k \in Kind : Nothing(k)
      BY <1>3, <2>1, NothingIsNothing DEF CalmEndInv
    <2>3. \A k \in Kind : NothingAfter(k)
      BY <1>7, <2>2, CalmAccount, NothingStays
    <2> QED
      BY <2>1, <2>2, <2>3
  <1>8. CASE Marks /\ saga = "failed"
    <2>1. stored' = Empty /\ account' = account
      BY <1>8 DEF Marks
    <2>2. \A k \in Kind : Nothing(k)
      BY <1>3, <1>8, NothingIsNothing DEF CalmEndInv
    <2> QED
      BY <2>1, <2>2 DEF Nothing, NothingAfter
  <1> QED
    BY <1>3, <1>4, <1>5, <1>6, <1>7, <1>8

LEMMA RollbackInit == Init => RollbackInv
  <1> SUFFICES ASSUME Init PROVE RollbackInv
    OBVIOUS
  <1>1. saga = "running" /\ cur = Vpc /\ ~Serving /\ stored = [f \in Field |-> 0]
        /\ account = [k \in Kind |-> <<>>]
    BY DEF Init, AccountInit, Serving, Empty
  <1>2. CalmInv /\ CalmBackwardInv /\ CalmEndInv
    BY <1>1 DEF CalmInv, CalmBackwardInv, CalmEndInv, Undo
  <1>3. CalmForwardInv
    <2>1. \A k \in Kind : StepOf(k) \in 1..6 /\ ~(StepOf(k) < Vpc)
      BY OwnFacts DEF Vpc
    <2>2. \A f \in Own[Vpc] : stored[f] = 0
      BY <1>1, OwnFacts DEF Vpc
    <2> QED
      BY <1>1, <2>1, <2>2 DEF CalmForwardInv
  <1> QED
    BY <1>2, <1>3, StrayInit DEF RollbackInv

LEMMA RollbackStep == RollbackInv /\ [Next]_vars => RollbackInv'
  BY StrayStep, CalmStep, CalmForwardStep, CalmBackwardStep, CalmEndStep DEF RollbackInv

(***************************************************************************)
(* As long as nothing fails but the health check, there is one resource of *)
(* each kind that the saga has come to; a rollback then deletes what the   *)
(* steps behind it made, in an order in which no deletion is refused, and  *)
(* strikes it from the record (internal/steps, the Compensate methods).    *)
(***************************************************************************)
THEOREM RollbackInvariance == Spec => []RollbackInv
  BY RollbackInit, RollbackStep, PTL DEF Spec

(***************************************************************************)
(* If nothing but the health check fails, the rollback runs through: it    *)
(* does not end in compensation_failed, and it leaves neither a resource   *)
(* nor an entry of the record.                                             *)
(***************************************************************************)
THEOREM UndisturbedRollsBack == Spec => []UndisturbedRollback
  <1>1. RollbackInv => UndisturbedRollback
    <2> SUFFICES ASSUME RollbackInv, Undisturbed, saga \in Saga!Terminal \ {"completed"}
                 PROVE  saga = "failed" /\ stored = Empty /\ \A k \in Kind : Alive(k) = {}
      BY DEF UndisturbedRollback, Undisturbed
    <2>1. saga \in {"failed", "aborted", "compensation_failed"}
      BY DEF Saga!Terminal
    <2>2. saga # "compensation_failed"
      BY DEF RollbackInv, CalmInv
    <2>3. saga # "aborted"
      BY CalmUnbroken DEF RollbackInv, StrayInv, DoneInv, NamedInv, SagaInv, Running
    <2> QED
      BY <2>1, <2>2, <2>3 DEF RollbackInv, CalmEndInv
  <1> QED
    BY <1>1, RollbackInvariance, PTL
=============================================================================
