---------------------------- MODULE AwsStepsInv ----------------------------
(***************************************************************************)
(* Inductive invariants of AwsSteps: what the proofs rest on, and what TLC *)
(* checks before they are proved.                                          *)
(***************************************************************************)
EXTENDS AwsSteps, Functions

Running == saga = "running"
Undo    == saga = "compensating"

\* What the request has still to do.
Todo == Range(req.todo)

\* The fields of the record that each step sets and clears.
Own == << {"vpc", "pub", "prv", "sg"}, {"db", "endpoint", "password"}, {"instance", "ip"},
          {"bucket"}, {"policy", "entries"}, {"file"}, {}, {"status"} >>

Upper == {"nothing", "placeholder", "config", "object"}

Op == [do : {"create", "configure", "await", "delete", "awaitGone", "other", "set",
             "put", "upload", "hide", "check"},
       on : Field \cup Upper]
        \cup [do : {"clear"}, on : SUBSET Field]

-----------------------------------------------------------------------------
(* The types, and how the saga's variables go together.                    *)

TypeInv ==
    /\ account \in [Kind -> Seq(Resources)]
    /\ config \in [endpoint : Nat, password : Nat]
    /\ stored \in [Field -> Nat]
    /\ req \in [todo : Seq(Op), env : [Field -> Nat]]
    /\ left \in [errors : 0..MaxErrors, restarts : 0..MaxRestarts, breaks : 0..MaxBreaks]
    /\ prov \in {"waiting", "failing", "ended"}
    /\ tries \in Nat
    /\ call \in {"none", "slot"}

SagaInv ==
    /\ \/ Running /\ cur \in 1..8 /\ failedStep = 0
       \/ saga = "completed" /\ cur = 8 /\ failedStep = 0
       \/ saga \in {"compensating", "compensation_failed"}
             /\ cur \in 1..7 /\ failedStep \in 2..8 /\ cur < failedStep
       \/ saga = "failed" /\ cur \in 0..7 /\ failedStep \in 1..8 /\ (Unbroken => cur = 0)
       \/ saga = "aborted" /\ cur \in 1..8 /\ failedStep \in 0..8 /\ ~Unbroken
    /\ Serving => saga \in {"running", "compensating"}
    /\ ~Serving => req = Idle
    /\ Unbroken /\ prov = "failing" => saga = "failed"

-----------------------------------------------------------------------------
(* What is left of a step's program.                                       *)

\* Every c is followed by a d; no d comes after a c.
FollowedBy(t, c, d) ==
    \A i \in DOMAIN t : t[i] = c => \E j \in DOMAIN t : i < j /\ t[j] = d
NoneAfter(t, c, d) ==
    \A i, j \in DOMAIN t : t[i] = c /\ t[j] = d => ~(i < j)

ForwardOp(s, c) ==
    \/ c.do = "create" /\ c.on \in Own[s] \cap Kind
    \/ c.do = "await" /\ c.on \in Own[s] \cap SlowToCome
    \/ c.do = "configure" /\ c.on \in Own[s] \cap Configured
    \/ c.do = "set" /\ c.on \in Own[s] \ Kind
    \/ c = Do("upload", "placeholder") /\ s = S3
    \/ c = Do("upload", "config") /\ s = Config
    \/ c = Do("check", "db") /\ s = Health
    \/ c \in {Other, Put}

BackwardOp(s, c) ==
    \/ c.do = "delete" /\ c.on \in Own[s] \cap Kind
    \/ c = Delete("object") /\ s = S3
    \/ c.do = "awaitGone" /\ c.on \in Own[s] \cap SlowToGo
    \/ c.do = "clear" /\ c.on \subseteq Own[s] /\ ("password" \in c.on => "db" \in c.on)
    \/ c = Do("hide", "object") /\ s = Config
    \/ c \in {Other, Put}

\* The Put comes at the end.
PutLast(t) == \A i \in DOMAIN t : t[i] = Put => i = Len(t)

ForwardOrder(s, t) ==
    /\ \A i \in DOMAIN t : t[i].do \in {"create", "set"} =>
          \E j \in DOMAIN t : i < j /\ t[j] = Put
    /\ \A k \in SlowToCome : FollowedBy(t, Create(k), Await(k))
    /\ \A k \in Configured : FollowedBy(t, Create(k), Configure(k))
    /\ \A i \in DOMAIN t : t[i] = Set("password") =>
          i + 1 \in DOMAIN t /\ t[i + 1] = Create("db")
    /\ s \notin {Rds, Ec2} => PutLast(t)
    /\ NoneAfter(t, Do("upload", "placeholder"), Create("bucket"))
    /\ \A k \in Kind : NoneAfter(t, Create(k), Create(k))

BackwardOrder(s, t) ==
    /\ PutLast(t)
    /\ s = Vpc => /\ \A i, j \in DOMAIN t : t[i].do = "clear" /\ i < j => t[j] = Put
                  /\ \A k \in {"pub", "prv", "sg"} : NoneAfter(t, Delete("vpc"), Delete(k))
    /\ s = S3 => NoneAfter(t, Delete("bucket"), Delete("object"))

ProgramInv ==
    /\ Serving /\ Running => /\ \A c \in Todo : ForwardOp(cur, c)
                             /\ ForwardOrder(cur, req.todo)
    /\ Serving /\ Undo    => /\ \A c \in Todo : BackwardOp(cur, c)
                             /\ BackwardOrder(cur, req.todo)

\* The copy of the record differs from it in the step's own fields only.
CopyInv == Unbroken /\ Serving => \A f \in Field \ Own[cur] : req.env[f] = stored[f]

-----------------------------------------------------------------------------
(* What the record names.                                                  *)

Ident == (Field \cap Kind) \ {"file"}

\* It exists, and nobody has asked for its deletion.
Held(k, id) == \E n \in Target(k, id) : account[k][n].state # "leaving"

Undoing(k) == cur = StepOf(k) /\ failedStep # 0

HeldInv ==
    \A k \in Ident :
        /\ stored[k] # 0 => Held(k, stored[k]) \/ Undoing(k)
        /\ Serving /\ req.env[k] # 0 => Held(k, req.env[k]) \/ Undoing(k)

\* A compensation clears what it removes, and stores that.
ClearInv ==
    Undo /\ Serving =>
        \A k \in Own[cur] \cap Kind :
            /\ stored[k] = 0 \/ Put \in Todo
            /\ req.env[k] = 0 \/ \E c \in Todo : c.do = "clear" /\ k \in c.on

ClearedInv ==
    Unbroken /\ saga \in {"compensating", "failed"} =>
        \A k \in Field \cap Kind : cur < StepOf(k) /\ StepOf(k) < failedStep => stored[k] = 0

Opens(env) ==
    env["db"] # 0 => \A n \in Alive("db") : account["db"][n].pass = env["password"]

PasswordInv ==
    /\ Opens(stored)
    /\ Serving => Opens(req.env) \/ (req.todo # <<>> /\ Head(req.todo) = Create("db"))

\* What goes in no time is never on its way out.
LeavingInv ==
    \A k \in Kind \ SlowToGo :
        \A n \in DOMAIN account[k] : account[k][n].state # "leaving"

NamedInv ==
    /\ TypeInv
    /\ SagaInv
    /\ LeavingInv
    /\ ProgramInv
    /\ CopyInv
    /\ HeldInv
    /\ ClearInv
    /\ ClearedInv
    /\ PasswordInv

-----------------------------------------------------------------------------
(* What the steps that are done have left.                                 *)

Ready(k, id) == InState(k, id, "ready")

\* The field by which a step recognises its work, if it is stored at the end.
Mark == [s \in {Vpc, S3, Identity, Config, Registry} |->
            CASE s = Vpc -> "vpc" [] s = S3 -> "bucket" [] s = Identity -> "policy"
              [] s = Config -> "file" [] s = Registry -> "status"]

Published(env) == config = [endpoint |-> env["endpoint"], password |-> env["password"]]

Whole(s, env) ==
    /\ \A k \in Own[s] \cap Kind : env[k] # 0 /\ (k # "file" => Ready(k, env[k]))
    /\ s = S3       => Ready("object", 1)
    /\ s = Config   => Published(env)
    /\ s = Health   => env["endpoint"] # 0
    /\ s = Registry => env["status"] # 0

\* Nothing of the steps ahead is in the record.
AheadInv == Running => \A s \in (cur + 1)..8 : \A f \in Own[s] : stored[f] = 0

WholeInv ==
    /\ Running =>
          /\ \A s \in 1..(cur - 1) : Whole(s, stored)
          /\ cur \in DOMAIN Mark /\ stored[Mark[cur]] # 0 => Whole(cur, stored)
          /\ cur \in DOMAIN Mark /\ stored[Mark[cur]] = 0 => \A f \in Own[cur] : stored[f] = 0
    /\ saga = "completed" => \A s \in 1..8 : Whole(s, stored)

\* The step at hand: what it has not done yet it has still to do.
DoingInv ==
    Running /\ Serving =>
        /\ req.env = stored \/ Put \in Todo
        /\ \A k \in Own[cur] \cap Kind :
              \/ Create(k) \in Todo
              \/ /\ req.env[k] # 0
                 /\ k # "file" => \/ Ready(k, req.env[k])
                                  \/ {Await(k), Configure(k)} \cap Todo # {}
        /\ cur = S3       => Do("upload", "placeholder") \in Todo \/ Ready("object", 1)
        /\ cur = Config   => Do("upload", "config") \in Todo \/ Published(req.env)
        /\ cur = Health   => Do("check", "db") \in Todo \/ req.env["endpoint"] # 0
        /\ cur = Registry => Set("status") \in Todo \/ req.env["status"] # 0
        /\ cur \in DOMAIN Mark /\ req.todo # <<>> => stored[Mark[cur]] = 0

\* What is complete as soon as it is created is not hidden either.
PlainInv ==
    \A k \in {"pub", "prv", "policy", "file"} :
        \A n \in DOMAIN account[k] : account[k][n].state \in {"ready", "gone"}

DoneInv ==
    /\ NamedInv
    /\ Unbroken => PlainInv /\ AheadInv /\ WholeInv /\ DoingInv

-----------------------------------------------------------------------------
(* What a rollback removes.                                                *)

InVpc == {"vpc", "pub", "prv", "sg"}

\* The last one of its kind is gone.
Dead(k) == Len(account[k]) \notin Alive(k)

\* The record names the last VPC, and what is in it.
LatestInv ==
    \A k \in InVpc :
        /\ stored[k] # 0 => stored[k] = Len(account[k])
        /\ Serving /\ req.env[k] # 0 => req.env[k] = Len(account[k])

\* Databases and instances live in the last VPC, which they outlive never.
HomeInv ==
    \A k \in {"db", "instance"} :
        /\ \A n \in DOMAIN account[k] : account[k][n].vpc = Len(account["vpc"])
        /\ Running /\ cur = Vpc => account[k] = <<>>
        /\ Dead("vpc") => Alive(k) = {}

\* What a rollback has cleared is gone.
DeadInv ==
    saga \in {"compensating", "failed"} =>
        /\ \A k \in (Field \cap Kind) \ {"instance"} :
              StepOf(k) < failedStep /\ stored[k] = 0 => Dead(k)
        /\ S3 < failedStep /\ stored["bucket"] = 0 => Dead("object")

DeletingInv ==
    Undo /\ Serving =>
        /\ \A k \in (Own[cur] \cap Kind) \ {"instance"} :
              {IF k = "db" THEN AwaitGone(k) ELSE Delete(k)} \cap Todo # {} \/ Dead(k)
        /\ cur = S3 => Delete("object") \in Todo \/ Dead("object")
        /\ \A k \in InVpc : Delete(k) \in Todo => req.env[k] # 0

StrayInv ==
    /\ DoneInv
    /\ Unbroken => LatestInv /\ HomeInv /\ DeadInv /\ DeletingInv

-----------------------------------------------------------------------------
(* As long as nothing fails but the health check.                          *)

Undisturbed ==
    left = [errors |-> MaxErrors, restarts |-> MaxRestarts, breaks |-> MaxBreaks]

\* One was created, and is there.
Sole(k) == Len(account[k]) = 1 /\ account[k][1].state \notin {"leaving", "gone"}

\* The call that creates k.
Maker(k) == IF k = "object" THEN Do("upload", "placeholder") ELSE Create(k)

CalmInv ==
    Undisturbed =>
        /\ saga # "compensation_failed"
        /\ saga \in {"compensating", "failed"} => failedStep = Health

CalmForwardInv ==
    Undisturbed /\ Running =>
        /\ \A k \in Kind :
              /\ StepOf(k) < cur => Sole(k) /\ (k \in Field => stored[k] = 1)
              /\ StepOf(k) > cur => account[k] = <<>>
              /\ StepOf(k) = cur /\ ~Serving =>
                    account[k] = <<>> /\ \A f \in Own[cur] : stored[f] = 0
              /\ StepOf(k) = cur /\ Serving =>
                    IF Maker(k) \in Todo THEN account[k] = <<>>
                                         ELSE Sole(k) /\ (k \in Field => req.env[k] = 1)
        /\ Serving => NoneAfter(req.todo, Maker("object"), Maker("object"))

\* A deletion is asked for once, and awaited, while the record has the name.
Before(c, d) ==
    \A k \in Kind :
        /\ d = Delete(k) => c # Delete(k)
        /\ d \in {Delete(k), AwaitGone(k)} => ~(c.do = "clear" /\ k \in c.on)

Orderly(t) == \A i, j \in DOMAIN t : i < j => Before(t[i], t[j])

CalmBackwardInv ==
    Undisturbed /\ Undo =>
        /\ \A k \in Kind :
              /\ StepOf(k) < cur \/ (StepOf(k) = cur /\ ~Serving) =>
                    Sole(k) /\ (k \in Field => stored[k] = 1)
              /\ StepOf(k) > cur => Alive(k) = {}
              /\ StepOf(k) = cur /\ Serving =>
                    \/ /\ Delete(k) \in Todo
                       /\ Sole(k) /\ (k \in Field => req.env[k] = 1)
                       /\ k \in SlowToGo => AwaitGone(k) \in Todo
                       /\ k = "object" => Delete("bucket") \in Todo
                    \/ /\ Delete(k) \notin Todo
                       /\ \/ Alive(k) = {}
                          \/ /\ AwaitGone(k) \in Todo
                             /\ Len(account[k]) = 1 /\ req.env[k] = 1
        /\ Serving => Orderly(req.todo)
        /\ \A s \in (cur + 1)..8 : \A f \in Own[s] : stored[f] = 0
        /\ Serving => \A f \in Own[cur] :
              /\ stored[f] = 0 \/ Put \in Todo
              /\ req.env[f] = 0 \/ \E c \in Todo : c.do = "clear" /\ f \in c.on

CalmEndInv ==
    Undisturbed /\ saga = "failed" => stored = Empty /\ \A k \in Kind : Alive(k) = {}

RollbackInv ==
    /\ StrayInv
    /\ CalmInv
    /\ CalmForwardInv
    /\ CalmBackwardInv
    /\ CalmEndInv
=============================================================================
