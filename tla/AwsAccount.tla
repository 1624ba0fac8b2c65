---------------------------- MODULE AwsAccount ----------------------------
(***************************************************************************)
(* What the steps change outside the record when they do not run dry: the  *)
(* AWS account, the policies of svid-exchange, the worker's disk.  These   *)
(* are external: the module has what the calls in internal/steps rely on.  *)
(* Where the code does not tell how a service answers (a resource that is  *)
(* there already, or gone already), it may answer either way.              *)
(***************************************************************************)
EXTENDS Integers, Sequences, FiniteSets

\* "object" is config.json in the bucket, "file" the local .env file.
Kind == {"vpc", "pub", "prv", "sg", "db", "instance",
         "bucket", "object", "policy", "file"}

\* The caller chooses the name, so that there is one at a time; the others
\* get a new identifier whenever one is created.
Named == {"db", "bucket", "object", "policy", "file"}

\* What takes its time to come up, and to go.
SlowToCome == {"vpc", "db", "instance"}
SlowToGo   == {"db", "instance"}

\* What is incomplete until a second call configures it.
Configured == {"sg", "bucket"}

VARIABLES
    account,   \* of each kind, everything ever created, in order
    config     \* what is in the latest config.json

accountVars == <<account, config>>

Resources == [state : {"pending", "ready", "hidden", "leaving", "gone"},
              vpc   : Nat,     \* where it lives
              pass  : Nat]     \* the password of a database

NoConfig == [endpoint |-> 0, password |-> 0]

AccountTypeOK ==
    /\ DOMAIN account = Kind
    /\ \A k \in Kind : \A n \in DOMAIN account[k] : account[k][n] \in Resources
    /\ config \in [endpoint : Nat, password : Nat]

AccountInit ==
    /\ account = [k \in Kind |-> <<>>]
    /\ config = NoConfig

-----------------------------------------------------------------------------
Alive(k) == {n \in DOMAIN account[k] : account[k][n].state # "gone"}

\* What a call on identifier id means.
Target(k, id) == IF k \in Named THEN Alive(k) ELSE {id} \cap Alive(k)

InState(k, id, s) == \E n \in Target(k, id) : account[k][n].state = s

\* A VPC is not deleted while anything lives in it ("VPC deletion will fail if
\* the RDS instance still exists", rds.go:122), nor are a security group and a
\* subnet that instances use, nor a bucket with objects.
Occupants(k) ==
    CASE k = "vpc" -> {"pub", "prv", "sg", "db", "instance"}
      [] k = "sg"  -> {"db", "instance"}
      [] k = "pub" -> {"instance"}
      [] k = "bucket" -> {"object"}
      [] OTHER -> {}

InUse(k, id) ==
    \E n \in Target(k, id), j \in Occupants(k) : \E m \in Alive(j) :
        account[j][m].vpc = IF k = "vpc" THEN n ELSE account[k][n].vpc

-----------------------------------------------------------------------------
\* Every state change of a resource.
Becomes(k, ns, s) ==
    account' = [account EXCEPT ![k] =
        [n \in DOMAIN @ |-> IF n \in ns THEN [@[n] EXCEPT !.state = s] ELSE @[n]]]

Appear(k, vpc, pass) ==
    account' = [account EXCEPT ![k] = Append(@,
        [state |-> IF k \in SlowToCome \cup Configured THEN "pending" ELSE "ready",
         vpc   |-> vpc,
         pass  |-> pass])]

\* A create call; a bucket or a policy that is there may be taken for created.
CreateResource(k, vpc, pass) ==
    /\ k = "db" => Alive(k) = {}
    /\ IF k \in Named /\ Alive(k) # {} THEN UNCHANGED account ELSE Appear(k, vpc, pass)
    /\ UNCHANGED config

CreateRefused(k) == k \in Named /\ Alive(k) # {}

ConfigureResource(k, id) ==
    /\ Target(k, id) # {}
    /\ Becomes(k, Target(k, id), "ready")
    /\ UNCHANGED config

\* A waiter returns.
HasCome(k, id)  == InState(k, id, "ready")
HasGone(k, id)  == Target(k, id) = {}

DeleteResource(k, id) ==
    /\ ~InUse(k, id)
    /\ Becomes(k, Target(k, id), IF k \in SlowToGo THEN "leaving" ELSE "gone")
    /\ UNCHANGED config

DeleteRefused(k, id) ==
    InUse(k, id) \/ Target(k, id) = {} \/ InState(k, id, "leaving")

\* The bucket has versions: an upload adds one, a delete hides them all.
Upload(content) ==
    /\ Alive("bucket") # {}
    /\ IF Alive("object") = {} THEN Appear("object", 0, 0)
                               ELSE Becomes("object", Alive("object"), "ready")
    /\ config' = content

HideObject ==
    /\ Alive("bucket") # {}
    /\ Becomes("object", Alive("object"), "hidden")
    /\ UNCHANGED config

\* AWS finishes what it was asked for.
Settle(k) ==
    /\ k \in SlowToCome
    /\ \E n \in DOMAIN account[k] :
          \/ account[k][n].state = "pending" /\ Becomes(k, {n}, "ready")
          \/ account[k][n].state = "leaving" /\ Becomes(k, {n}, "gone")
    /\ UNCHANGED config

\* The worker's disk goes with its container.
DiskLost ==
    /\ Becomes("file", Alive("file"), "gone")
    /\ UNCHANGED config
=============================================================================
