------------------------------ MODULE Lookups ------------------------------
(***************************************************************************)
(* Several environments in one store, and the forge commands that name one *)
(* of them by the first characters of its ID (cmd/forge/main.go): each     *)
(* request looks the prefix up anew among the environments there are then  *)
(* (findByPrefix in apiserver/server.go), while others are being created.  *)
(*                                                                         *)
(* What happens to an environment between its creation and its final       *)
(* status is Provisioning's subject; here a saga that runs ends in one     *)
(* step, and the goroutine that waits for it in another.                   *)
(***************************************************************************)
EXTENDS Integers, Sequences, FiniteSets, SequencesExt

CONSTANTS
    Id,           \* the IDs, sequences of one length
    PrintLength,  \* how much of an ID "forge list" prints: 8
    User,         \* who runs one forge command at a time
    MaxEnvs,      \* bound: environments created
    None

\* BoltDB keeps its keys in lexicographic order.
Before(a, b) ==
    \E k \in 1..Len(a) : SubSeq(a, 1, k - 1) = SubSeq(b, 1, k - 1) /\ a[k] < b[k]

IsFirstOf(a, S) == a \in S /\ \A b \in S : a = b \/ Before(a, b)

ASSUME IdAssumption ==
    /\ \A a \in Id : a \in Seq(Int) /\ PrintLength <= Len(a)
    /\ \A a, b \in Id : Len(a) = Len(b)
    /\ PrintLength \in Nat /\ MaxEnvs \in Nat
    /\ None \notin Id
    /\ \A S \in SUBSET Id : S # {} => \E a \in S : IsFirstOf(a, S)

VARIABLES
    status,  \* of each environment; "absent" stands for no record
    sagaId,  \* whether its record has a saga ID
    saga,    \* its saga in the conductor, "running" while it compensates too
    prov,    \* its provision, a goroutine of forge-api: "lost" if it is gone
             \* and could not store that it failed
    cmd      \* each user's command

envVars == <<status, sagaId, saga, prov>>
vars == <<status, sagaId, saga, prov, cmd>>

\* What "forge list" prints of an ID.
Printed(id) == SubSeq(id, 1, PrintLength)

(***************************************************************************)
(* arg: what the command sends; meant: the environment its user means;     *)
(* env, saga: those its requests have reached, as it prints them.          *)
(***************************************************************************)
Command ==
    [kind  : {"none", "create", "status", "abort", "destroy"},
     at    : {"lookup", "saga", "done"},
     arg   : {<<>>} \cup {Printed(id) : id \in Id} \cup Id,
     meant : Id \cup {None}, env : Id \cup {None}, saga : Id \cup {None}]

NoCommand == [kind |-> "none", at |-> "done", arg |-> <<>>,
              meant |-> None, env |-> None, saga |-> None]

Status == {"absent", "provisioning", "ready", "failed"}
SagaStatus == {"none", "pending", "running",
               "completed", "failed", "aborted", "compensation_failed"}

EnvTypeOK ==
    /\ status \in [Id -> Status]
    /\ sagaId \in [Id -> BOOLEAN]
    /\ saga \in [Id -> SagaStatus]
    /\ prov \in [Id -> {"none", "running", "returned", "lost"}]

TypeOK ==
    /\ EnvTypeOK
    /\ cmd \in [User -> Command]

Init ==
    /\ status = [id \in Id |-> "absent"]
    /\ sagaId = [id \in Id |-> FALSE]
    /\ saga = [id \in Id |-> "none"]
    /\ prov = [id \in Id |-> "none"]
    /\ cmd = [u \in User |-> NoCommand]

Stored == {id \in Id : status[id] # "absent"}

Idle(u) == cmd[u].at = "done"

\* The environment whose saga a request on environment id gets to: none if
\* the record has no saga ID.
SagaOf(id) == IF id # None /\ sagaId[id] THEN id ELSE None

\* u's command sends its next request, which reaches environment id.
Reaches(u, at, id) == cmd' = [cmd EXCEPT ![u].at = at, ![u].env = id]

-----------------------------------------------------------------------------
(* Mutated forms of the definitions below. *)

\* The slice bound is strict: a whole ID matches nothing.
FindByPrefixStrict(prefix) ==
    LET found == {id \in Stored : IsStrictPrefix(prefix, id)}
    IN  IF found = {} THEN None ELSE CHOOSE id \in found : IsFirstOf(id, found)

\* The loop goes on after a match: the last one is returned.
FindByPrefixLast(prefix) ==
    LET found == {id \in Stored : IsPrefix(prefix, id)}
    IN  IF found = {} THEN None
                      ELSE CHOOSE id \in found : \A b \in found : id = b \/ Before(b, id)

\* The saga view walks the environments from the last one.
GetEnvSagaLast(u) ==
    /\ cmd[u].kind = "status" /\ cmd[u].at = "saga"
    /\ LET id == FindByPrefixLast(cmd[u].arg)
       IN  cmd' = [cmd EXCEPT ![u].at = "done",
                              ![u].saga = SagaOf(id)]
    /\ UNCHANGED envVars

\* The poll stops at "ready" only.
PollReturnsReady(u) ==
    /\ cmd[u].kind = "create" /\ cmd[u].at = "lookup"
    /\ \E id \in Stored : status[id] = "ready" /\ id = cmd[u].arg /\ Reaches(u, "done", id)
    /\ UNCHANGED envVars

\* The abort writes the saga's status into the record.
AbortCallStored(u) ==
    /\ cmd[u].kind = "abort" /\ cmd[u].at = "saga"
    /\ status' = [status EXCEPT ![cmd[u].env] = "aborted"]
    /\ cmd' = [cmd EXCEPT ![u].at = "done", ![u].saga = cmd[u].env]
    /\ UNCHANGED <<sagaId, saga, prov>>

-----------------------------------------------------------------------------
\* The first environment, in the order of the keys, whose ID has the prefix.
FindByPrefix(prefix) ==
    LET found == {id \in Stored : IsPrefix(prefix, id)}
    IN  IF found = {} THEN None ELSE CHOOSE id \in found : IsFirstOf(id, found)

-----------------------------------------------------------------------------
(* The environments.                                                       *)

\* handleCreateEnv, for a user whose "forge create" then polls the whole ID.
CreateEnv(u, id) ==
    /\ Idle(u) /\ status[id] = "absent"
    /\ Cardinality(Stored) < MaxEnvs
    /\ status' = [status EXCEPT ![id] = "provisioning"]
    /\ prov' = [prov EXCEPT ![id] = "running"]
    /\ cmd' = [cmd EXCEPT ![u] = [NoCommand EXCEPT
                  !.kind = "create", !.at = "lookup", !.arg = id, !.meant = id]]
    /\ UNCHANGED <<sagaId, saga>>

\* Provision creates the saga and stores its ID.
CreateSaga(id) ==
    /\ prov[id] = "running" /\ ~sagaId[id]
    /\ sagaId' = [sagaId EXCEPT ![id] = TRUE]
    /\ saga' = [saga EXCEPT ![id] = "pending"]
    /\ UNCHANGED <<status, prov, cmd>>

\* Provision starts the saga, and waits for its end.
StartSaga(id) ==
    /\ prov[id] = "running" /\ saga[id] = "pending"
    /\ saga' = [saga EXCEPT ![id] = "running"]
    /\ UNCHANGED <<status, sagaId, prov, cmd>>

\* The saga ends: completed with the registry step, which stores "ready", or
\* with its compensations done, or with one of them failed.
EndSaga(id) ==
    /\ saga[id] = "running"
    /\ \/ /\ saga' = [saga EXCEPT ![id] = "completed"]
          /\ status' = [status EXCEPT ![id] = "ready"]
       \/ /\ \E end \in {"failed", "compensation_failed"} :
                saga' = [saga EXCEPT ![id] = end]
          /\ UNCHANGED status
    /\ UNCHANGED <<sagaId, prov, cmd>>

\* Provision returns nil, also for a saga that is aborted or dead-lettered.
ProvisionReturns(id) ==
    /\ prov[id] = "running"
    /\ saga[id] \in {"completed", "aborted", "compensation_failed"}
    /\ prov' = [prov EXCEPT ![id] = "returned"]
    /\ UNCHANGED <<status, sagaId, saga, cmd>>

\* Provision fails - before it has a saga, with the saga, or as a call to
\* the conductor breaks off - and the goroutine stores it, if it can.
ProvisionFails(id) ==
    /\ prov[id] = "running"
    /\ \/ /\ status' = [status EXCEPT ![id] = "failed"]
          /\ prov' = [prov EXCEPT ![id] = "returned"]
       \/ /\ prov' = [prov EXCEPT ![id] = "lost"]
          /\ UNCHANGED status
    /\ UNCHANGED <<sagaId, saga, cmd>>

\* forge-api dies with its goroutines and handlers, and is started again.
RestartForgeApi ==
    /\ prov' = [id \in Id |-> IF prov[id] = "running" THEN "lost" ELSE prov[id]]
    /\ cmd' = [u \in User |-> IF cmd[u].kind = "abort" /\ cmd[u].at = "saga"
                                 THEN NoCommand ELSE cmd[u]]
    /\ UNCHANGED <<status, sagaId, saga>>

-----------------------------------------------------------------------------
(* The commands.                                                           *)

\* A user lists the environments (any of them may be in the listing, with
\* the filter on its status or none) and gives the prefix of a row to a
\* command.  How long that takes is up to the user.
ListEnvs(u, kind) ==
    /\ Idle(u)
    /\ \E id \in Stored :
          cmd' = [cmd EXCEPT ![u] = [NoCommand EXCEPT
                    !.kind = kind, !.at = "lookup", !.arg = Printed(id), !.meant = id]]
    /\ UNCHANGED envVars

\* GET /envs/{id}: create's poll, which ends when the status is final.
Poll(u) ==
    /\ cmd[u].kind = "create" /\ cmd[u].at = "lookup"
    /\ LET id == FindByPrefix(cmd[u].arg)
       IN  /\ id = None \/ status[id] # "provisioning"
           /\ Reaches(u, "done", id)
    /\ UNCHANGED envVars

\* GET /envs/{id} of status: if there is a saga, a second request follows.
GetEnv(u) ==
    /\ cmd[u].kind = "status" /\ cmd[u].at = "lookup"
    /\ LET id == FindByPrefix(cmd[u].arg)
       IN  Reaches(u, IF SagaOf(id) = None THEN "done" ELSE "saga", id)
    /\ UNCHANGED envVars

\* GET /envs/{id}/saga: the prefix is looked up again.
GetEnvSaga(u) ==
    /\ cmd[u].kind = "status" /\ cmd[u].at = "saga"
    /\ LET id == FindByPrefix(cmd[u].arg)
       IN  cmd' = [cmd EXCEPT ![u].at = "done",
                              ![u].saga = SagaOf(id)]
    /\ UNCHANGED envVars

\* POST /envs/{id}/abort, until the conductor is called; without a saga ID
\* it is refused.
AbortEnv(u) ==
    /\ cmd[u].kind = "abort" /\ cmd[u].at = "lookup"
    /\ LET id == FindByPrefix(cmd[u].arg)
       IN  Reaches(u, IF SagaOf(id) = None THEN "done" ELSE "saga", id)
    /\ UNCHANGED envVars

\* AbortSaga; of a saga that is over it returns an error.
AbortCall(u) ==
    /\ cmd[u].kind = "abort" /\ cmd[u].at = "saga"
    /\ LET id == cmd[u].env
       IN  IF saga[id] \in {"pending", "running"}
             THEN /\ saga' = [saga EXCEPT ![id] = "aborted"]
                  /\ cmd' = [cmd EXCEPT ![u].at = "done", ![u].saga = id]
             ELSE /\ cmd' = [cmd EXCEPT ![u].at = "done"]
                  /\ UNCHANGED saga
    /\ UNCHANGED <<status, sagaId, prov>>

\* destroy reads the environment and prints what it would abort.
Destroy(u) ==
    /\ cmd[u].kind = "destroy" /\ cmd[u].at = "lookup"
    /\ LET id == FindByPrefix(cmd[u].arg)
       IN  cmd' = [cmd EXCEPT ![u].at = "done", ![u].env = id,
                              ![u].saga = SagaOf(id)]
    /\ UNCHANGED envVars

\* The user interrupts the command, or a request of it is not answered.
Stop(u) ==
    /\ ~Idle(u)
    /\ cmd' = [cmd EXCEPT ![u] = NoCommand]
    /\ UNCHANGED envVars

-----------------------------------------------------------------------------
EnvNext ==
    \/ \E u \in User, id \in Id : CreateEnv(u, id)
    \/ \E id \in Id :
          \/ CreateSaga(id) \/ StartSaga(id) \/ EndSaga(id)
          \/ ProvisionReturns(id) \/ ProvisionFails(id)
    \/ RestartForgeApi

CmdNext ==
    \E u \in User :
        \/ \E kind \in {"status", "abort", "destroy"} : ListEnvs(u, kind)
        \/ Poll(u) \/ GetEnv(u) \/ GetEnvSaga(u)
        \/ AbortEnv(u) \/ AbortCall(u) \/ Destroy(u)
        \/ Stop(u)

Next == EnvNext \/ CmdNext

Spec == Init /\ [][Next]_vars

\* Sagas end, and provisions, and forge create polls every two seconds.
FairSpec ==
    /\ Spec
    /\ \A id \in Id : WF_vars(EndSaga(id)) /\ WF_vars(ProvisionFails(id))
    /\ \A u \in User : WF_vars(Poll(u))

-----------------------------------------------------------------------------
(***************************************************************************)
(* "forge create" polls by the whole ID (cmd/forge/main.go:188): it ends   *)
(* with its own environment's status, whatever others are created.         *)
(***************************************************************************)
PollFindsOwn ==
    \A u \in User :
        cmd[u].kind = "create" /\ cmd[u].at = "done" => cmd[u].env = cmd[u].meant

(***************************************************************************)
(* A command given what a listing printed finds an environment, and if it  *)
(* is not the one its user means, then one that a listing prints alike and *)
(* whose key comes before: nothing else can be hit, and the environment    *)
(* with the first key never hits another (apiserver/server.go:441).        *)
(***************************************************************************)
MissIsAmbiguous ==
    \A u \in User :
        cmd[u].kind # "none" /\ cmd[u].at \in {"saga", "done"} /\ cmd[u].env # cmd[u].meant =>
            /\ cmd[u].env # None
            /\ Printed(cmd[u].env) = Printed(cmd[u].meant)
            /\ Before(cmd[u].env, cmd[u].meant)

(***************************************************************************)
(* "forge status" prints an environment and the saga of the same one,      *)
(* although its two requests look the prefix up independently, unless an   *)
(* environment with an earlier key that is printed alike has come between  *)
(* them (cmd/forge/main.go:326).                                           *)
(***************************************************************************)
StatusIsOfOne ==
    \A u \in User :
        cmd[u].kind = "status" /\ cmd[u].saga \notin {None, cmd[u].env} =>
            /\ Printed(cmd[u].saga) = Printed(cmd[u].env)
            /\ Before(cmd[u].saga, cmd[u].env)

(***************************************************************************)
(* "forge create" returns, unless nobody is left to store a final status:  *)
(* an abort - perhaps one that meant another environment - hit its saga,   *)
(* or the saga was dead-lettered (cmd/forge-api/main.go:123), or the       *)
(* goroutine was gone, or could not store it, as its saga did not complete *)
(* (apiserver/server.go:173).                                              *)
(***************************************************************************)
Abandoned(id) ==
    \/ saga[id] \in {"aborted", "compensation_failed"}
    \/ prov[id] = "lost" /\ saga[id] \in {"none", "pending", "failed"}

CreateReturns ==
    \A u \in User :
        cmd[u].kind = "create" /\ cmd[u].at = "lookup" ~>
            cmd[u].at # "lookup" \/ Abandoned(cmd[u].meant)

-----------------------------------------------------------------------------
(* The inductive invariant behind the three.                               *)

\* What the user means is there, and the argument tells it.
MeantInv(c) ==
    c.kind # "none" =>
        /\ c.meant \in Stored
        /\ c.arg = IF c.kind = "create" THEN c.meant ELSE Printed(c.meant)

\* What a lookup reached has the argument as its prefix, and is what was
\* meant or precedes it.
HitInv(c) ==
    /\ c.kind # "none" /\ c.at \in {"saga", "done"} =>
          /\ c.env \in Stored /\ IsPrefix(c.arg, c.env)
          /\ c.env = c.meant \/ Before(c.env, c.meant)
    /\ c.kind = "none" => c.at = "done"

\* The second lookup of status reached the environment of the first, or one
\* that precedes it.
SecondInv(c) ==
    /\ c.kind = "none" \/ c.at # "done" => c.saga = None
    /\ c.kind = "status" /\ c.saga # None =>
          /\ c.saga \in Stored /\ IsPrefix(c.arg, c.saga)
          /\ c.saga = c.env \/ Before(c.saga, c.env)

LookupInv ==
    /\ TypeOK
    /\ \A u \in User : MeantInv(cmd[u]) /\ HitInv(cmd[u]) /\ SecondInv(cmd[u])
=============================================================================
