--------------------------- MODULE LookupsProofs ---------------------------
(***************************************************************************)
(* What a lookup by prefix can hit, for every set of IDs, every length of  *)
(* the printed prefix and every number of users.                           *)
(***************************************************************************)
EXTENDS Lookups, TLAPS

(***************************************************************************)
(* findByPrefix returns an environment that is stored and has the prefix,  *)
(* and no such environment has an earlier key (apiserver/server.go:435).   *)
(***************************************************************************)
LEMMA FindsFirst ==
  ASSUME NEW prefix, NEW m \in Stored, IsPrefix(prefix, m)
  PROVE  /\ FindByPrefix(prefix) \in Stored
         /\ IsPrefix(prefix, FindByPrefix(prefix))
         /\ FindByPrefix(prefix) = m \/ Before(FindByPrefix(prefix), m)
<1> DEFINE found == {id \in Stored : IsPrefix(prefix, id)}
<1>1. found \in SUBSET Id /\ m \in found  BY DEF Stored
<1>2. \E a \in found : IsFirstOf(a, found)
  <2>1. found # {}  BY <1>1
  <2>2. QED  BY <1>1, <2>1, IdAssumption
<1>3. FindByPrefix(prefix) = CHOOSE id \in found : IsFirstOf(id, found)
  BY <1>1 DEF FindByPrefix
<1>4. /\ FindByPrefix(prefix) \in found
      /\ IsFirstOf(FindByPrefix(prefix), found)
  BY <1>2, <1>3
<1>5. QED  BY <1>1, <1>4 DEF IsFirstOf

(***************************************************************************)
(* A whole ID is a prefix of no other (cmd/forge/main.go:188), and         *)
(* what has a printed prefix is printed alike (cmd/forge/main.go:279).     *)
(***************************************************************************)
LEMMA PrefixOfId ==
  ASSUME NEW a \in Id, NEW b \in Id
  PROVE  /\ IsPrefix(a, b) <=> a = b
         /\ IsPrefix(Printed(a), b) <=> Printed(b) = Printed(a)
<1>1. /\ a \in Seq(Int) /\ b \in Seq(Int) /\ Len(a) = Len(b)
      /\ PrintLength \in Nat /\ PrintLength <= Len(a)
  BY IdAssumption
<1>2. SubSeq(a, 1, Len(a)) = a /\ SubSeq(b, 1, Len(b)) = b
  BY <1>1
<1>3. IsPrefix(a, b) <=> a = b
  BY <1>1, <1>2 DEF IsPrefix
<1>4. /\ Len(Printed(a)) = PrintLength /\ Printed(a) \in Seq(Int)
      /\ Printed(b) = SubSeq(b, 1, PrintLength)
  BY <1>1 DEF Printed
<1>5. SubSeq(Printed(a), 1, Len(Printed(a))) = Printed(a)
  BY <1>4
<1>6. QED  BY <1>1, <1>3, <1>4, <1>5 DEF IsPrefix

-----------------------------------------------------------------------------
(***************************************************************************)
(* A step of an environment keeps the invariant: no environment is ever    *)
(* removed from the store (store.go:70).                                   *)
(***************************************************************************)
LEMMA EnvStep ==
  ASSUME LookupInv, NEW id \in Id,
         \/ CreateSaga(id) \/ StartSaga(id) \/ EndSaga(id)
         \/ ProvisionReturns(id) \/ ProvisionFails(id)
  PROVE  LookupInv'
<1> USE DEF LookupInv
<1>1. cmd' = cmd
  BY DEF CreateSaga, StartSaga, EndSaga, ProvisionReturns, ProvisionFails
<1>2. EnvTypeOK' /\ Stored \subseteq Stored'
  <2> USE DEF TypeOK, EnvTypeOK, Status, SagaStatus, Stored
  <2>1. CASE CreateSaga(id)  BY <2>1 DEF CreateSaga
  <2>2. CASE StartSaga(id)  BY <2>2 DEF StartSaga
  <2>3. CASE EndSaga(id)  BY <2>3 DEF EndSaga
  <2>4. CASE ProvisionReturns(id)  BY <2>4 DEF ProvisionReturns
  <2>5. CASE ProvisionFails(id)  BY <2>5 DEF ProvisionFails
  <2>6. QED  BY <2>1, <2>2, <2>3, <2>4, <2>5
<1>3. TypeOK'  BY <1>1, <1>2 DEF TypeOK
<1>4. QED  BY <1>1, <1>2, <1>3 DEF MeantInv, HitInv, SecondInv

(***************************************************************************)
(* A command that becomes c keeps the invariant if c satisfies it          *)
(* (cmd/forge/main.go:225).                                                *)
(***************************************************************************)
LEMMA CmdStep ==
  ASSUME LookupInv, NEW u \in User, NEW c \in Command,
         cmd' = [cmd EXCEPT ![u] = c], Stored \subseteq Stored',
         EnvTypeOK', MeantInv(c)', HitInv(c)', SecondInv(c)
  PROVE  LookupInv'
<1> USE DEF LookupInv
<1>1. TypeOK'  BY DEF TypeOK
<1>2. cmd'[u] = c /\ \A v \in User \ {u} : cmd'[v] = cmd[v]
  BY DEF TypeOK
<1>3. QED
  BY <1>1, <1>2 DEF MeantInv, HitInv, SecondInv

(***************************************************************************)
(* A command's lookup reaches what its user means or an environment that   *)
(* precedes it: what is meant is stored, and the argument is a prefix of   *)
(* it (cmd/forge/main.go:188, 318, 448).                                   *)
(***************************************************************************)
LEMMA LookupHits ==
  ASSUME LookupInv, NEW u \in User, cmd[u].kind # "none"
  PROVE  LET id == FindByPrefix(cmd[u].arg)
         IN  /\ id \in Stored /\ IsPrefix(cmd[u].arg, id)
             /\ id = cmd[u].meant \/ Before(id, cmd[u].meant)
<1>1. /\ cmd[u].meant \in Stored
      /\ cmd[u].arg = IF cmd[u].kind = "create" THEN cmd[u].meant ELSE Printed(cmd[u].meant)
  BY DEF LookupInv, MeantInv
<1>2. cmd[u].meant \in Id  BY <1>1 DEF Stored
<1>3. IsPrefix(cmd[u].arg, cmd[u].meant)  BY <1>1, <1>2, PrefixOfId
<1>4. QED  BY <1>1, <1>3, FindsFirst

(***************************************************************************)
(* A request that reaches what the lookup finds keeps the invariant: the   *)
(* poll of create, and the first request of the others                     *)
(* (apiserver/server.go:215, 240).                                         *)
(***************************************************************************)
LEMMA FirstLookup ==
  ASSUME LookupInv, NEW u \in User, cmd[u].kind # "none", cmd[u].at = "lookup",
         NEW at \in {"saga", "done"}, NEW own \in {None, FindByPrefix(cmd[u].arg)},
         cmd[u].kind = "status" => own = None,
         at = "saga" => own = None,
         cmd' = [cmd EXCEPT ![u] = [cmd[u] EXCEPT
                    !.at = at, !.env = FindByPrefix(cmd[u].arg), !.saga = own]],
         UNCHANGED envVars
  PROVE  LookupInv'
<1>1. PICK id : id = FindByPrefix(cmd[u].arg)  OBVIOUS
<1>2. /\ id \in Stored /\ IsPrefix(cmd[u].arg, id)
      /\ id = cmd[u].meant \/ Before(id, cmd[u].meant)
  BY <1>1, LookupHits
<1>3. cmd[u] \in Command /\ MeantInv(cmd[u])  BY DEF LookupInv, TypeOK
<1>4. id \in Id  BY <1>2 DEF Stored
<1>5. PICK c : c = [cmd[u] EXCEPT !.at = at, !.env = id, !.saga = own]  OBVIOUS
<1>6. c \in Command  BY <1>1, <1>3, <1>4, <1>5 DEF Command
<1>7. /\ c.kind = cmd[u].kind /\ c.arg = cmd[u].arg /\ c.meant = cmd[u].meant
      /\ c.at = at /\ c.env = id /\ c.saga = own
  BY <1>3, <1>5 DEF Command
<1>8. Stored' = Stored /\ EnvTypeOK'
  BY DEF Stored, LookupInv, TypeOK, EnvTypeOK, envVars
<1>9. MeantInv(c)'  BY <1>3, <1>7, <1>8 DEF MeantInv
<1>10. HitInv(c)'  BY <1>2, <1>7, <1>8 DEF HitInv
<1>11. SecondInv(c)
  <2>1. CASE cmd[u].kind = "status"  BY <2>1, <1>7 DEF SecondInv
  <2>2. CASE cmd[u].kind # "status"  BY <2>2, <1>7 DEF SecondInv
  <2>3. QED  BY <2>1, <2>2
<1>12. cmd' = [cmd EXCEPT ![u] = c]  BY <1>1, <1>5
<1>13. QED
  BY <1>6, <1>8, <1>9, <1>10, <1>11, <1>12, CmdStep

(***************************************************************************)
(* A command that starts keeps the invariant: forge create with the ID it  *)
(* was answered, the others with what a listing printed                    *)
(* (cmd/forge/main.go:181, 279).                                           *)
(***************************************************************************)
LEMMA CommandStarts ==
  ASSUME LookupInv, NEW u \in User, NEW id \in Id,
         NEW kind \in {"create", "status", "abort", "destroy"},
         id \in Stored', Stored \subseteq Stored',
         EnvTypeOK',
         cmd' = [cmd EXCEPT ![u] = [NoCommand EXCEPT
                   !.kind = kind, !.at = "lookup",
                   !.arg = IF kind = "create" THEN id ELSE Printed(id), !.meant = id]]
  PROVE  LookupInv'
<1>1. PICK c : c = [NoCommand EXCEPT
                      !.kind = kind, !.at = "lookup",
                      !.arg = IF kind = "create" THEN id ELSE Printed(id), !.meant = id]
  OBVIOUS
<1>2. c = [kind |-> kind, at |-> "lookup",
           arg |-> IF kind = "create" THEN id ELSE Printed(id),
           meant |-> id, env |-> None, saga |-> None]
  BY <1>1 DEF NoCommand
<1>3. c \in Command  BY <1>2 DEF Command
<1>4. MeantInv(c)' /\ HitInv(c)'  BY <1>2 DEF MeantInv, HitInv
<1>5. SecondInv(c)  BY <1>2 DEF SecondInv
<1>6. cmd' = [cmd EXCEPT ![u] = c]  BY <1>1
<1>7. QED  BY <1>3, <1>4, <1>5, <1>6, CmdStep

(***************************************************************************)
(* The second request of status reaches the environment of the first or    *)
(* one that precedes it: the first is still stored and still has the       *)
(* prefix (cmd/forge/main.go:326).                                         *)
(***************************************************************************)
LEMMA SecondLookup ==
  ASSUME LookupInv, NEW u \in User, GetEnvSaga(u)
  PROVE  LookupInv'
<1>1. PICK id : id = FindByPrefix(cmd[u].arg)  OBVIOUS
<1>2. PICK c : c = [cmd[u] EXCEPT !.at = "done", !.saga = SagaOf(id)]
  OBVIOUS
<1>3. /\ cmd[u] \in Command /\ MeantInv(cmd[u]) /\ HitInv(cmd[u])
      /\ cmd[u].kind = "status" /\ cmd[u].at = "saga"
  BY DEF LookupInv, TypeOK, GetEnvSaga
<1>4. cmd[u].env \in Stored /\ IsPrefix(cmd[u].arg, cmd[u].env)
  BY <1>3 DEF HitInv
<1>5. /\ id \in Stored /\ IsPrefix(cmd[u].arg, id)
      /\ id = cmd[u].env \/ Before(id, cmd[u].env)
  BY <1>1, <1>4, FindsFirst
<1>6. id \in Id /\ c.saga \in {None, id}
  BY <1>2, <1>3, <1>5 DEF Command, Stored, SagaOf
<1>7. c \in Command  BY <1>2, <1>3, <1>6 DEF Command
<1>8. /\ c.kind = "status" /\ c.arg = cmd[u].arg /\ c.meant = cmd[u].meant
      /\ c.at = "done" /\ c.env = cmd[u].env
  BY <1>2, <1>3 DEF Command
<1>9. Stored' = Stored /\ EnvTypeOK'
  BY DEF Stored, LookupInv, TypeOK, EnvTypeOK, envVars, GetEnvSaga
<1>10. MeantInv(c)' /\ HitInv(c)'
  BY <1>3, <1>8, <1>9 DEF MeantInv, HitInv
<1>11. SecondInv(c)  BY <1>5, <1>6, <1>8 DEF SecondInv
<1>12. cmd' = [cmd EXCEPT ![u] = c]
  <2>1. cmd' = [cmd EXCEPT ![u].at = "done", ![u].saga = SagaOf(id)]
    BY <1>1 DEF GetEnvSaga
  <2>2. QED  BY <2>1, <1>2, <1>3 DEF Command
<1>13. QED
  BY <1>7, <1>9, <1>10, <1>11, <1>12, CmdStep

(***************************************************************************)
(* The call to the conductor changes sagas only, and what the command      *)
(* prints of them (apiserver/server.go:261).                               *)
(***************************************************************************)
LEMMA AbortCalled ==
  ASSUME LookupInv, NEW u \in User, AbortCall(u)
  PROVE  LookupInv'
<1>1. PICK own \in {None, cmd[u].env} :
        cmd' = [cmd EXCEPT ![u] = [cmd[u] EXCEPT !.at = "done", !.saga = own]]
  <2>1. cmd[u] \in Command /\ SecondInv(cmd[u]) /\ cmd[u].at = "saga"
    BY DEF LookupInv, TypeOK, AbortCall
  <2>2. cmd[u].saga = None  BY <2>1 DEF SecondInv
  <2>3. CASE saga[cmd[u].env] \in {"pending", "running"}
    <3>1. cmd' = [cmd EXCEPT ![u] = [cmd[u] EXCEPT !.at = "done", !.saga = cmd[u].env]]
      BY <2>1, <2>3 DEF AbortCall
    <3>2. QED  BY <3>1
  <2>4. CASE saga[cmd[u].env] \notin {"pending", "running"}
    <3>1. [cmd[u] EXCEPT !.at = "done", !.saga = None] = [cmd[u] EXCEPT !.at = "done"]
      BY <2>1, <2>2 DEF Command
    <3>2. cmd' = [cmd EXCEPT ![u] = [cmd[u] EXCEPT !.at = "done", !.saga = None]]
      BY <2>4, <3>1 DEF AbortCall
    <3>3. QED  BY <3>2
  <2>5. QED  BY <2>3, <2>4
<1>2. PICK c : c = [cmd[u] EXCEPT !.at = "done", !.saga = own]  OBVIOUS
<1>3. /\ cmd[u] \in Command /\ MeantInv(cmd[u]) /\ HitInv(cmd[u])
      /\ cmd[u].kind = "abort" /\ cmd[u].at = "saga"
  BY DEF LookupInv, TypeOK, AbortCall
<1>4. c \in Command  BY <1>2, <1>3 DEF Command
<1>5. /\ c.kind = "abort" /\ c.arg = cmd[u].arg /\ c.meant = cmd[u].meant
      /\ c.at = "done" /\ c.env = cmd[u].env
  BY <1>2, <1>3 DEF Command
<1>6. Stored' = Stored  BY DEF Stored, AbortCall
<1>7. MeantInv(c)' /\ HitInv(c)'  BY <1>3, <1>5, <1>6 DEF MeantInv, HitInv
<1>8. SecondInv(c)  BY <1>5 DEF SecondInv
<1>9. EnvTypeOK'
  BY DEF LookupInv, TypeOK, EnvTypeOK, SagaStatus, AbortCall
<1>10. cmd' = [cmd EXCEPT ![u] = c]  BY <1>1, <1>2
<1>11. QED
  BY <1>4, <1>6, <1>7, <1>8, <1>9, <1>10, CmdStep

(***************************************************************************)
(* An interrupted command leaves nothing of its own behind                 *)
(* (cmd/forge/main.go:192).                                                *)
(***************************************************************************)
LEMMA Stopped ==
  ASSUME LookupInv, NEW u \in User, Stop(u)
  PROVE  LookupInv'
<1>1. NoCommand \in Command  BY DEF NoCommand, Command
<1>2. /\ NoCommand.kind = "none" /\ NoCommand.at = "done" /\ NoCommand.saga = None
  BY DEF NoCommand
<1>3. PICK c : c = NoCommand  OBVIOUS
<1>4. MeantInv(c)' /\ HitInv(c)' /\ SecondInv(c)
  BY <1>2, <1>3 DEF MeantInv, HitInv, SecondInv
<1>5. Stored' = Stored /\ EnvTypeOK'
  BY DEF Stored, LookupInv, TypeOK, EnvTypeOK, envVars, Stop
<1>6. cmd' = [cmd EXCEPT ![u] = c]  BY <1>3 DEF Stop
<1>7. QED  BY <1>1, <1>3, <1>4, <1>5, <1>6, CmdStep

(***************************************************************************)
(* A restart of forge-api removes no environment and ends commands only    *)
(* (cmd/forge-api/main.go:36).                                             *)
(***************************************************************************)
LEMMA ForgeApiRestarts ==
  ASSUME LookupInv, RestartForgeApi
  PROVE  LookupInv'
<1>1. EnvTypeOK' /\ Stored' = Stored
  BY DEF LookupInv, TypeOK, EnvTypeOK, Stored, RestartForgeApi
<1>2. PICK none : none = NoCommand  OBVIOUS
<1>3. none \in Command /\ none.kind = "none" /\ none.at = "done" /\ none.saga = None
  BY <1>2 DEF NoCommand, Command
<1>4. \A u \in User : cmd'[u] \in {cmd[u], none}
  BY <1>2 DEF RestartForgeApi
<1>5. cmd' \in [User -> Command]
  BY <1>2, <1>3 DEF LookupInv, TypeOK, RestartForgeApi
<1>6. ASSUME NEW u \in User
      PROVE  MeantInv(cmd[u])' /\ HitInv(cmd[u])' /\ SecondInv(cmd[u])'
  <2>1. CASE cmd'[u] = cmd[u]
    BY <1>1, <2>1 DEF LookupInv, MeantInv, HitInv, SecondInv
  <2>2. CASE cmd'[u] = none
    BY <1>3, <2>2 DEF MeantInv, HitInv, SecondInv
  <2>3. QED  BY <1>4, <2>1, <2>2
<1>7. QED  BY <1>1, <1>5, <1>6 DEF LookupInv, TypeOK

-----------------------------------------------------------------------------
(***************************************************************************)
(* Every step of a command keeps the invariant (cmd/forge/main.go:133).    *)
(***************************************************************************)
LEMMA CommandKeeps ==
  ASSUME LookupInv, CmdNext
  PROVE  LookupInv'
<1>1. PICK u \in User :
        \/ \E kind \in {"status", "abort", "destroy"} : ListEnvs(u, kind)
        \/ Poll(u) \/ GetEnv(u) \/ GetEnvSaga(u)
        \/ AbortEnv(u) \/ AbortCall(u) \/ Destroy(u)
        \/ Stop(u)
  BY DEF CmdNext
<1>2. cmd[u] \in Command /\ SecondInv(cmd[u])  BY DEF LookupInv, TypeOK
<1>3. ASSUME NEW kind \in {"status", "abort", "destroy"}, ListEnvs(u, kind)
      PROVE  LookupInv'
  <2>1. PICK id \in Stored :
          cmd' = [cmd EXCEPT ![u] = [NoCommand EXCEPT
                    !.kind = kind, !.at = "lookup", !.arg = Printed(id), !.meant = id]]
    BY <1>3 DEF ListEnvs
  <2>2. id \in Id /\ Stored' = Stored  BY <1>3 DEF Stored, envVars, ListEnvs
  <2>3. kind # "create"  OBVIOUS
  <2>4. QED
    BY <1>3, <2>1, <2>2, <2>3, CommandStarts DEF LookupInv, TypeOK, EnvTypeOK, envVars, ListEnvs
<1>4. ASSUME cmd[u].at = "lookup", cmd[u].kind # "none",
             NEW at \in {"saga", "done"}, Reaches(u, at, FindByPrefix(cmd[u].arg)),
             UNCHANGED envVars
      PROVE  LookupInv'
  <2>1. cmd[u].saga = None  BY <1>2, <1>4 DEF SecondInv
  <2>2. PICK id : id = FindByPrefix(cmd[u].arg)  OBVIOUS
  <2>3. [cmd[u] EXCEPT !.at = at, !.env = id]
          = [cmd[u] EXCEPT !.at = at, !.env = id, !.saga = None]
    BY <1>2, <2>1 DEF Command
  <2>4. cmd' = [cmd EXCEPT ![u] = [cmd[u] EXCEPT !.at = at, !.env = id]]
    BY <1>4, <2>2 DEF Reaches
  <2>5. QED  BY <1>4, <2>2, <2>3, <2>4, FirstLookup
<1>5. CASE Poll(u) \/ GetEnv(u) \/ AbortEnv(u)
  BY <1>4, <1>5 DEF Poll, GetEnv, AbortEnv
<1>6. CASE Destroy(u)
  <2>1. PICK own \in {None, FindByPrefix(cmd[u].arg)} :
          cmd' = [cmd EXCEPT ![u].at = "done", ![u].env = FindByPrefix(cmd[u].arg),
                             ![u].saga = own]
    BY <1>6 DEF Destroy, SagaOf
  <2>2. cmd' = [cmd EXCEPT ![u] = [cmd[u] EXCEPT
                  !.at = "done", !.env = FindByPrefix(cmd[u].arg), !.saga = own]]
    BY <1>2, <2>1 DEF Command
  <2>3. QED  BY <1>6, <2>2, FirstLookup DEF Destroy
<1>7. QED
  BY <1>1, <1>3, <1>5, <1>6, SecondLookup, AbortCalled, Stopped

(***************************************************************************)
(* The invariant holds in every reachable state, for every set of IDs,     *)
(* length of the printed prefix and number of users                        *)
(* (apiserver/server.go:434).                                              *)
(***************************************************************************)
THEOREM LookupInvariance == Spec => []LookupInv
<1>1. Init => LookupInv
  <2>1. NoCommand \in Command /\ MeantInv(NoCommand) /\ HitInv(NoCommand)
          /\ SecondInv(NoCommand)
    BY DEF NoCommand, Command, MeantInv, HitInv, SecondInv
  <2>2. QED  BY <2>1 DEF Init, LookupInv, TypeOK, EnvTypeOK, Status, SagaStatus
<1>2. LookupInv /\ [Next]_vars => LookupInv'
  <2> SUFFICES ASSUME LookupInv, [Next]_vars  PROVE LookupInv'  OBVIOUS
  <2>1. CASE CmdNext  BY <2>1, CommandKeeps
  <2>2. ASSUME NEW u \in User, NEW id \in Id, CreateEnv(u, id)
        PROVE  LookupInv'
    <3>1. EnvTypeOK' /\ Stored \subseteq Stored' /\ id \in Stored'
      BY <2>2 DEF LookupInv, TypeOK, EnvTypeOK, Status, Stored, CreateEnv
    <3>2. cmd' = [cmd EXCEPT ![u] = [NoCommand EXCEPT
                    !.kind = "create", !.at = "lookup", !.arg = id, !.meant = id]]
      BY <2>2 DEF CreateEnv
    <3>3. QED  BY <3>1, <3>2, CommandStarts
  <2>3. CASE EnvNext  BY <2>2, <2>3, EnvStep, ForgeApiRestarts DEF EnvNext
  <2>4. CASE UNCHANGED vars
    BY <2>4 DEF vars, LookupInv, TypeOK, EnvTypeOK, Stored, MeantInv, HitInv, SecondInv
  <2>5. QED  BY <2>1, <2>3, <2>4 DEF Next
<1>3. QED  BY <1>1, <1>2, PTL DEF Spec

-----------------------------------------------------------------------------
(***************************************************************************)
(* What has a command's argument as its prefix is printed like what its    *)
(* user means, and to forge create it is that very environment             *)
(* (cmd/forge/main.go:188).                                                *)
(***************************************************************************)
LEMMA PrintedAlike ==
  ASSUME LookupInv, NEW u \in User, NEW id \in Id,
         cmd[u].kind # "none", IsPrefix(cmd[u].arg, id)
  PROVE  /\ cmd[u].meant \in Id
         /\ cmd[u].kind = "create" => id = cmd[u].meant
         /\ Printed(id) = Printed(cmd[u].meant)
<1>1. /\ cmd[u].meant \in Id
      /\ cmd[u].arg = IF cmd[u].kind = "create" THEN cmd[u].meant ELSE Printed(cmd[u].meant)
  BY DEF LookupInv, MeantInv, Stored
<1>2. CASE cmd[u].kind = "create"  BY <1>1, <1>2, PrefixOfId
<1>3. CASE cmd[u].kind # "create"  BY <1>1, <1>3, PrefixOfId
<1>4. QED  BY <1>1, <1>2, <1>3

(***************************************************************************)
(* Every variable stays in its type: no status but the three is ever       *)
(* stored (environment/types.go:7).                                        *)
(***************************************************************************)
THEOREM LookupTypeCorrectness == Spec => []TypeOK
<1>1. LookupInv => TypeOK  BY DEF LookupInv
<1>2. QED  BY <1>1, LookupInvariance, PTL

(***************************************************************************)
(* forge create ends with its own environment's status                     *)
(* (cmd/forge/main.go:188).                                                *)
(***************************************************************************)
THEOREM PollAlwaysFindsOwn == Spec => []PollFindsOwn
<1>1. LookupInv => PollFindsOwn
  <2> SUFFICES ASSUME LookupInv, NEW u \in User,
                      cmd[u].kind = "create", cmd[u].at = "done"
               PROVE  cmd[u].env = cmd[u].meant
    BY DEF PollFindsOwn
  <2>1. cmd[u].env \in Id /\ IsPrefix(cmd[u].arg, cmd[u].env)
    BY DEF LookupInv, HitInv, Stored
  <2>2. QED  BY <2>1, PrintedAlike
<1>2. QED  BY <1>1, LookupInvariance, PTL

(***************************************************************************)
(* A command hits what its user means or an environment printed alike with *)
(* an earlier key (apiserver/server.go:441).                               *)
(***************************************************************************)
THEOREM MissIsAlwaysAmbiguous == Spec => []MissIsAmbiguous
<1>1. LookupInv => MissIsAmbiguous
  <2> SUFFICES ASSUME LookupInv, NEW u \in User, cmd[u].kind # "none",
                      cmd[u].at \in {"saga", "done"}, cmd[u].env # cmd[u].meant
               PROVE  /\ cmd[u].env # None
                      /\ Printed(cmd[u].env) = Printed(cmd[u].meant)
                      /\ Before(cmd[u].env, cmd[u].meant)
    BY DEF MissIsAmbiguous
  <2>1. /\ cmd[u].env \in Id /\ IsPrefix(cmd[u].arg, cmd[u].env)
        /\ Before(cmd[u].env, cmd[u].meant)
    BY DEF LookupInv, HitInv, Stored
  <2>2. QED  BY <2>1, PrintedAlike, IdAssumption
<1>2. QED  BY <1>1, LookupInvariance, PTL

(***************************************************************************)
(* forge status shows one environment and its saga, or the saga of one     *)
(* that is printed alike and precedes it (cmd/forge/main.go:326).          *)
(***************************************************************************)
THEOREM StatusIsAlwaysOfOne == Spec => []StatusIsOfOne
<1>1. LookupInv => StatusIsOfOne
  <2> SUFFICES ASSUME LookupInv, NEW u \in User, cmd[u].kind = "status",
                      cmd[u].saga # None, cmd[u].saga # cmd[u].env
               PROVE  /\ Printed(cmd[u].saga) = Printed(cmd[u].env)
                      /\ Before(cmd[u].saga, cmd[u].env)
    BY DEF StatusIsOfOne
  <2>1. /\ cmd[u].at = "done"
        /\ cmd[u].saga \in Id /\ IsPrefix(cmd[u].arg, cmd[u].saga)
        /\ Before(cmd[u].saga, cmd[u].env)
    BY DEF LookupInv, TypeOK, Command, SecondInv, Stored
  <2>2. cmd[u].env \in Id /\ IsPrefix(cmd[u].arg, cmd[u].env)
    BY <2>1 DEF LookupInv, HitInv, Stored
  <2>3. QED  BY <2>1, <2>2, PrintedAlike
<1>2. QED  BY <1>1, LookupInvariance, PTL
=============================================================================
