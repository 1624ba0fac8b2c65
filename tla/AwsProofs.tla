------------------------------ MODULE AwsProofs ------------------------------
(***************************************************************************)
(* The properties of the steps that call AWS, for every number of retries, *)
(* errors, deaths, aborts, timeouts and broken calls of StartSaga.         *)
(***************************************************************************)
EXTENDS AwsStepsInv, SequenceTheorems, TLAPS

-----------------------------------------------------------------------------
(* What is left of a program after its first call, and the programs.       *)

LEMMA TailFacts ==
    ASSUME NEW t \in Seq(Op), t # <<>>
    PROVE  /\ Head(t) \in Op /\ Head(t) = t[1]
           /\ Tail(t) \in Seq(Op)
           /\ DOMAIN t = 1..Len(t) /\ Len(t) \in Nat \ {0}
           /\ DOMAIN Tail(t) = 1..(Len(t) - 1) /\ Len(Tail(t)) = Len(t) - 1
           /\ \A i \in DOMAIN Tail(t) : i + 1 \in DOMAIN t /\ Tail(t)[i] = t[i + 1]
           /\ \A i \in DOMAIN t : i # 1 => i - 1 \in DOMAIN Tail(t) /\ Tail(t)[i - 1] = t[i]
           /\ Range(t) = {Head(t)} \cup Range(Tail(t))
  <1>1. /\ Head(t) \in Op /\ Head(t) = t[1]
        /\ Tail(t) \in Seq(Op)
        /\ DOMAIN t = 1..Len(t) /\ Len(t) \in Nat \ {0}
        /\ DOMAIN Tail(t) = 1..(Len(t) - 1) /\ Len(Tail(t)) = Len(t) - 1
    BY EmptySeq, HeadTailProperties, LenProperties
  <1>2. \A i \in DOMAIN Tail(t) : i + 1 \in DOMAIN t /\ Tail(t)[i] = t[i + 1]
    BY <1>1, HeadTailProperties
  <1>3. \A i \in DOMAIN t : i # 1 => i - 1 \in DOMAIN Tail(t) /\ Tail(t)[i - 1] = t[i]
    <2>1. ASSUME NEW i \in DOMAIN t, i # 1
          PROVE  i - 1 \in DOMAIN Tail(t) /\ (i - 1) + 1 = i
      BY <1>1, <2>1
    <2> QED
      BY <1>2, <2>1
  <1>4. Range(t) = {Head(t)} \cup Range(Tail(t))
    <2>1. ASSUME NEW c \in Range(t) PROVE c \in {Head(t)} \cup Range(Tail(t))
      BY <1>1, <1>3 DEF Range
    <2>2. ASSUME NEW c \in Range(Tail(t)) PROVE c \in Range(t)
      BY <1>2 DEF Range
    <2>3. Head(t) \in Range(t)
      BY <1>1 DEF Range
    <2> QED
      BY <2>1, <2>2, <2>3
  <1> QED
    BY <1>1, <1>2, <1>3, <1>4

LEMMA FollowedByTail ==
    ASSUME NEW t \in Seq(Op), t # <<>>, NEW c, NEW d, FollowedBy(t, c, d)
    PROVE  FollowedBy(Tail(t), c, d) /\ (Head(t) = c => d \in Range(Tail(t)))
  <1>1. ASSUME NEW i \in DOMAIN t, t[i] = c
        PROVE  \E j \in DOMAIN Tail(t) : i < j + 1 /\ Tail(t)[j] = d
    <2>1. PICK j \in DOMAIN t : i < j /\ t[j] = d
      BY <1>1 DEF FollowedBy
    <2>2. i \in Nat \ {0} /\ j \in Nat \ {0} /\ j # 1
      BY <2>1, TailFacts
    <2>3. j - 1 \in DOMAIN Tail(t) /\ Tail(t)[j - 1] = d
      BY <2>1, <2>2, TailFacts
    <2>4. i < (j - 1) + 1
      BY <2>1, <2>2
    <2> QED
      BY <2>3, <2>4
  <1> QED
    BY <1>1, TailFacts DEF FollowedBy, Range

LEMMA NoneAfterTail ==
    ASSUME NEW t \in Seq(Op), t # <<>>, NEW c, NEW d, NoneAfter(t, c, d)
    PROVE  NoneAfter(Tail(t), c, d) /\ (Head(t) = c => d \notin Range(Tail(t)))
  <1>1. ASSUME NEW i \in DOMAIN Tail(t), NEW j \in DOMAIN Tail(t), Tail(t)[i] = c, Tail(t)[j] = d
        PROVE  ~(i < j)
    BY <1>1, TailFacts DEF NoneAfter
  <1>2. ASSUME NEW j \in DOMAIN Tail(t), Head(t) = c, Tail(t)[j] = d
        PROVE  FALSE
    <2>1. 1 \in DOMAIN t /\ j + 1 \in DOMAIN t /\ t[j + 1] = d /\ t[1] = c /\ 1 < j + 1
      BY <1>2, TailFacts
    <2> QED
      BY <2>1 DEF NoneAfter
  <1> QED
    BY <1>1, <1>2 DEF NoneAfter, Range

LEMMA PutLastTail ==
    ASSUME NEW t \in Seq(Op), t # <<>>, PutLast(t)
    PROVE  PutLast(Tail(t)) /\ (Head(t) = Put => Tail(t) = <<>>)
  <1>1. PutLast(Tail(t))
    BY TailFacts DEF PutLast
  <1>2. ASSUME Head(t) = Put PROVE Tail(t) = <<>>
    <2>1. 1 \in DOMAIN t /\ t[1] = Put
      BY <1>2, TailFacts
    <2>4. 1 = Len(t)
      BY <2>1 DEF PutLast
    <2>2. Len(Tail(t)) = 0
      BY <2>4, TailFacts
    <2>3. Tail(t) \in Seq(Op)
      BY TailFacts
    <2> QED
      BY <2>2, <2>3, EmptySeq
  <1> QED
    BY <1>1, <1>2

\* What is left of the order of a program, and what it says of the first call.
LEMMA ForwardTail ==
    ASSUME NEW s, NEW t \in Seq(Op), t # <<>>, ForwardOrder(s, t)
    PROVE  /\ ForwardOrder(s, Tail(t))
           /\ Head(t).do \in {"create", "set"} => Put \in Range(Tail(t))
           /\ \A k \in SlowToCome : Head(t) = Create(k) => Await(k) \in Range(Tail(t))
           /\ \A k \in Configured : Head(t) = Create(k) => Configure(k) \in Range(Tail(t))
           /\ Head(t) = Set("password") =>
                 Tail(t) # <<>> /\ Head(Tail(t)) = Create("db")
           /\ s \notin {Rds, Ec2} /\ Head(t) = Put => Tail(t) = <<>>
           /\ Head(t) = Do("upload", "placeholder") =>
                 Create("bucket") \notin Range(Tail(t))
           /\ \A k \in Kind : Head(t) = Create(k) => Create(k) \notin Range(Tail(t))
  <1>1. /\ \A i \in DOMAIN Tail(t) : Tail(t)[i].do \in {"create", "set"} =>
              \E j \in DOMAIN Tail(t) : i < j /\ Tail(t)[j] = Put
        /\ Head(t).do \in {"create", "set"} => Put \in Range(Tail(t))
    <2>1. ASSUME NEW i \in DOMAIN t, t[i].do \in {"create", "set"}
          PROVE  \E j \in DOMAIN Tail(t) : i < j + 1 /\ Tail(t)[j] = Put
      <3>1. PICK j \in DOMAIN t : i < j /\ t[j] = Put
        BY <2>1 DEF ForwardOrder
      <3>2. i \in Nat \ {0} /\ j \in Nat \ {0} /\ j # 1
        BY <3>1, TailFacts
      <3>3. j - 1 \in DOMAIN Tail(t) /\ Tail(t)[j - 1] = Put
        BY <3>1, <3>2, TailFacts
      <3>4. i < (j - 1) + 1
        BY <3>1, <3>2
      <3> QED
        BY <3>3, <3>4
    <2>2. ASSUME NEW i \in DOMAIN Tail(t), Tail(t)[i].do \in {"create", "set"}
          PROVE  \E j \in DOMAIN Tail(t) : i < j /\ Tail(t)[j] = Put
      <3>1. i + 1 \in DOMAIN t /\ t[i + 1].do \in {"create", "set"}
        BY <2>2, TailFacts
      <3>2. PICK j \in DOMAIN Tail(t) : i + 1 < j + 1 /\ Tail(t)[j] = Put
        BY <2>1, <3>1
      <3>3. i \in Int /\ j \in Int
        BY TailFacts
      <3>4. i < j
        BY <3>2, <3>3
      <3> QED
        BY <3>2, <3>4
    <2>3. ASSUME Head(t).do \in {"create", "set"} PROVE Put \in Range(Tail(t))
      <3>1. 1 \in DOMAIN t /\ t[1].do \in {"create", "set"}
        BY <2>3, TailFacts
      <3>2. PICK j \in DOMAIN Tail(t) : Tail(t)[j] = Put
        BY <2>1, <3>1
      <3> QED
        BY <3>2 DEF Range
    <2> QED
      BY <2>2, <2>3
  <1>2. \A k \in SlowToCome : /\ FollowedBy(Tail(t), Create(k), Await(k))
                              /\ Head(t) = Create(k) => Await(k) \in Range(Tail(t))
    BY FollowedByTail DEF ForwardOrder
  <1>3. \A k \in Configured : /\ FollowedBy(Tail(t), Create(k), Configure(k))
                              /\ Head(t) = Create(k) => Configure(k) \in Range(Tail(t))
    BY FollowedByTail DEF ForwardOrder
  <1>4. ASSUME NEW i \in DOMAIN Tail(t), Tail(t)[i] = Set("password")
        PROVE  i + 1 \in DOMAIN Tail(t) /\ Tail(t)[i + 1] = Create("db")
    <2>1. i + 1 \in DOMAIN t /\ t[i + 1] = Set("password") /\ i \in 1..(Len(t) - 1)
      BY <1>4, TailFacts
    <2>2. (i + 1) + 1 \in DOMAIN t /\ t[(i + 1) + 1] = Create("db")
      BY <2>1 DEF ForwardOrder
    <2>3. (i + 1) + 1 # 1 /\ ((i + 1) + 1) - 1 = i + 1
      BY <2>1
    <2> QED
      BY <2>2, <2>3, TailFacts
  <1>5. ASSUME Head(t) = Set("password")
        PROVE  Tail(t) # <<>> /\ Head(Tail(t)) = Create("db")
    <2>1. 2 \in DOMAIN t /\ t[2] = Create("db")
      <3>1. 1 \in DOMAIN t /\ t[1] = Set("password")
        BY <1>5, TailFacts
      <3> QED
        BY <3>1 DEF ForwardOrder
    <2>2. 1 \in DOMAIN Tail(t) /\ Tail(t)[1] = Create("db")
      <3>1. 2 # 1 /\ 2 - 1 = 1
        OBVIOUS
      <3> QED
        BY <2>1, <3>1, TailFacts
    <2>3. Tail(t) # <<>> /\ Tail(t) \in Seq(Op)
      BY <2>2, TailFacts, EmptySeq
    <2> QED
      BY <2>2, <2>3, TailFacts
  <1>6. s \notin {Rds, Ec2} =>
           PutLast(Tail(t)) /\ (Head(t) = Put => Tail(t) = <<>>)
    BY PutLastTail DEF ForwardOrder
  <1>7. /\ NoneAfter(Tail(t), Do("upload", "placeholder"), Create("bucket"))
        /\ Head(t) = Do("upload", "placeholder") => Create("bucket") \notin Range(Tail(t))
    BY NoneAfterTail DEF ForwardOrder
  <1>8. \A k \in Kind : /\ NoneAfter(Tail(t), Create(k), Create(k))
                        /\ Head(t) = Create(k) => Create(k) \notin Range(Tail(t))
    BY NoneAfterTail DEF ForwardOrder
  <1> QED
    BY <1>1, <1>2, <1>3, <1>4, <1>5, <1>6, <1>7, <1>8 DEF ForwardOrder

LEMMA BackwardTail ==
    ASSUME NEW s, NEW t \in Seq(Op), t # <<>>, BackwardOrder(s, t)
    PROVE  /\ BackwardOrder(s, Tail(t))
           /\ Head(t) = Put => Tail(t) = <<>>
           /\ s = Vpc /\ Head(t).do = "clear" => \A c \in Range(Tail(t)) : c = Put
           /\ s = Vpc /\ Head(t) = Delete("vpc") =>
                 \A k \in {"pub", "prv", "sg"} : Delete(k) \notin Range(Tail(t))
           /\ s = S3 /\ Head(t) = Delete("bucket") => Delete("object") \notin Range(Tail(t))
  <1>1. PutLast(Tail(t)) /\ (Head(t) = Put => Tail(t) = <<>>)
    BY PutLastTail DEF BackwardOrder
  <1>2. ASSUME s = Vpc, NEW i \in DOMAIN Tail(t), NEW j \in DOMAIN Tail(t),
               Tail(t)[i].do = "clear", i < j
        PROVE  Tail(t)[j] = Put
    <2>1. /\ i + 1 \in DOMAIN t /\ j + 1 \in DOMAIN t /\ t[i + 1].do = "clear"
          /\ i + 1 < j + 1 /\ Tail(t)[j] = t[j + 1]
      BY <1>2, TailFacts
    <2> QED
      BY <1>2, <2>1 DEF BackwardOrder
  <1>3. ASSUME s = Vpc, Head(t).do = "clear", NEW j \in DOMAIN Tail(t)
        PROVE  Tail(t)[j] = Put
    <2>1. /\ 1 \in DOMAIN t /\ j + 1 \in DOMAIN t /\ t[1].do = "clear"
          /\ 1 < j + 1 /\ Tail(t)[j] = t[j + 1]
      BY <1>3, TailFacts
    <2> QED
      BY <1>3, <2>1 DEF BackwardOrder
  <1>4. s = Vpc => \A k \in {"pub", "prv", "sg"} :
                      /\ NoneAfter(Tail(t), Delete("vpc"), Delete(k))
                      /\ Head(t) = Delete("vpc") => Delete(k) \notin Range(Tail(t))
    BY NoneAfterTail DEF BackwardOrder
  <1>5. s = S3 => /\ NoneAfter(Tail(t), Delete("bucket"), Delete("object"))
                  /\ Head(t) = Delete("bucket") => Delete("object") \notin Range(Tail(t))
    BY NoneAfterTail DEF BackwardOrder
  <1> QED
    BY <1>1, <1>2, <1>3, <1>4, <1>5 DEF BackwardOrder, Range

-----------------------------------------------------------------------------
(* The programs of the steps.                                              *)

\* Fields and kinds belong to one step each.
LEMMA OwnFacts ==
    /\ \A s \in 1..8 : Own[s] \subseteq Field
    /\ \A k \in Kind \ {"object"} : k \in Field /\ k \in Own[StepOf(k)]
    /\ \A k \in Kind : StepOf(k) \in 1..6
    /\ \A s \in 1..8, k \in Kind : k \in Own[s] => StepOf(k) = s /\ k # "object"
    /\ "object" \notin Field /\ StepOf("object") = S3
    /\ \A s, r \in 1..8 : s # r => Own[s] \cap Own[r] = {}
    /\ Ident = Kind \ {"file", "object"}
  BY DEF Own, Field, Kind, StepOf, Vpc, Rds, Ec2, S3, Identity, Config, Ident

\* The programs of Execute are what the steps run forward.
Forward(s, t) ==
    /\ t \in Seq(Op)
    /\ \A i \in DOMAIN t : ForwardOp(s, t[i])
    /\ ForwardOrder(s, t)

LEMMA ForwardIsForward ==
    ASSUME NEW s, NEW t, Forward(s, t)
    PROVE  t \in Seq(Op) /\ (\A c \in Range(t) : ForwardOp(s, c)) /\ ForwardOrder(s, t)
  BY DEF Forward, Range

LEMMA ForwardNothing ==
    ASSUME NEW s PROVE Forward(s, <<>>)
  BY EmptySeq DEF Forward, ForwardOrder, FollowedBy, NoneAfter, PutLast

LEMMA VpcIsForward == Forward(Vpc, VpcExecute)
  <1>1. VpcExecute \in Seq(Op)
    BY DEF VpcExecute, Op, Create, Configure, Await, Other, Put, Do, Field, Kind, Upper
  <1>2. \A i \in DOMAIN VpcExecute : ForwardOp(Vpc, VpcExecute[i])
    BY DEF VpcExecute, Create, Configure, Await, Other, Put, Do, Field, Kind,
           ForwardOp, Own, SlowToCome, Configured, Vpc
  <1>3. ForwardOrder(Vpc, VpcExecute)
    BY DEF VpcExecute, Create, Configure, Await, Other, Put, Set, Do, Kind,
           ForwardOrder, FollowedBy, NoneAfter, PutLast, SlowToCome, Configured, Vpc, Rds, Ec2
  <1> QED
    BY <1>1, <1>2, <1>3 DEF Forward

LEMMA RdsIsForward == Forward(Rds, RdsExecute)
  <1>1. RdsExecute \in Seq(Op)
    BY DEF RdsExecute, Op, Create, Configure, Await, Other, Put, Set, Do, Field, Kind, Upper
  <1>2. \A i \in DOMAIN RdsExecute : ForwardOp(Rds, RdsExecute[i])
    BY DEF RdsExecute, Create, Configure, Await, Other, Put, Set, Do, Field, Kind,
           ForwardOp, Own, SlowToCome, Configured, Rds
  <1>3. ForwardOrder(Rds, RdsExecute)
    BY DEF RdsExecute, Create, Configure, Await, Other, Put, Set, Do, Kind,
           ForwardOrder, FollowedBy, NoneAfter, PutLast, SlowToCome, Configured,
           Rds, Ec2
  <1> QED
    BY <1>1, <1>2, <1>3 DEF Forward

LEMMA Ec2IsForward == Forward(Ec2, Ec2Execute)
  <1>1. Ec2Execute \in Seq(Op)
    BY DEF Ec2Execute, Op, Create, Configure, Await, Other, Put, Set, Do, Field, Kind, Upper
  <1>2. \A i \in DOMAIN Ec2Execute : ForwardOp(Ec2, Ec2Execute[i])
    BY DEF Ec2Execute, Create, Configure, Await, Other, Put, Set, Do, Field, Kind,
           ForwardOp, Own, SlowToCome, Configured, Ec2
  <1>3. ForwardOrder(Ec2, Ec2Execute)
    BY DEF Ec2Execute, Create, Configure, Await, Other, Put, Set, Do, Kind,
           ForwardOrder, FollowedBy, NoneAfter, PutLast, SlowToCome, Configured,
           Rds, Ec2
  <1> QED
    BY <1>1, <1>2, <1>3 DEF Forward

LEMMA S3IsForward == Forward(S3, S3Execute)
  <1>1. S3Execute \in Seq(Op)
    BY DEF S3Execute, Op, Create, Configure, Await, Other, Put, Set, Do, Field, Kind, Upper
  <1>2. \A i \in DOMAIN S3Execute : ForwardOp(S3, S3Execute[i])
    BY DEF S3Execute, Create, Configure, Await, Other, Put, Set, Do, Field, Kind,
           ForwardOp, Own, SlowToCome, Configured, S3
  <1>3. ForwardOrder(S3, S3Execute)
    BY DEF S3Execute, Create, Configure, Await, Other, Put, Set, Do, Kind,
           ForwardOrder, FollowedBy, NoneAfter, PutLast, SlowToCome, Configured,
           Rds, Ec2, S3
  <1> QED
    BY <1>1, <1>2, <1>3 DEF Forward

LEMMA IdentityIsForward == Forward(Identity, IdentityExecute)
  <1>1. IdentityExecute \in Seq(Op)
    BY DEF IdentityExecute, Op, Create, Configure, Await, Other, Put, Set, Do, Field, Kind, Upper
  <1>2. \A i \in DOMAIN IdentityExecute : ForwardOp(Identity, IdentityExecute[i])
    BY DEF IdentityExecute, Create, Configure, Await, Other, Put, Set, Do, Field, Kind,
           ForwardOp, Own, SlowToCome, Configured, Identity
  <1>3. ForwardOrder(Identity, IdentityExecute)
    BY DEF IdentityExecute, Create, Configure, Await, Other, Put, Set, Do, Kind,
           ForwardOrder, FollowedBy, NoneAfter, PutLast, SlowToCome, Configured,
           Rds, Ec2, Identity
  <1> QED
    BY <1>1, <1>2, <1>3 DEF Forward

LEMMA ConfigIsForward == Forward(Config, ConfigExecute)
  <1>1. ConfigExecute \in Seq(Op)
    BY DEF ConfigExecute, Op, Create, Configure, Await, Other, Put, Set, Do, Field, Kind, Upper
  <1>2. \A i \in DOMAIN ConfigExecute : ForwardOp(Config, ConfigExecute[i])
    BY DEF ConfigExecute, Create, Configure, Await, Other, Put, Set, Do, Field, Kind,
           ForwardOp, Own, SlowToCome, Configured, Config
  <1>3. ForwardOrder(Config, ConfigExecute)
    BY DEF ConfigExecute, Create, Configure, Await, Other, Put, Set, Do, Kind,
           ForwardOrder, FollowedBy, NoneAfter, PutLast, SlowToCome, Configured,
           Rds, Ec2, Config
  <1> QED
    BY <1>1, <1>2, <1>3 DEF Forward

LEMMA HealthIsForward == Forward(Health, HealthExecute)
  <1>1. HealthExecute \in Seq(Op)
    BY DEF HealthExecute, Op, Create, Configure, Await, Other, Put, Set, Do, Field, Kind, Upper
  <1>2. \A i \in DOMAIN HealthExecute : ForwardOp(Health, HealthExecute[i])
    BY DEF HealthExecute, Create, Configure, Await, Other, Put, Set, Do, Field, Kind,
           ForwardOp, Own, SlowToCome, Configured, Health
  <1>3. ForwardOrder(Health, HealthExecute)
    BY DEF HealthExecute, Create, Configure, Await, Other, Put, Set, Do, Kind,
           ForwardOrder, FollowedBy, NoneAfter, PutLast, SlowToCome, Configured,
           Rds, Ec2, Health
  <1> QED
    BY <1>1, <1>2, <1>3 DEF Forward

LEMMA RegistryIsForward == Forward(Registry, RegistryExecute)
  <1>1. RegistryExecute \in Seq(Op)
    BY DEF RegistryExecute, Op, Create, Configure, Await, Other, Put, Set, Do, Field, Kind, Upper
  <1>2. \A i \in DOMAIN RegistryExecute : ForwardOp(Registry, RegistryExecute[i])
    BY DEF RegistryExecute, Create, Configure, Await, Other, Put, Set, Do, Field, Kind,
           ForwardOp, Own, SlowToCome, Configured, Registry
  <1>3. ForwardOrder(Registry, RegistryExecute)
    BY DEF RegistryExecute, Create, Configure, Await, Other, Put, Set, Do, Kind,
           ForwardOrder, FollowedBy, NoneAfter, PutLast, SlowToCome, Configured,
           Rds, Ec2, Registry
  <1> QED
    BY <1>1, <1>2, <1>3 DEF Forward

LEMMA ExecutionForward ==
    ASSUME NEW s \in 1..8
    PROVE  Forward(s, Execution[s]) /\ Forward(s, <<>>)
  BY VpcIsForward, RdsIsForward, Ec2IsForward, S3IsForward, IdentityIsForward,
     ConfigIsForward, HealthIsForward, RegistryIsForward, ForwardNothing
  DEF Execution, Vpc, Rds, Ec2, S3, Identity, Config, Health, Registry

\* Programs put together.
LEMMA ConcatFacts ==
    ASSUME NEW a \in Seq(Op), NEW b \in Seq(Op)
    PROVE  /\ a \o b \in Seq(Op)
           /\ Range(a \o b) = Range(a) \cup Range(b)
           /\ \A i \in DOMAIN (a \o b) :
                 \/ i \in DOMAIN a /\ (a \o b)[i] = a[i]
                 \/ i - Len(a) \in DOMAIN b /\ (a \o b)[i] = b[i - Len(a)]
  <1>1. /\ a \o b \in Seq(Op)
        /\ Len(a \o b) = Len(a) + Len(b)
        /\ DOMAIN (a \o b) = 1..Len(a \o b)
        /\ \A i \in 1..(Len(a) + Len(b)) :
              (a \o b)[i] = IF i <= Len(a) THEN a[i] ELSE b[i - Len(a)]
    BY ConcatProperties, LenProperties
  <1>2. /\ DOMAIN a = 1..Len(a) /\ Len(a) \in Nat
        /\ DOMAIN b = 1..Len(b) /\ Len(b) \in Nat
    BY LenProperties
  <1>3. \A i \in DOMAIN (a \o b) :
           \/ i \in DOMAIN a /\ (a \o b)[i] = a[i]
           \/ i - Len(a) \in DOMAIN b /\ (a \o b)[i] = b[i - Len(a)]
    BY <1>1, <1>2
  <1>4. Range(a \o b) = Range(a) \cup Range(b)
    BY RangeConcatenation
  <1> QED
    BY <1>1, <1>3, <1>4

LEMMA ConcatNoneAfter ==
    ASSUME NEW a \in Seq(Op), NEW b \in Seq(Op), NEW c, NEW d,
           NoneAfter(a, c, d), NoneAfter(b, c, d), c \notin Range(a) \/ d \notin Range(b)
    PROVE  NoneAfter(a \o b, c, d)
  <1> SUFFICES ASSUME NEW i \in DOMAIN (a \o b), NEW j \in DOMAIN (a \o b),
                      (a \o b)[i] = c, (a \o b)[j] = d
               PROVE  ~(i < j)
    BY DEF NoneAfter
  <1>1. Len(a) \in Nat /\ DOMAIN a = 1..Len(a) /\ DOMAIN b = 1..Len(b) /\ Len(b) \in Nat
    BY LenProperties
  <1>2. CASE i \in DOMAIN a /\ a[i] = c
    <2>1. c \in Range(a)
      BY <1>2 DEF Range
    <2>2. ~(j - Len(a) \in DOMAIN b /\ b[j - Len(a)] = d)
      BY <2>1 DEF Range
    <2>3. j \in DOMAIN a /\ a[j] = d
      BY <2>2, ConcatFacts
    <2> QED
      BY <1>2, <2>3 DEF NoneAfter
  <1>3. CASE i - Len(a) \in DOMAIN b /\ b[i - Len(a)] = c
    <2>1. CASE j \in DOMAIN a
      BY <1>1, <1>3, <2>1
    <2>2. CASE j - Len(a) \in DOMAIN b /\ b[j - Len(a)] = d
      <3>1. ~(i - Len(a) < j - Len(a))
        BY <1>3, <2>2 DEF NoneAfter
      <3>2. i \in Int /\ j \in Int
        BY ConcatFacts, LenProperties
      <3> QED
        BY <1>1, <3>1, <3>2
    <2> QED
      BY <2>1, <2>2, ConcatFacts
  <1> QED
    BY <1>2, <1>3, ConcatFacts

LEMMA ConcatPutLast ==
    ASSUME NEW a \in Seq(Op), NEW b \in Seq(Op), Put \notin Range(a), PutLast(b)
    PROVE  PutLast(a \o b)
  <1> SUFFICES ASSUME NEW i \in DOMAIN (a \o b), (a \o b)[i] = Put
               PROVE  i = Len(a \o b)
    BY DEF PutLast
  <1>1. ~(i \in DOMAIN a /\ a[i] = Put)
    BY DEF Range
  <1>2. i - Len(a) \in DOMAIN b /\ b[i - Len(a)] = Put
    BY <1>1, ConcatFacts
  <1>3. i - Len(a) = Len(b)
    BY <1>2 DEF PutLast
  <1>4. Len(a \o b) = Len(a) + Len(b) /\ Len(a) \in Nat /\ Len(b) \in Nat /\ i \in Int
    BY ConcatProperties, LenProperties, ConcatFacts
  <1> QED
    BY <1>3, <1>4

LEMMA NoneAfterAbsent ==
    ASSUME NEW a, NEW c, NEW d, c \notin Range(a) \/ d \notin Range(a)
    PROVE  NoneAfter(a, c, d)
  BY DEF NoneAfter, Range

\* The programs of Compensate are what the steps run backward.
Backward(s, t) ==
    /\ t \in Seq(Op)
    /\ \A c \in Range(t) : BackwardOp(s, c)
    /\ BackwardOrder(s, t)

LEMMA BackwardNothing ==
    ASSUME NEW s PROVE Backward(s, <<>>) /\ Range(<<>>) = {}
  BY EmptySeq DEF Backward, BackwardOrder, NoneAfter, PutLast, Range

\* Optional deletions.
LEMMA IfDelete ==
    ASSUME NEW env, NEW f \in Field, NEW k \in Field
    PROVE  /\ If(env, f, << Delete(k) >>) \in Seq(Op)
           /\ Range(If(env, f, << Delete(k) >>)) = IF env[f] # 0 THEN {Delete(k)} ELSE {}
  <1>1. << Delete(k) >> \in Seq(Op) /\ <<>> \in Seq(Op)
    BY EmptySeq DEF Op, Delete, Do
  <1>2. Range(<< Delete(k) >>) = {Delete(k)} /\ Range(<<>>) = {}
    BY DEF Range
  <1> QED
    BY <1>1, <1>2 DEF If

VpcFields == {"sg", "pub", "prv", "vpc"}

LEMMA VpcIsBackward ==
    ASSUME NEW env
    PROVE  /\ Backward(Vpc, VpcCompensate(env))
           /\ Range(VpcCompensate(env)) =
                 {Delete(k) : k \in {f \in VpcFields : env[f] # 0}} \cup {Clear(VpcFields), Put}
  <1> DEFINE a == If(env, "sg", << Delete("sg") >>)
             b == If(env, "pub", << Delete("pub") >>)
             c == If(env, "prv", << Delete("prv") >>)
             d == If(env, "vpc", << Delete("vpc") >>)
             e == << Clear(VpcFields), Put >>
             abc == (a \o b) \o c
             abcd == abc \o d
  <1>1. VpcCompensate(env) = abcd \o e
    BY DEF VpcCompensate, VpcFields
  <1>2. /\ a \in Seq(Op) /\ b \in Seq(Op) /\ c \in Seq(Op) /\ d \in Seq(Op)
        /\ Range(a) = IF env["sg"] # 0 THEN {Delete("sg")} ELSE {}
        /\ Range(b) = IF env["pub"] # 0 THEN {Delete("pub")} ELSE {}
        /\ Range(c) = IF env["prv"] # 0 THEN {Delete("prv")} ELSE {}
        /\ Range(d) = IF env["vpc"] # 0 THEN {Delete("vpc")} ELSE {}
    BY IfDelete DEF Field, Kind
  <1>3. /\ e \in Seq(Op) /\ Range(e) = {Clear(VpcFields), Put} /\ PutLast(e)
        /\ DOMAIN e = 1..2 /\ e[2] = Put
    BY DEF Op, Clear, Put, Do, Range, PutLast, VpcFields, Field, Kind, Upper
  <1> HIDE DEF a, b, c, d, e
  <1>4. a \o b \in Seq(Op) /\ abc \in Seq(Op) /\ abcd \in Seq(Op) /\ abcd \o e \in Seq(Op)
    BY <1>2, <1>3, ConcatFacts
  <1>5. /\ Range(abc) = Range(a) \cup Range(b) \cup Range(c)
        /\ Range(abcd) = Range(abc) \cup Range(d)
        /\ Range(abcd \o e) = Range(abcd) \cup Range(e)
    <2>1. Range(a \o b) = Range(a) \cup Range(b)
      BY <1>2, ConcatFacts
    <2>2. Range(abc) = Range(a \o b) \cup Range(c)
      BY <1>2, <1>4, ConcatFacts
    <2>3. Range(abcd) = Range(abc) \cup Range(d)
      BY <1>2, <1>4, ConcatFacts
    <2> QED
      BY <1>3, <1>4, <2>1, <2>2, <2>3, ConcatFacts
  <1> HIDE DEF abc, abcd
  <1>6. Put \notin Range(abcd) /\ \A x \in Range(abcd) : x.do # "clear"
    BY <1>2, <1>5 DEF Put, Delete, Do
  <1>7. PutLast(abcd \o e)
    BY <1>3, <1>4, <1>6, ConcatPutLast
  <1>8. ASSUME NEW i \in DOMAIN (abcd \o e), NEW j \in DOMAIN (abcd \o e),
               (abcd \o e)[i].do = "clear", i < j
        PROVE  (abcd \o e)[j] = Put
    <2>1. i - Len(abcd) \in DOMAIN e
      BY <1>3, <1>4, <1>6, <1>8, ConcatFacts DEF Range
    <2>2. /\ Len(abcd) \in Nat /\ DOMAIN abcd = 1..Len(abcd) /\ i \in Int /\ j \in Int
      <3>1. DOMAIN (abcd \o e) = 1..Len(abcd \o e)
        BY <1>4, LenProperties
      <3> QED
        BY <1>4, <3>1, LenProperties
    <2>3. j - Len(abcd) \in DOMAIN e /\ (abcd \o e)[j] = e[j - Len(abcd)]
      <3>1. j \notin DOMAIN abcd
        BY <1>3, <1>8, <2>1, <2>2
      <3> QED
        BY <1>3, <1>4, <1>8, <3>1, ConcatFacts
    <2> QED
      BY <1>3, <1>8, <2>1, <2>2, <2>3
  <1>9. ASSUME NEW k \in {"pub", "prv", "sg"}
        PROVE  NoneAfter(abcd \o e, Delete("vpc"), Delete(k))
    <2>1. Delete("vpc") \notin Range(abc) /\ Delete(k) \notin Range(d) /\ Delete(k) \notin Range(e)
      BY <1>2, <1>3, <1>5, <1>9 DEF Put, Clear, Delete, Do
    <2>2. NoneAfter(abcd, Delete("vpc"), Delete(k))
      BY <1>2, <1>4, <2>1, NoneAfterAbsent, ConcatNoneAfter DEF abcd
    <2> QED
      BY <1>3, <1>4, <2>1, <2>2, NoneAfterAbsent, ConcatNoneAfter
  <1>10. Range(abcd \o e) =
           {Delete(k) : k \in {f \in VpcFields : env[f] # 0}} \cup {Clear(VpcFields), Put}
    BY <1>2, <1>3, <1>5 DEF VpcFields
  <1>11. \A x \in Range(abcd \o e) : BackwardOp(Vpc, x)
    BY <1>10 DEF BackwardOp, VpcFields, Own, Vpc, Kind, Clear, Delete, Put, Do
  <1>12. BackwardOrder(Vpc, abcd \o e)
    BY <1>7, <1>8, <1>9 DEF BackwardOrder, Vpc, S3
  <1> QED
    BY <1>1, <1>4, <1>10, <1>11, <1>12 DEF Backward

LEMMA RdsIsBackward ==
    ASSUME NEW env
    PROVE  /\ Backward(Rds, RdsCompensate(env))
           /\ Range(RdsCompensate(env)) =
                 IF env["db"] # 0
                   THEN {Delete("db"), AwaitGone("db"), Clear({"db", "endpoint", "password"}), Put}
                   ELSE {}
  <1> DEFINE t == << Delete("db"), AwaitGone("db"), Clear({"db", "endpoint", "password"}), Put >>
  <1>1. t \in Seq(Op)
    BY DEF Op, Delete, AwaitGone, Clear, Put, Do, Field, Kind, Upper
  <1>2. Range(t) = {Delete("db"), AwaitGone("db"), Clear({"db", "endpoint", "password"}), Put}
    BY DEF Range
  <1>3. \A c \in Range(t) : BackwardOp(Rds, c)
    BY <1>2 DEF BackwardOp, Own, Rds, Kind, SlowToGo, Delete, AwaitGone, Clear, Put, Do
  <1>4. BackwardOrder(Rds, t)
    BY DEF BackwardOrder, PutLast, Vpc, Rds, S3, Delete, AwaitGone, Clear, Put, Do
  <1> QED
    BY <1>1, <1>2, <1>3, <1>4, BackwardNothing DEF Backward, RdsCompensate, If

LEMMA Ec2IsBackward ==
    ASSUME NEW env
    PROVE  /\ Backward(Ec2, Ec2Compensate(env))
           /\ Range(Ec2Compensate(env)) =
                 IF env["instance"] # 0
                   THEN {Delete("instance"), AwaitGone("instance"),
                         Clear({"instance", "ip"}), Put}
                   ELSE {}
  <1> DEFINE t == << Delete("instance"), AwaitGone("instance"), Clear({"instance", "ip"}), Put >>
  <1>1. t \in Seq(Op)
    BY DEF Op, Delete, AwaitGone, Clear, Put, Do, Field, Kind, Upper
  <1>2. Range(t) = {Delete("instance"), AwaitGone("instance"), Clear({"instance", "ip"}), Put}
    BY DEF Range
  <1>3. \A c \in Range(t) : BackwardOp(Ec2, c)
    BY <1>2 DEF BackwardOp, Own, Ec2, Kind, SlowToGo, Delete, AwaitGone, Clear, Put, Do
  <1>4. BackwardOrder(Ec2, t)
    BY DEF BackwardOrder, PutLast, Vpc, Ec2, S3, Delete, AwaitGone, Clear, Put, Do
  <1> QED
    BY <1>1, <1>2, <1>3, <1>4, BackwardNothing DEF Backward, Ec2Compensate, If

LEMMA S3IsBackward ==
    ASSUME NEW env
    PROVE  /\ Backward(S3, S3Compensate(env))
           /\ Range(S3Compensate(env)) =
                 IF env["bucket"] # 0
                   THEN {Delete("object"), Delete("bucket"), Clear({"bucket"}), Put}
                   ELSE {}
  <1> DEFINE t == << Delete("object"), Delete("bucket"), Clear({"bucket"}), Put >>
  <1>1. t \in Seq(Op)
    BY DEF Op, Delete, Clear, Put, Do, Field, Kind, Upper
  <1>2. Range(t) = {Delete("object"), Delete("bucket"), Clear({"bucket"}), Put}
    BY DEF Range
  <1>3. \A c \in Range(t) : BackwardOp(S3, c)
    BY <1>2 DEF BackwardOp, Own, S3, Kind, Delete, Clear, Put, Do
  <1>4. BackwardOrder(S3, t)
    BY DEF BackwardOrder, PutLast, NoneAfter, Vpc, S3, Delete, Clear, Put, Do
  <1> QED
    BY <1>1, <1>2, <1>3, <1>4, BackwardNothing DEF Backward, S3Compensate, If

LEMMA IdentityIsBackward ==
    ASSUME NEW env
    PROVE  /\ Backward(Identity, IdentityCompensate(env))
           /\ Range(IdentityCompensate(env)) =
                 (IF env["policy"] # 0 THEN {Delete("policy"), Clear({"policy"}), Other} ELSE {})
                    \cup {Clear({"entries"}), Put}
  <1> DEFINE p == << Delete("policy"), Clear({"policy"}), Other >>
             a == If(env, "policy", p)
             b == << Clear({"entries"}), Put >>
  <1>1. p \in Seq(Op) /\ b \in Seq(Op) /\ PutLast(b)
    BY DEF Op, Delete, Clear, Other, Put, Do, Field, Kind, Upper, PutLast
  <1>2. /\ Range(p) = {Delete("policy"), Clear({"policy"}), Other}
        /\ Range(b) = {Clear({"entries"}), Put}
    BY DEF Range
  <1>3. /\ a \in Seq(Op)
        /\ Range(a) = IF env["policy"] # 0 THEN {Delete("policy"), Clear({"policy"}), Other}
                                           ELSE {}
    BY <1>1, <1>2, EmptySeq, BackwardNothing DEF If
  <1> HIDE DEF p, a, b
  <1>4. a \o b \in Seq(Op) /\ Range(a \o b) = Range(a) \cup Range(b)
    BY <1>1, <1>3, ConcatFacts
  <1>5. Put \notin Range(a)
    BY <1>3 DEF Delete, Clear, Other, Put, Do
  <1>6. PutLast(a \o b)
    BY <1>1, <1>3, <1>5, ConcatPutLast
  <1>7. \A c \in Range(a \o b) : BackwardOp(Identity, c)
    BY <1>2, <1>3, <1>4
    DEF BackwardOp, Own, Identity, Kind, Delete, Clear, Other, Put, Do
  <1>8. BackwardOrder(Identity, a \o b)
    BY <1>6 DEF BackwardOrder, Identity, Vpc, S3
  <1>9. IdentityCompensate(env) = a \o b
    BY DEF IdentityCompensate, a, b, p
  <1> QED
    BY <1>2, <1>3, <1>4, <1>7, <1>8, <1>9 DEF Backward

LEMMA ConfigIsBackward ==
    ASSUME NEW env
    PROVE  /\ Backward(Config, ConfigCompensate(env))
           /\ Range(ConfigCompensate(env)) =
                 (IF env["bucket"] # 0 THEN {Do("hide", "object")} ELSE {})
                    \cup (IF env["file"] # 0 THEN {Delete("file"), Clear({"file"})} ELSE {})
                    \cup {Put}
  <1> DEFINE p == << Do("hide", "object") >>
             q == << Delete("file"), Clear({"file"}) >>
             a == If(env, "bucket", p)
             b == If(env, "file", q)
             c == << Put >>
  <1>1. p \in Seq(Op) /\ q \in Seq(Op) /\ c \in Seq(Op) /\ PutLast(c)
    BY DEF Op, Delete, Clear, Put, Do, Field, Kind, Upper, PutLast
  <1>2. /\ Range(p) = {Do("hide", "object")}
        /\ Range(q) = {Delete("file"), Clear({"file"})}
        /\ Range(c) = {Put}
    BY DEF Range
  <1>3. /\ a \in Seq(Op) /\ b \in Seq(Op)
        /\ Range(a) = IF env["bucket"] # 0 THEN {Do("hide", "object")} ELSE {}
        /\ Range(b) = IF env["file"] # 0 THEN {Delete("file"), Clear({"file"})} ELSE {}
    BY <1>1, <1>2, EmptySeq, BackwardNothing DEF If
  <1> HIDE DEF p, q, a, b, c
  <1>4. a \o b \in Seq(Op) /\ Range(a \o b) = Range(a) \cup Range(b)
    BY <1>3, ConcatFacts
  <1>5. (a \o b) \o c \in Seq(Op) /\ Range((a \o b) \o c) = Range(a \o b) \cup Range(c)
    BY <1>1, <1>4, ConcatFacts
  <1>6. Put \notin Range(a \o b)
    BY <1>3, <1>4 DEF Delete, Clear, Put, Do
  <1>7. PutLast((a \o b) \o c)
    BY <1>1, <1>4, <1>6, ConcatPutLast
  <1>8. \A x \in Range((a \o b) \o c) : BackwardOp(Config, x)
    BY <1>2, <1>3, <1>4, <1>5
    DEF BackwardOp, Own, Config, Kind, Delete, Clear, Put, Do
  <1>9. BackwardOrder(Config, (a \o b) \o c)
    BY <1>7 DEF BackwardOrder, Config, Vpc, S3
  <1>10. ConfigCompensate(env) = (a \o b) \o c
    BY DEF ConfigCompensate, a, b, c, p, q
  <1> QED
    BY <1>2, <1>3, <1>4, <1>5, <1>8, <1>9, <1>10 DEF Backward

\* What a compensation clears and deletes.
Undoes(s, env, t) ==
    /\ Backward(s, t)
    /\ \A k \in Own[s] \cap Kind : env[k] # 0 =>
          /\ Put \in Range(t)
          /\ \E c \in Range(t) : c.do = "clear" /\ k \in c.on
          /\ Delete(k) \in Range(t)
          /\ k \in SlowToGo => AwaitGone(k) \in Range(t)
    /\ s = S3 /\ env["bucket"] # 0 => Delete("object") \in Range(t)
    /\ s = Vpc => \A k \in InVpc : Delete(k) \in Range(t) => env[k] # 0

LEMMA ClearFacts == \A fs : Clear(fs).do = "clear" /\ Clear(fs).on = fs
  BY DEF Clear, Do

LEMMA CompensationUndoes ==
    ASSUME NEW s \in 1..7, NEW env, NEW t, t = Compensation(s, env)
    PROVE  Undoes(s, env, t)
  <1>1. CASE s = Vpc
    <2>1. t = VpcCompensate(env) /\ Own[s] \cap Kind = VpcFields
      BY <1>1 DEF Compensation, Own, Kind, VpcFields, Vpc, Rds, Ec2, S3, Identity, Config
    <2>2. \A k \in VpcFields : env[k] # 0 => Delete(k) \in Range(t)
      BY <2>1, VpcIsBackward
    <2>3. Clear(VpcFields) \in Range(t) /\ Put \in Range(t)
      BY <2>1, VpcIsBackward
    <2>4. \A k \in InVpc : Delete(k) \in Range(t) => env[k] # 0
      <3>1. \A k \in VpcFields : k # "none" => Delete(k) \notin {Clear(VpcFields), Put}
        BY DEF Delete, Clear, Put, Do
      <3>2. \A k, j \in VpcFields : Delete(k) = Delete(j) => k = j
        BY DEF Delete, Do
      <3> QED
        BY <2>1, <3>1, <3>2, VpcIsBackward DEF VpcFields, InVpc
    <2>5. \A k \in VpcFields : k \notin SlowToGo
      BY DEF VpcFields, SlowToGo
    <2>6. Backward(s, t)
      BY <1>1, <2>1, VpcIsBackward
    <2> QED
      BY <1>1, <2>1, <2>2, <2>3, <2>4, <2>5, <2>6, ClearFacts DEF Undoes, Vpc, S3
  <1>2. CASE s = Rds
    <2>1. t = RdsCompensate(env) /\ Own[s] \cap Kind = {"db"}
      BY <1>2 DEF Compensation, Own, Kind, Vpc, Rds, Ec2, S3, Identity, Config
    <2>2. Backward(s, t)
      BY <1>2, <2>1, RdsIsBackward
    <2> QED
      BY <1>2, <2>1, <2>2, RdsIsBackward, ClearFacts
      DEF Undoes, Vpc, Rds, S3, SlowToGo
  <1>3. CASE s = Ec2
    <2>1. t = Ec2Compensate(env) /\ Own[s] \cap Kind = {"instance"}
      BY <1>3 DEF Compensation, Own, Kind, Vpc, Rds, Ec2, S3, Identity, Config
    <2>2. Backward(s, t)
      BY <1>3, <2>1, Ec2IsBackward
    <2> QED
      BY <1>3, <2>1, <2>2, Ec2IsBackward, ClearFacts
      DEF Undoes, Vpc, Ec2, S3, SlowToGo
  <1>4. CASE s = S3
    <2>1. t = S3Compensate(env) /\ Own[s] \cap Kind = {"bucket"}
      BY <1>4 DEF Compensation, Own, Kind, Vpc, Rds, Ec2, S3, Identity, Config
    <2>2. Backward(s, t)
      BY <1>4, <2>1, S3IsBackward
    <2> QED
      BY <1>4, <2>1, <2>2, S3IsBackward, ClearFacts
      DEF Undoes, Vpc, S3, SlowToGo
  <1>5. CASE s = Identity
    <2>1. t = IdentityCompensate(env) /\ Own[s] \cap Kind = {"policy"}
      BY <1>5 DEF Compensation, Own, Kind, Vpc, Rds, Ec2, S3, Identity, Config
    <2>2. Backward(s, t)
      BY <1>5, <2>1, IdentityIsBackward
    <2> QED
      BY <1>5, <2>1, <2>2, IdentityIsBackward, ClearFacts
      DEF Undoes, Vpc, Identity, S3, SlowToGo
  <1>6. CASE s = Config
    <2>1. t = ConfigCompensate(env) /\ Own[s] \cap Kind = {"file"}
      BY <1>6 DEF Compensation, Own, Kind, Vpc, Rds, Ec2, S3, Identity, Config
    <2>2. Backward(s, t)
      BY <1>6, <2>1, ConfigIsBackward
    <2> QED
      BY <1>6, <2>1, <2>2, ConfigIsBackward, ClearFacts
      DEF Undoes, Vpc, Config, S3, SlowToGo
  <1>7. CASE s = Health
    <2>1. t = <<>> /\ Own[s] \cap Kind = {}
      BY <1>7 DEF Compensation, Own, Kind, Vpc, Rds, Ec2, S3, Identity, Config,
             Health
    <2> QED
      BY <1>7, <2>1, BackwardNothing DEF Undoes, Vpc, S3, Health
  <1> QED
    BY <1>1, <1>2, <1>3, <1>4, <1>5, <1>6, <1>7
    DEF Vpc, Rds, Ec2, S3, Identity, Config, Health

-----------------------------------------------------------------------------
(* The account: what any call may do to it.                                *)

Accounts == [Kind -> Seq(Resources)]

\* Nothing that was created is forgotten, moved or brought back.
Persists(k) ==
    /\ Len(account[k]) <= Len(account'[k])
    /\ \A n \in DOMAIN account[k] :
          /\ n \in DOMAIN account'[k]
          /\ account'[k][n].vpc = account[k][n].vpc
          /\ account'[k][n].pass = account[k][n].pass
          /\ account[k][n].state = "gone" => account'[k][n].state = "gone"

\* Nothing goes, or is asked to go.
Stays(k) ==
    \A n \in DOMAIN account[k] : account[k][n].state \notin {"leaving", "gone"} =>
        n \in DOMAIN account'[k] /\ account'[k][n].state \notin {"leaving", "gone"}

LEMMA AccountSeq ==
    ASSUME NEW acc \in Accounts, NEW k \in Kind
    PROVE  /\ acc[k] \in Seq(Resources)
           /\ Len(acc[k]) \in Nat
           /\ DOMAIN acc[k] = 1..Len(acc[k])
           /\ \A n \in DOMAIN acc[k] : acc[k][n] \in Resources
  <1>1. acc[k] \in Seq(Resources)
    BY DEF Accounts
  <1>2. \A n \in 1..Len(acc[k]) : acc[k][n] \in Resources
    BY <1>1, ElementOfSeq
  <1> QED
    BY <1>1, <1>2, LenProperties

LEMMA BecomesFacts ==
    ASSUME account \in Accounts, NEW k \in Kind, NEW ns,
           NEW s \in {"pending", "ready", "hidden", "leaving", "gone"}, Becomes(k, ns, s)
    PROVE  /\ account' \in Accounts
           /\ \A j \in Kind \ {k} : account'[j] = account[j]
           /\ Len(account'[k]) = Len(account[k])
           /\ DOMAIN account'[k] = DOMAIN account[k]
           /\ \A n \in DOMAIN account[k] :
                 /\ account'[k][n].state = IF n \in ns THEN s ELSE account[k][n].state
                 /\ account'[k][n].vpc = account[k][n].vpc
                 /\ account'[k][n].pass = account[k][n].pass
                 /\ n \notin ns => account'[k][n] = account[k][n]
  <1> DEFINE f == [n \in DOMAIN account[k] |->
                      IF n \in ns THEN [account[k][n] EXCEPT !.state = s] ELSE account[k][n]]
  <1>1. account' = [account EXCEPT ![k] = f]
    BY DEF Becomes
  <1>2. \A n \in DOMAIN account[k] :
           /\ f[n] \in Resources
           /\ f[n].state = IF n \in ns THEN s ELSE account[k][n].state
           /\ f[n].vpc = account[k][n].vpc /\ f[n].pass = account[k][n].pass
           /\ n \notin ns => f[n] = account[k][n]
    <2>1. \A n \in DOMAIN account[k] : account[k][n] \in Resources
      BY AccountSeq
    <2> QED
      BY <2>1 DEF Resources
  <1>3. f \in Seq(Resources) /\ Len(f) = Len(account[k]) /\ DOMAIN f = DOMAIN account[k]
    <2>1. f \in [1..Len(account[k]) -> Resources]
      BY <1>2, AccountSeq
    <2>2. f \in Seq(Resources)
      <3>1. Len(account[k]) \in Nat
        BY AccountSeq
      <3> HIDE DEF f
      <3> QED
        BY <2>1, <3>1, SeqDef
    <2> QED
      BY <2>1, <2>2, AccountSeq, LenProperties
  <1>4. account'[k] = f /\ \A j \in Kind \ {k} : account'[j] = account[j]
    BY <1>1 DEF Accounts
  <1>5. account' \in Accounts
    BY <1>1, <1>3 DEF Accounts
  <1> QED
    BY <1>2, <1>3, <1>4, <1>5

LEMMA AppearFacts ==
    ASSUME account \in Accounts, NEW k \in Kind, NEW v \in Nat, NEW p \in Nat, Appear(k, v, p)
    PROVE  /\ account' \in Accounts
           /\ \A j \in Kind \ {k} : account'[j] = account[j]
           /\ Len(account'[k]) = Len(account[k]) + 1
           /\ DOMAIN account'[k] = 1..(Len(account[k]) + 1)
           /\ \A n \in DOMAIN account[k] : account'[k][n] = account[k][n]
           /\ account'[k][Len(account[k]) + 1] =
                 [state |-> IF k \in SlowToCome \cup Configured THEN "pending" ELSE "ready",
                  vpc |-> v, pass |-> p]
  <1> DEFINE r == [state |-> IF k \in SlowToCome \cup Configured THEN "pending" ELSE "ready",
                   vpc |-> v, pass |-> p]
  <1>1. account' = [account EXCEPT ![k] = Append(account[k], r)]
    BY DEF Appear
  <1>2. r \in Resources
    BY DEF Resources
  <1>3. account[k] \in Seq(Resources) /\ Len(account[k]) \in Nat
        /\ DOMAIN account[k] = 1..Len(account[k])
    BY AccountSeq
  <1> HIDE DEF r
  <1>4. /\ Append(account[k], r) \in Seq(Resources)
        /\ Len(Append(account[k], r)) = Len(account[k]) + 1
        /\ \A i \in 1..Len(account[k]) : Append(account[k], r)[i] = account[k][i]
        /\ Append(account[k], r)[Len(account[k]) + 1] = r
    BY <1>2, <1>3, AppendProperties
  <1>5. account'[k] = Append(account[k], r) /\ \A j \in Kind \ {k} : account'[j] = account[j]
    BY <1>1 DEF Accounts
  <1>6. account' \in Accounts
    BY <1>1, <1>4 DEF Accounts
  <1> QED
    BY <1>3, <1>4, <1>5, <1>6, LenProperties DEF r

\* What the calls of a step do, one by one.
Now   == Head(req.todo)
Quiet == UNCHANGED <<account, config, stored>>

Creates(k) ==
    /\ Running /\ k \in Own[cur] \cap Kind /\ Now = Create(k)
    /\ k = "db" => Alive(k) = {}
    /\ \/ k \in Named /\ Alive(k) # {} /\ account' = account
       \/ \E v \in Nat : Appear(k, v, IF k = "db" THEN req.env["password"] ELSE 0)
             /\ (k \in Inside => v = req.env["vpc"])
    /\ req'.env = [req.env EXCEPT ![k] = Value(k)]
    /\ UNCHANGED <<config, stored>>
Configures(k) ==
    /\ Running /\ k \in Own[cur] \cap Configured /\ Now = Configure(k)
    /\ Target(k, req.env[k]) # {} /\ Becomes(k, Target(k, req.env[k]), "ready")
    /\ req'.env = req.env
    /\ UNCHANGED <<config, stored>>
Comes(k) ==
    /\ Running /\ k \in Own[cur] \cap SlowToCome /\ Now = Await(k)
    /\ HasCome(k, req.env[k])
    /\ req'.env = req.env /\ Quiet
Sets(f) ==
    /\ Running /\ f \in Own[cur] \ Kind /\ Now = Set(f)
    /\ req'.env = [req.env EXCEPT ![f] = Value(f)] /\ Quiet
Uploads(what) ==
    /\ Running
    /\ \/ what = "placeholder" /\ cur = S3 /\ Upload(NoConfig)
       \/ /\ what = "config" /\ cur = Config
          /\ Upload([endpoint |-> req.env["endpoint"], password |-> req.env["password"]])
    /\ Now = Do("upload", what)
    /\ req'.env = req.env /\ UNCHANGED stored
Checks ==
    /\ Running /\ cur = Health /\ Now = Do("check", "db") /\ Healthy(req.env)
    /\ req'.env = req.env /\ Quiet
Deletes(k) ==
    /\ Undo /\ Now = Delete(k)
    /\ \/ k \in Own[cur] \cap Kind /\ DeleteResource(k, req.env[k])
       \/ k = "object" /\ cur = S3 /\ Alive("bucket") # {} /\ DeleteResource(k, 1)
    /\ req'.env = req.env /\ UNCHANGED stored
Goes(k) ==
    /\ Undo /\ k \in Own[cur] \cap SlowToGo /\ Now = AwaitGone(k)
    /\ HasGone(k, req.env[k])
    /\ req'.env = req.env /\ Quiet
Clears(fs) ==
    /\ Undo /\ fs \subseteq Own[cur] /\ ("password" \in fs => "db" \in fs) /\ Now = Clear(fs)
    /\ req'.env = [f \in Field |-> IF f \in fs THEN 0 ELSE req.env[f]] /\ Quiet
Hides ==
    /\ Undo /\ cur = Config /\ Now = Do("hide", "object") /\ HideObject
    /\ req'.env = req.env /\ UNCHANGED stored
Others == Now = Other /\ req'.env = req.env /\ Quiet
Puts ==
    /\ Now = Put /\ stored' = req.env
    /\ req'.env = req.env /\ UNCHANGED <<account, config>>

Calling ==
    \/ \E k \in Kind : Creates(k) \/ Configures(k) \/ Comes(k) \/ Deletes(k) \/ Goes(k)
    \/ \E f \in Field : Sets(f)
    \/ \E fs \in SUBSET Field : Clears(fs)
    \/ \E what \in {"placeholder", "config"} : Uploads(what)
    \/ Checks \/ Hides \/ Others \/ Puts

LEMMA OpShape == \A c \in Op : c = Do(c.do, c.on)
  BY DEF Op, Do

LEMMA CallFacts ==
    ASSUME TypeInv, SagaInv, ProgramInv, CallSucceeds
    PROVE  /\ Serving /\ (Running \/ Undo) /\ cur \in 1..8 /\ (Undo => cur \in 1..7)
           /\ req.todo \in Seq(Op) /\ req.todo # <<>> /\ Now \in Op /\ Now \in Todo
           /\ req' = [todo |-> Tail(req.todo), env |-> Noted(Now, req.env)]
           /\ Todo = {Now} \cup Todo'
           /\ UNCHANGED <<saga, cur, failedStep, tries, call>>
           /\ req.env \in [Field -> Nat]
           /\ Running => ForwardOp(cur, Now)
           /\ Undo => BackwardOp(cur, Now)
  <1>1. /\ Serving /\ req.todo # <<>>
        /\ req' = [todo |-> Tail(req.todo), env |-> Noted(Now, req.env)]
        /\ UNCHANGED <<saga, cur, failedStep, tries, call>>
    BY DEF CallSucceeds, Now, sagaVars
  <1>2. req.todo \in Seq(Op) /\ req.env \in [Field -> Nat]
    BY DEF TypeInv
  <1>3. /\ Now \in Op
        /\ Todo = {Now} \cup Range(Tail(req.todo))
    BY <1>1, <1>2, TailFacts DEF Now, Todo
  <1>4. Todo' = Range(Tail(req.todo))
    BY <1>1 DEF Todo
  <1>5. Now \in Todo
    BY <1>3
  <1>6. (Running \/ Undo) /\ cur \in 1..8 /\ (Undo => cur \in 1..7)
    BY <1>1 DEF SagaInv, Running, Undo
  <1>7. (Running => ForwardOp(cur, Now)) /\ (Undo => BackwardOp(cur, Now))
    BY <1>1, <1>5 DEF ProgramInv
  <1> QED
    BY <1>1, <1>2, <1>3, <1>4, <1>5, <1>6, <1>7

LEMMA CallCases ==
    ASSUME TypeInv, SagaInv, ProgramInv, CallSucceeds
    PROVE  Calling
  <1>1. Succeeds(Now, req.env)
    BY DEF CallSucceeds, Now
  <1>2. /\ Now \in Op /\ Now = Do(Now.do, Now.on) /\ cur \in 1..8 /\ (Undo => cur \in 1..7)
        /\ req.env \in [Field -> Nat]
        /\ req'.env = Noted(Now, req.env)
        /\ ~(Running /\ Undo)
    BY CallFacts, OpShape DEF Running, Undo
  <1>3. Own[cur] \subseteq Field
    BY <1>2, OwnFacts
  <1>4. CASE Running
    <2>1. ForwardOp(cur, Now)
      BY <1>4, CallFacts
    <2>2. CASE Now.do = "create" /\ Now.on \in Own[cur] \cap Kind
      <3> DEFINE k == Now.on
      <3>1. /\ CreateResource(k, IF k \in Inside THEN req.env["vpc"] ELSE 0,
                                 IF k = "db" THEN req.env["password"] ELSE 0)
            /\ stored' = stored
        BY <1>1, <2>2 DEF Succeeds
      <3>2. (IF k \in Inside THEN req.env["vpc"] ELSE 0) \in Nat
        BY <1>2 DEF Field, Kind
      <3>3. req'.env = [req.env EXCEPT ![k] = Value(k)]
        BY <1>2, <2>2 DEF Noted
      <3>4. Now = Create(k)
        BY <1>2, <2>2 DEF Create
      <3> HIDE DEF k
      <3>5. Creates(k)
        BY <1>4, <2>2, <3>1, <3>2, <3>3, <3>4 DEF Creates, CreateResource, k
      <3> QED
        BY <2>2, <3>5 DEF Calling, k
    <2>3. CASE Now.do = "await" /\ Now.on \in Own[cur] \cap SlowToCome
      <3>1. Comes(Now.on)
        BY <1>1, <1>2, <1>4, <2>3
        DEF Succeeds, Noted, Comes, Quiet, Await, accountVars
      <3> QED
        BY <2>3, <3>1 DEF Calling, SlowToCome, Kind
    <2>4. CASE Now.do = "configure" /\ Now.on \in Own[cur] \cap Configured
      <3>1. Configures(Now.on)
        BY <1>1, <1>2, <1>4, <2>4
        DEF Succeeds, Noted, Configures, ConfigureResource, Configure
      <3> QED
        BY <2>4, <3>1 DEF Calling, Configured, Kind
    <2>5. CASE Now.do = "set" /\ Now.on \in Own[cur] \ Kind
      <3>1. Sets(Now.on)
        BY <1>1, <1>2, <1>4, <2>5
        DEF Succeeds, Noted, Sets, Quiet, Set, accountVars
      <3> QED
        BY <1>3, <2>5, <3>1 DEF Calling
    <2>6. CASE Now = Do("upload", "placeholder") /\ cur = S3
      <3>1. Uploads("placeholder")
        BY <1>1, <1>2, <1>4, <2>6 DEF Succeeds, Noted, Uploads, Content, Do
      <3> QED
        BY <3>1 DEF Calling
    <2>7. CASE Now = Do("upload", "config") /\ cur = Config
      <3>1. Uploads("config")
        BY <1>1, <1>2, <1>4, <2>7 DEF Succeeds, Noted, Uploads, Content, Do
      <3> QED
        BY <3>1 DEF Calling
    <2>8. CASE Now = Do("check", "db") /\ cur = Health
      BY <1>1, <1>2, <1>4, <2>8
      DEF Succeeds, Noted, Checks, Calling, Quiet, accountVars, Do
    <2>9. CASE Now = Other
      BY <1>1, <1>2, <2>9 DEF Succeeds, Noted, Others, Calling, Quiet, accountVars, Do, Other
    <2>10. CASE Now = Put
      BY <1>1, <1>2, <2>10 DEF Succeeds, Noted, Puts, Calling, accountVars, Do, Put
    <2> QED
      BY <2>1, <2>2, <2>3, <2>4, <2>5, <2>6, <2>7, <2>8, <2>9, <2>10 DEF ForwardOp
  <1>5. CASE Undo
    <2>1. BackwardOp(cur, Now)
      BY <1>5, CallFacts
    <2>2. CASE Now.do = "delete" /\ Now.on \in Own[cur] \cap Kind
      <3>1. Now.on # "object"
        BY <1>2, <2>2, OwnFacts
      <3>2. Deletes(Now.on)
        BY <1>1, <1>2, <1>5, <2>2, <3>1 DEF Succeeds, Noted, Deletes, Delete
      <3> QED
        BY <2>2, <3>2 DEF Calling
    <2>3. CASE Now = Delete("object") /\ cur = S3
      <3>1. Deletes("object")
        BY <1>1, <1>2, <1>5, <2>3 DEF Succeeds, Noted, Deletes, Delete, Do
      <3> QED
        BY <3>1 DEF Calling, Kind
    <2>4. CASE Now.do = "awaitGone" /\ Now.on \in Own[cur] \cap SlowToGo
      <3>1. Goes(Now.on)
        BY <1>1, <1>2, <1>5, <2>4
        DEF Succeeds, Noted, Goes, Quiet, AwaitGone, accountVars
      <3> QED
        BY <2>4, <3>1 DEF Calling, SlowToGo, Kind
    <2>5. CASE /\ Now.do = "clear" /\ Now.on \subseteq Own[cur]
               /\ "password" \in Now.on => "db" \in Now.on
      <3>1. Clears(Now.on)
        BY <1>1, <1>2, <1>5, <2>5
        DEF Succeeds, Noted, Clears, Quiet, Clear, accountVars
      <3> QED
        BY <1>3, <2>5, <3>1 DEF Calling
    <2>6. CASE Now = Do("hide", "object") /\ cur = Config
      BY <1>1, <1>2, <1>5, <2>6 DEF Succeeds, Noted, Hides, Calling, Do
    <2>7. CASE Now = Other
      BY <1>1, <1>2, <2>7 DEF Succeeds, Noted, Others, Calling, Quiet, accountVars, Do, Other
    <2>8. CASE Now = Put
      BY <1>1, <1>2, <2>8 DEF Succeeds, Noted, Puts, Calling, accountVars, Do, Put
    <2> QED
      BY <2>1, <2>2, <2>3, <2>4, <2>5, <2>6, <2>7, <2>8 DEF BackwardOp
  <1> QED
    BY <1>4, <1>5, CallFacts

LEMMA TargetFacts ==
    ASSUME NEW k, NEW id
    PROVE  Target(k, id) \subseteq Alive(k) /\ Alive(k) \subseteq DOMAIN account[k]
  BY DEF Target, Alive

\* What holds of every kind after a change of the account.
AccountKept ==
    /\ account' \in Accounts
    /\ \A k \in Kind : Persists(k)
    /\ LeavingInv'

LEMMA SameAccount ==
    ASSUME account \in Accounts, LeavingInv, account' = account
    PROVE  AccountKept /\ \A k \in Kind : Stays(k)
  BY AccountSeq DEF AccountKept, Persists, Stays, LeavingInv

LEMMA BecomesKeeps ==
    ASSUME account \in Accounts, LeavingInv, NEW k \in Kind, NEW ns \in SUBSET Alive(k),
           NEW s \in {"pending", "ready", "hidden", "leaving", "gone"}, Becomes(k, ns, s),
           s = "leaving" => k \in SlowToGo
    PROVE  /\ AccountKept
           /\ \A j \in Kind \ {k} : Stays(j)
           /\ s \notin {"leaving", "gone"} => Stays(k)
           /\ \A j \in Kind : Len(account'[j]) = Len(account[j])
  <1>1. ASSUME NEW n \in DOMAIN account[k]
        PROVE  /\ account'[k][n].vpc = account[k][n].vpc
               /\ account'[k][n].pass = account[k][n].pass
               /\ account'[k][n].state = IF n \in ns THEN s ELSE account[k][n].state
               /\ n \in ns => account[k][n].state # "gone"
    BY BecomesFacts DEF Alive
  <1>2. /\ account' \in Accounts
        /\ \A j \in Kind \ {k} : account'[j] = account[j]
        /\ Len(account'[k]) = Len(account[k]) /\ DOMAIN account'[k] = DOMAIN account[k]
    BY BecomesFacts
  <1>3. ASSUME NEW j \in Kind PROVE Persists(j)
    BY <1>1, <1>2, AccountSeq DEF Persists
  <1>4. LeavingInv'
    BY <1>1, <1>2 DEF LeavingInv
  <1> QED
    BY <1>1, <1>2, <1>3, <1>4 DEF AccountKept, Stays

LEMMA AppearKeeps ==
    ASSUME account \in Accounts, LeavingInv, NEW k \in Kind, NEW v \in Nat, NEW p \in Nat,
           Appear(k, v, p)
    PROVE  /\ AccountKept
           /\ \A j \in Kind : Stays(j)
  <1>1. ASSUME NEW n \in DOMAIN account[k]
        PROVE  n \in DOMAIN account'[k] /\ account'[k][n] = account[k][n]
    <2>1. /\ DOMAIN account'[k] = 1..(Len(account[k]) + 1)
          /\ account'[k][n] = account[k][n]
      BY AppearFacts
    <2> QED
      BY <2>1, AccountSeq
  <1>2. /\ account' \in Accounts
        /\ \A j \in Kind \ {k} : account'[j] = account[j]
        /\ Len(account'[k]) = Len(account[k]) + 1
        /\ DOMAIN account'[k] = 1..(Len(account[k]) + 1)
        /\ account'[k][Len(account[k]) + 1].state # "leaving"
    <2>1. account'[k][Len(account[k]) + 1] =
             [state |-> IF k \in SlowToCome \cup Configured THEN "pending" ELSE "ready",
              vpc |-> v, pass |-> p]
      BY AppearFacts
    <2> QED
      BY <2>1, AppearFacts
  <1>3. ASSUME NEW j \in Kind PROVE Persists(j)
    BY <1>1, <1>2, AccountSeq DEF Persists
  <1>4. LeavingInv'
    <2>1. ASSUME NEW n \in DOMAIN account'[k], k \notin SlowToGo
          PROVE  account'[k][n].state # "leaving"
      BY <1>1, <1>2, <2>1, AccountSeq DEF LeavingInv
    <2> QED
      BY <1>2, <2>1 DEF LeavingInv
  <1> QED
    BY <1>1, <1>2, <1>3, <1>4 DEF AccountKept, Stays

\* AWS finishes something, or the worker's disk goes.
LEMMA SettleKeeps ==
    ASSUME account \in Accounts, LeavingInv, NEW k \in Kind, Settle(k)
    PROVE  /\ AccountKept
           /\ \A j \in Kind : Stays(j) /\ Len(account'[j]) = Len(account[j])
           /\ \A j \in Kind \ {k} : account'[j] = account[j]
           /\ k \in SlowToCome /\ config' = config
           /\ \A n \in DOMAIN account[k] :
                 account[k][n].state = "ready" => account'[k][n].state = "ready"
  <1>1. PICK n \in DOMAIN account[k] :
           \/ account[k][n].state = "pending" /\ Becomes(k, {n}, "ready")
           \/ account[k][n].state = "leaving" /\ Becomes(k, {n}, "gone")
    BY DEF Settle
  <1>2. {n} \in SUBSET Alive(k)
    BY <1>1 DEF Alive
  <1>3. config' = config /\ k \in SlowToCome
    BY DEF Settle
  <1>4. PICK s \in {"ready", "gone"} :
           /\ Becomes(k, {n}, s)
           /\ account[k][n].state = IF s = "ready" THEN "pending" ELSE "leaving"
    BY <1>1
  <1>5. /\ \A m \in DOMAIN account[k] : m # n => account'[k][m] = account[k][m]
        /\ DOMAIN account'[k] = DOMAIN account[k]
        /\ account'[k][n].state = s
        /\ \A j \in Kind \ {k} : account'[j] = account[j]
    BY <1>4, BecomesFacts
  <1>7. /\ AccountKept
        /\ \A j \in Kind \ {k} : Stays(j)
        /\ \A j \in Kind : Len(account'[j]) = Len(account[j])
    BY <1>2, <1>4, BecomesKeeps
  <1>8. Stays(k)
    BY <1>4, <1>5 DEF Stays
  <1> QED
    BY <1>3, <1>4, <1>5, <1>7, <1>8

LEMMA DiskLostKeeps ==
    ASSUME account \in Accounts, LeavingInv, DiskLost
    PROVE  /\ AccountKept
           /\ \A j \in Kind \ {"file"} : Stays(j) /\ account'[j] = account[j]
           /\ Len(account'["file"]) = Len(account["file"]) /\ config' = config
  BY TargetFacts, BecomesKeeps, BecomesFacts DEF DiskLost, Kind, Alive

\* A call leaves what was there, except what it deletes.
LEMMA CallKeeps ==
    ASSUME TypeInv, SagaInv, LeavingInv, ProgramInv, CallSucceeds
    PROVE  /\ AccountKept
           /\ \A k \in Kind : Stays(k) \/ Deletes(k)
           /\ config' \in [endpoint : Nat, password : Nat]
  <1>1. account \in Accounts /\ config \in [endpoint : Nat, password : Nat]
    BY DEF TypeInv, Accounts
  <1>2. req.env \in [Field -> Nat]
    BY CallFacts
  <1>3. ASSUME account' = account
        PROVE  AccountKept /\ \A k \in Kind : Stays(k)
    BY <1>1, <1>3, SameAccount
  <1>4. CASE \E k \in Kind : Creates(k)
    <2>1. PICK k \in Kind : Creates(k)
      BY <1>4
    <2>2. (IF k = "db" THEN req.env["password"] ELSE 0) \in Nat /\ config' = config
      BY <1>2, <2>1 DEF Creates, Field
    <2>3. CASE account' = account
      BY <1>1, <1>3, <2>2, <2>3
    <2>4. CASE \E v \in Nat : Appear(k, v, IF k = "db" THEN req.env["password"] ELSE 0)
      BY <1>1, <2>2, <2>4, AppearKeeps
    <2> QED
      BY <2>1, <2>3, <2>4 DEF Creates
  <1>5. CASE \E k \in Kind : Configures(k)
    BY <1>1, <1>5, TargetFacts, BecomesKeeps DEF Configures
  <1>6. CASE \E k \in Kind : Deletes(k)
    <2>1. PICK k \in Kind : Deletes(k)
      BY <1>6
    <2>2. PICK id : DeleteResource(k, id)
      BY <2>1 DEF Deletes
    <2>3. /\ Becomes(k, Target(k, id), IF k \in SlowToGo THEN "leaving" ELSE "gone")
          /\ config' = config
      BY <2>2 DEF DeleteResource
    <2>4. AccountKept /\ \A j \in Kind \ {k} : Stays(j)
      BY <1>1, <2>3, TargetFacts, BecomesKeeps
    <2> QED
      BY <1>1, <2>1, <2>3, <2>4
  <1>7. CASE \E what \in {"placeholder", "config"} : Uploads(what)
    <2>1. PICK content \in [endpoint : Nat, password : Nat] : Upload(content)
      BY <1>2, <1>7 DEF Uploads, NoConfig, Field
    <2>2. config' \in [endpoint : Nat, password : Nat]
      BY <2>1 DEF Upload
    <2>3. CASE Appear("object", 0, 0)
      BY <1>1, <2>2, <2>3, AppearKeeps DEF Kind
    <2>4. CASE Becomes("object", Alive("object"), "ready")
      BY <1>1, <2>2, <2>4, BecomesKeeps DEF Kind
    <2> QED
      BY <2>1, <2>3, <2>4 DEF Upload
  <1>8. CASE Hides
    BY <1>1, <1>8, BecomesKeeps DEF Hides, HideObject, Kind
  <1>9. CASE UNCHANGED <<account, config>>
    BY <1>1, <1>3, <1>9
  <1> QED
    BY <1>4, <1>5, <1>6, <1>7, <1>8, <1>9, CallCases
    DEF Calling, Comes, Goes, Sets, Clears, Checks, Others, Puts, Quiet

\* Only the call that creates a kind adds one of it.
LEMMA CallGrows ==
    ASSUME TypeInv, SagaInv, LeavingInv, ProgramInv, CallSucceeds,
           NEW k \in Kind \ {"object"}, ~Creates(k)
    PROVE  Len(account'[k]) = Len(account[k])
  <1>1. account \in Accounts /\ account' \in Accounts
    BY CallKeeps DEF TypeInv, Accounts, AccountKept
  <1>2. req.env \in [Field -> Nat]
    BY CallFacts
  <1>3. CASE account' = account
    BY <1>3
  <1>4. CASE \E j \in Kind : Creates(j)
    <2>1. PICK j \in Kind : Creates(j)
      BY <1>4
    <2> DEFINE p == IF j = "db" THEN req.env["password"] ELSE 0
    <2>2. p \in Nat /\ j # k
      BY <1>2, <2>1 DEF Field
    <2>3. account' = account \/ \E v \in Nat : Appear(j, v, p)
      BY <2>1 DEF Creates
    <2> HIDE DEF p
    <2>4. CASE \E v \in Nat : Appear(j, v, p)
      <3>1. PICK v \in Nat : Appear(j, v, p)
        BY <2>4
      <3>2. account'[k] = account[k]
        BY <1>1, <2>2, <3>1, AppearFacts
      <3> QED
        BY <3>2
    <2> QED
      BY <1>3, <2>3, <2>4
  <1>5. ASSUME NEW j \in Kind, NEW ns,
               NEW s \in {"pending", "ready", "hidden", "leaving", "gone"}, Becomes(j, ns, s)
        PROVE  Len(account'[k]) = Len(account[k])
    BY <1>1, <1>5, BecomesFacts
  <1>6. CASE Appear("object", 0, 0)
    BY <1>1, <1>6, AppearFacts DEF Kind
  <1>7. CASE \E j \in Kind : Configures(j) \/ Deletes(j)
    <2>1. PICK j \in Kind : Configures(j) \/ Deletes(j)
      BY <1>7
    <2>2. CASE Configures(j)
      BY <1>5, <2>2 DEF Configures
    <2>3. CASE Deletes(j)
      <3>1. PICK id : DeleteResource(j, id)
        BY <2>3 DEF Deletes
      <3>2. (IF j \in SlowToGo THEN "leaving" ELSE "gone") \in
               {"pending", "ready", "hidden", "leaving", "gone"}
        OBVIOUS
      <3> QED
        BY <1>5, <3>1, <3>2 DEF DeleteResource
    <2> QED
      BY <2>1, <2>2, <2>3
  <1>8. CASE Hides \/ \E what \in {"placeholder", "config"} : Uploads(what)
    <2>1. Appear("object", 0, 0) \/ Becomes("object", Alive("object"), "ready")
             \/ Becomes("object", Alive("object"), "hidden")
      BY <1>8 DEF Hides, HideObject, Uploads, Upload
    <2>2. "object" \in Kind
      BY DEF Kind
    <2> QED
      BY <1>5, <1>6, <2>1, <2>2
  <1> QED
    BY <1>3, <1>4, <1>7, <1>8, CallCases
    DEF Calling, Comes, Goes, Sets, Clears, Checks, Others, Puts, Quiet

-----------------------------------------------------------------------------
(* How a request begins, and how it ends.                                  *)

LEMMA RequestBegins ==
    ASSUME TypeInv, SagaInv, CallStep
    PROVE  /\ ~Serving /\ Serving' /\ call' = "slot"
           /\ cur \in 1..8 /\ (Undo => cur \in 1..7) /\ (Running \/ Undo)
           /\ req'.env = stored /\ req' = [todo |-> req'.todo, env |-> stored]
           /\ Running => IF IsAlreadyDone(cur, stored) THEN req'.todo = <<>>
                                                      ELSE req'.todo = Execution[cur]
           /\ Undo => req'.todo = Compensation(cur, stored)
           /\ Running => Forward(cur, req'.todo)
           /\ Undo => Undoes(cur, stored, req'.todo)
           /\ UNCHANGED <<account, config, stored, saga, cur, failedStep, tries>>
  <1>1. /\ ~Serving /\ Serving' /\ call' = "slot" /\ (Running \/ Undo)
        /\ req' = [todo |-> Calls(cur, Undo, stored), env |-> stored]
        /\ UNCHANGED <<account, config, stored, saga, cur, failedStep, tries>>
    BY DEF CallStep, Saga!Issue, Saga!Active, Serving, Running, Undo, accountVars
  <1>2. cur \in 1..8 /\ (Undo => cur \in 1..7) /\ ~(Running /\ Undo)
    BY <1>1 DEF SagaInv, Running, Undo
  <1>3. Running => IF IsAlreadyDone(cur, stored) THEN req'.todo = <<>>
                                                ELSE req'.todo = Execution[cur]
    BY <1>1, <1>2 DEF Calls
  <1>4. Undo => req'.todo = Compensation(cur, stored)
    BY <1>1, <1>2 DEF Calls
  <1>5. Running => Forward(cur, req'.todo)
    BY <1>2, <1>3, ExecutionForward
  <1>6. Undo => Undoes(cur, stored, req'.todo)
    BY <1>2, <1>4, CompensationUndoes
  <1>7. req'.env = stored /\ req' = [todo |-> req'.todo, env |-> stored]
    BY <1>1
  <1> QED
    BY <1>1, <1>2, <1>3, <1>4, <1>5, <1>6, <1>7

\* An attempt fails.
Fails == CallRefused \/ CallFails \/ WorkerDies

LEMMA RequestFails ==
    ASSUME TypeInv, SagaInv, LeavingInv, Fails
    PROVE  /\ Serving /\ ~Serving' /\ call' = "none" /\ req' = Idle
           /\ UNCHANGED <<config, stored>>
           /\ tries' \in Nat
           /\ AccountKept
           /\ \A k \in Kind \ {"file"} : account'[k] = account[k]
           /\ \A k \in Kind : Len(account'[k]) = Len(account[k])
           /\ cur \in 1..8
           /\ \/ UNCHANGED <<saga, cur, failedStep>>
              \/ /\ Running /\ failedStep' = cur /\ cur' = cur - 1 /\ tries' = 0
                 /\ saga' = IF cur = 1 THEN "failed" ELSE "compensating"
              \/ Undo /\ saga' = "compensation_failed" /\ UNCHANGED <<cur, failedStep>>
  <1>1. Serving /\ call' = "none" /\ req' = Idle /\ stored' = stored
    BY DEF Fails, CallRefused, CallFails, WorkerDies, Saga!AttemptFails
  <1>2. account \in Accounts /\ config \in [endpoint : Nat, password : Nat]
    BY DEF TypeInv, Accounts
  <1>3. DiskLost \/ UNCHANGED <<account, config>>
    BY DEF Fails, CallRefused, CallFails, WorkerDies, accountVars
  <1>4. /\ AccountKept /\ config' = config
        /\ \A k \in Kind \ {"file"} : account'[k] = account[k]
        /\ \A k \in Kind : Len(account'[k]) = Len(account[k])
    <2>1. CASE DiskLost
      BY <1>2, <2>1, DiskLostKeeps
    <2>2. CASE UNCHANGED <<account, config>>
      BY <1>2, <2>2, SameAccount
    <2> QED
      BY <1>3, <2>1, <2>2
  <1>6. (Running \/ Undo) /\ cur \in 1..8 /\ ~Serving'
    BY <1>1 DEF SagaInv, Running, Undo, Serving
  <1>7. /\ tries' \in Nat
        /\ \/ UNCHANGED <<saga, cur, failedStep>>
           \/ /\ Running /\ failedStep' = cur /\ cur' = cur - 1 /\ tries' = 0
              /\ saga' = IF cur = 1 THEN "failed" ELSE "compensating"
           \/ Undo /\ saga' = "compensation_failed" /\ UNCHANGED <<cur, failedStep>>
    <2>1. tries \in Nat
      BY DEF TypeInv
    <2>2. Saga!AttemptFails
      BY DEF Fails, CallRefused, CallFails, WorkerDies
    <2> QED
      BY <1>6, <2>1, <2>2 DEF Saga!AttemptFails, Saga!GiveUp, Running, Undo
  <1> QED
    BY <1>1, <1>4, <1>6, <1>7

\* The conductor restarts, the saga is aborted or times out.
Stops == ConductorRestarts \/ SagaStopped

LEMMA RequestStops ==
    ASSUME TypeInv, SagaInv, Stops
    PROVE  /\ ~Serving' /\ call' = "none" /\ req' = Idle
           /\ UNCHANGED <<account, config, stored>>
           /\ tries' \in Nat /\ (Running \/ Undo) /\ cur \in 1..8 /\ ~Unbroken'
           /\ \/ UNCHANGED <<saga, cur, failedStep>>
              \/ saga' = "aborted" /\ UNCHANGED <<cur, failedStep>>
              \/ /\ Running /\ failedStep' = cur /\ cur' = cur - 1
                 /\ saga' \in IF cur = 1 THEN {"failed"} ELSE {"compensating", "failed"}
  <1>1. /\ Breaks /\ req' = Idle
        /\ Saga!Crash \/ Saga!AbortSaga \/ Saga!SagaTimeout
    BY DEF Stops, ConductorRestarts, SagaStopped
  <1>2. UNCHANGED <<account, config, stored>> /\ ~Unbroken'
    BY <1>1 DEF Breaks, accountVars, TypeInv, Unbroken
  <1>3. call' = "none" /\ ~Serving'
    BY <1>1 DEF Saga!Crash, Saga!AbortSaga, Saga!SagaTimeout, Serving
  <1>4. (Running \/ Undo) /\ cur \in 1..8
    BY <1>1
    DEF Saga!Crash, Saga!AbortSaga, Saga!SagaTimeout, Saga!Active, Saga!Terminal, SagaInv,
        Running, Undo
  <1>5. /\ tries' \in Nat
        /\ \/ UNCHANGED <<saga, cur, failedStep>>
           \/ saga' = "aborted" /\ UNCHANGED <<cur, failedStep>>
           \/ /\ Running /\ failedStep' = cur /\ cur' = cur - 1
              /\ saga' \in IF cur = 1 THEN {"failed"} ELSE {"compensating", "failed"}
    BY <1>1 DEF Saga!Crash, Saga!AbortSaga, Saga!SagaTimeout, TypeInv, Running
  <1> QED
    BY <1>1, <1>2, <1>3, <1>4, <1>5

LEMMA RequestReturns ==
    ASSUME TypeInv, SagaInv, LeavingInv, StepReturns
    PROVE  /\ Serving /\ ~Serving' /\ call' = "none" /\ req' = Idle
           /\ req.todo = <<>> /\ Todo = {} /\ tries' = 0
           /\ UNCHANGED <<account, config, stored, failedStep>>
           /\ \/ Running /\ cur = 8 /\ saga' = "completed" /\ cur' = cur
              \/ Running /\ cur \in 1..7 /\ cur' = cur + 1 /\ saga' = saga
              \/ /\ Undo /\ cur \in 1..7 /\ cur' = cur - 1
                 /\ saga' = IF cur = 1 THEN "failed" ELSE saga
  <1>1. /\ Serving /\ call' = "none" /\ req' = Idle /\ req.todo = <<>> /\ tries' = 0
        /\ UNCHANGED <<account, config, stored, failedStep>>
    BY DEF StepReturns, Saga!Advance, accountVars
  <1>2. (Running \/ Undo) /\ cur \in 1..8 /\ (Undo => cur \in 1..7) /\ ~Serving'
    BY <1>1 DEF SagaInv, Running, Undo, Serving
  <1>3. Todo = {}
    BY <1>1 DEF Todo, Range
  <1>4. \/ Running /\ cur = 8 /\ saga' = "completed" /\ cur' = cur
        \/ Running /\ cur \in 1..7 /\ cur' = cur + 1 /\ saga' = saga
        \/ /\ Undo /\ cur \in 1..7 /\ cur' = cur - 1
           /\ saga' = IF cur = 1 THEN "failed" ELSE saga
    BY <1>2 DEF StepReturns, Saga!Advance, Saga!Registry, Running, Undo
  <1> QED
    BY <1>1, <1>2, <1>3, <1>4

-----------------------------------------------------------------------------
(* NamedInv is inductive.                                                  *)

\* A step that leaves the saga, its request and the record alone.
Aside == UNCHANGED <<config, stored, req, sagaVars>>

\* The goroutine stores its copy.
Marks == stored' = Empty /\ UNCHANGED <<account, config, req, sagaVars>>

LEMMA StepCases ==
    ASSUME [Next]_vars
    PROVE  \/ CallStep
           \/ CallSucceeds
           \/ Fails
           \/ StepReturns
           \/ Stops
           \/ Marks
           \/ Aside /\ \E k \in SlowToCome : Settle(k)
           \/ Aside /\ account' = account
  <1>1. CASE StartSagaBreaks \/ SagaReturns \/ ProvisionLost
    BY <1>1 DEF StartSagaBreaks, Breaks, SagaReturns, ProvisionLost, Aside, accountVars
  <1>2. CASE MarkFailed
    BY <1>2 DEF MarkFailed, Marks, accountVars
  <1> QED
    BY <1>1, <1>2 DEF Next, vars, Fails, Stops, AwsSettles, Aside, accountVars, Settle

\* The goroutine fails by itself only when the saga has.
LEMMA GoroutineStep ==
    ASSUME TypeInv, SagaInv, [Next]_vars
    PROVE  /\ left' \in [errors : 0..MaxErrors, restarts : 0..MaxRestarts,
                         breaks : 0..MaxBreaks]
           /\ prov' \in {"waiting", "failing", "ended"}
           /\ Unbroken' => Unbroken
           /\ Unbroken' /\ prov' = "failing" =>
                 (prov = "failing" \/ (saga = "failed" /\ saga' = saga))
           /\ Unbroken' /\ MarkFailed => saga = "failed"
  <1> DEFINE type == /\ left' \in [errors : 0..MaxErrors, restarts : 0..MaxRestarts,
                                   breaks : 0..MaxBreaks]
                     /\ prov' \in {"waiting", "failing", "ended"}
             keeps == prov' = prov /\ left'.breaks = left.breaks
  <1>1. /\ left \in [errors : 0..MaxErrors, restarts : 0..MaxRestarts, breaks : 0..MaxBreaks]
        /\ prov \in {"waiting", "failing", "ended"}
    BY DEF TypeInv
  <1>2. CASE UNCHANGED <<left, prov>>
    BY <1>1, <1>2, AwsStepsAssumption DEF Unbroken, SagaInv, MarkFailed
  <1>3. CASE CallFails \/ WorkerDies
    <2>1. type /\ keeps
      BY <1>1, <1>3, AwsStepsAssumption DEF CallFails, WorkerDies
    <2> QED
      BY <1>1, <2>1 DEF Unbroken, SagaInv, MarkFailed
  <1>4. CASE ConductorRestarts \/ SagaStopped \/ StartSagaBreaks
    <2>1. type /\ left'.breaks = left.breaks - 1
      BY <1>1, <1>4, AwsStepsAssumption
      DEF ConductorRestarts, SagaStopped, StartSagaBreaks, Breaks
    <2> QED
      BY <1>1, <2>1 DEF Unbroken
  <1>5. CASE SagaReturns \/ MarkFailed \/ ProvisionLost
    <2>1. type /\ left' = left
      BY <1>1, <1>5 DEF SagaReturns, MarkFailed, ProvisionLost
    <2>2. prov' = "failing" => saga = "failed" /\ saga' = saga
      BY <1>5 DEF SagaReturns, MarkFailed, ProvisionLost, sagaVars
    <2>3. Unbroken' /\ MarkFailed => saga = "failed"
      BY <2>1 DEF MarkFailed, SagaInv, Unbroken
    <2> QED
      BY <2>1, <2>2, <2>3 DEF Unbroken
  <1>6. \/ UNCHANGED <<left, prov>> \/ CallFails \/ WorkerDies
        \/ ConductorRestarts \/ SagaStopped \/ StartSagaBreaks
        \/ SagaReturns \/ MarkFailed \/ ProvisionLost
    BY DEF Next, vars, CallStep, CallSucceeds, CallRefused, StepReturns, AwsSettles
  <1> QED
    BY <1>2, <1>3, <1>4, <1>5, <1>6

LEMMA UnbrokenCases ==
    ASSUME TypeInv, SagaInv, [Next]_vars, Unbroken'
    PROVE  /\ Unbroken
           /\ \/ CallStep
              \/ CallSucceeds
              \/ Fails
              \/ StepReturns
              \/ Marks /\ saga = "failed"
              \/ Aside /\ \E k \in SlowToCome : Settle(k)
              \/ Aside /\ account' = account
  <1>1. Unbroken /\ (MarkFailed => saga = "failed") /\ ~Stops
    BY GoroutineStep, RequestStops
  <1>2. CASE MarkFailed
    BY <1>1, <1>2 DEF MarkFailed, Marks, accountVars
  <1>3. CASE ~MarkFailed
    <2>1. CASE StartSagaBreaks \/ SagaReturns \/ ProvisionLost
      BY <1>1, <2>1 DEF StartSagaBreaks, Breaks, SagaReturns, ProvisionLost, Aside, accountVars
    <2> QED
      BY <1>1, <1>3, <2>1
      DEF Next, vars, Fails, Stops, AwsSettles, Aside, accountVars, Settle
  <1> QED
    BY <1>1, <1>2, <1>3

LEMMA TypeStep ==
    ASSUME NamedInv, [Next]_vars
    PROVE  TypeInv' /\ AccountKept
  <1> USE DEF NamedInv
  <1>1. account \in Accounts
    BY DEF TypeInv, Accounts
  <1>2. CASE CallStep
    <2>1. req'.todo \in Seq(Op)
      BY <1>2, RequestBegins DEF Forward, Undoes, Backward
    <2>2. AccountKept
      BY <1>1, <1>2, RequestBegins, SameAccount
    <2>3. stored \in [Field -> Nat] /\ req' \in [todo : Seq(Op), env : [Field -> Nat]]
      BY <1>2, <2>1, RequestBegins DEF TypeInv
    <2> QED
      BY <1>2, <2>2, <2>3, RequestBegins, GoroutineStep DEF TypeInv
  <1>3. CASE CallSucceeds
    <2>1. AccountKept /\ config' \in [endpoint : Nat, password : Nat]
      BY <1>3, CallKeeps
    <2>2. stored' \in [Field -> Nat]
      BY <1>3, CallFacts, CallCases
      DEF TypeInv, Calling, Creates, Configures, Comes, Sets, Uploads, Checks, Deletes, Goes,
          Clears, Hides, Others, Puts, Quiet
    <2>3. \A f \in Field : Value(f) \in Nat
      BY <1>1, AccountSeq DEF Value, Kind
    <2>4. Noted(Now, req.env) \in [Field -> Nat]
      BY <1>3, <2>3, CallFacts DEF Noted
    <2>5. req' \in [todo : Seq(Op), env : [Field -> Nat]]
      <3>1. Tail(req.todo) \in Seq(Op)
        BY <1>3, CallFacts, TailFacts
      <3>2. req' = [todo |-> Tail(req.todo), env |-> Noted(Now, req.env)]
        BY <1>3, CallFacts
      <3> QED
        BY <2>4, <3>1, <3>2
    <2> QED
      BY <1>3, <2>1, <2>2, <2>5, CallFacts, GoroutineStep DEF TypeInv, AccountKept, Accounts
  <1>4. CASE Fails
    <2>1. Idle \in [todo : Seq(Op), env : [Field -> Nat]]
      BY EmptySeq DEF Idle, Empty
    <2> QED
      BY <1>4, <2>1, RequestFails, GoroutineStep DEF TypeInv, AccountKept, Accounts
  <1>5. CASE StepReturns \/ Stops
    <2>1. AccountKept
      BY <1>1, <1>5, RequestReturns, RequestStops, SameAccount
    <2>2. tries' \in Nat /\ call' = "none" /\ req' = Idle /\ UNCHANGED <<account, config, stored>>
      BY <1>5, RequestReturns, RequestStops
    <2> QED
      BY <2>1, <2>2, GoroutineStep, EmptySeq DEF TypeInv, Idle, Empty
  <1>6. CASE Aside /\ \E k \in SlowToCome : Settle(k)
    <2>1. AccountKept
      BY <1>1, <1>6, SettleKeeps DEF SlowToCome, Kind
    <2> QED
      BY <1>6, <2>1, GoroutineStep DEF TypeInv, AccountKept, Accounts, Aside, sagaVars
  <1>7. CASE Aside /\ account' = account
    BY <1>1, <1>7, SameAccount, GoroutineStep DEF TypeInv, Aside, sagaVars
  <1>8. CASE Marks
    <2>1. AccountKept
      BY <1>1, <1>8, SameAccount DEF Marks
    <2> QED
      BY <1>8, <2>1, GoroutineStep DEF TypeInv, Marks, Empty, sagaVars
  <1> QED
    BY <1>2, <1>3, <1>4, <1>5, <1>6, <1>7, <1>8, StepCases

LEMMA SagaStep ==
    ASSUME NamedInv, [Next]_vars
    PROVE  SagaInv'
  <1> USE DEF NamedInv
  <1>1. /\ Unbroken' => Unbroken
        /\ Unbroken' /\ prov' = "failing" =>
              (prov = "failing" \/ (saga = "failed" /\ saga' = saga))
    BY GoroutineStep
  <1> DEFINE fails == Unbroken' /\ prov' = "failing" => saga' = "failed"
  <1>2. CASE CallStep
    <2>1. fails
      BY <1>1, <1>2, RequestBegins DEF SagaInv
    <2> QED
      BY <1>1, <1>2, <2>1, RequestBegins DEF SagaInv, Running, Undo
  <1>3. CASE CallSucceeds
    <2>1. fails
      BY <1>1, <1>3, CallFacts DEF SagaInv
    <2> QED
      BY <1>1, <1>3, <2>1, CallFacts DEF SagaInv, Running, Undo, Serving
  <1>4. CASE Fails
    <2>1. fails
      BY <1>1, <1>4, RequestFails DEF SagaInv, Running, Undo
    <2> QED
      BY <1>1, <1>4, <2>1, RequestFails DEF SagaInv, Running, Undo, Idle, Empty
  <1>5. CASE StepReturns
    <2>1. fails
      BY <1>1, <1>5, RequestReturns DEF SagaInv, Running, Undo
    <2> QED
      BY <1>1, <1>5, <2>1, RequestReturns DEF SagaInv, Running, Undo, Idle, Empty
  <1>6. CASE Stops
    BY <1>6, RequestStops DEF SagaInv, Running, Undo, Idle, Empty
  <1>7. CASE Aside \/ Marks
    <2>1. UNCHANGED <<req, saga, cur, failedStep, tries, call>>
      BY <1>7 DEF Aside, Marks, sagaVars
    <2> QED
      BY <1>1, <2>1 DEF SagaInv, Running, Undo, Serving, Idle, Empty
  <1> QED
    BY <1>2, <1>3, <1>4, <1>5, <1>6, <1>7, StepCases

LEMMA ProgramStep ==
    ASSUME NamedInv, [Next]_vars
    PROVE  ProgramInv'
  <1> USE DEF NamedInv
  <1>1. CASE CallStep
    BY <1>1, RequestBegins, ForwardIsForward DEF ProgramInv, Undoes, Backward, Running, Undo, Todo
  <1>2. CASE CallSucceeds
    <2>1. Serving' /\ Running' = Running /\ Undo' = Undo /\ cur' = cur
          /\ req'.todo = Tail(req.todo) /\ Todo' \subseteq Todo
      BY <1>2, CallFacts DEF Serving, Running, Undo
    <2>2. Running => ForwardOrder(cur, Tail(req.todo))
      BY <1>2, CallFacts, ForwardTail DEF ProgramInv
    <2>3. Undo => BackwardOrder(cur, Tail(req.todo))
      BY <1>2, CallFacts, BackwardTail DEF ProgramInv
    <2> QED
      BY <1>2, <2>1, <2>2, <2>3, CallFacts DEF ProgramInv
  <1>3. CASE Fails
    BY <1>3, RequestFails DEF ProgramInv
  <1>4. CASE StepReturns \/ Stops
    BY <1>4, RequestReturns, RequestStops DEF ProgramInv
  <1>5. CASE Aside \/ Marks
    BY <1>5 DEF ProgramInv, Running, Undo, Serving, Todo, Aside, Marks, sagaVars
  <1> QED
    BY <1>1, <1>2, <1>3, <1>4, <1>5, StepCases

LEMMA CopyStep ==
    ASSUME NamedInv, [Next]_vars
    PROVE  CopyInv'
  <1> USE DEF NamedInv
  <1> SUFFICES ASSUME Unbroken' PROVE CopyInv'
    BY DEF CopyInv
  <1>0. Unbroken
    BY UnbrokenCases
  <1>1. CASE CallStep
    BY <1>1, RequestBegins DEF CopyInv
  <1>2. CASE CallSucceeds
    <2>1. ASSUME NEW f \in Field \ Own[cur]
          PROVE  req'.env[f] = stored'[f]
      <3>1. req.env[f] = stored[f] /\ req.env \in [Field -> Nat]
        BY <1>0, <1>2, CallFacts DEF CopyInv
      <3>2. stored' \in {stored, req.env} /\ req'.env[f] = req.env[f]
        BY <1>2, <3>1, CallCases
        DEF Calling, Creates, Configures, Comes, Sets, Uploads, Checks, Deletes, Goes,
            Clears, Hides, Others, Puts, Quiet
      <3> QED
        BY <3>1, <3>2
    <2> QED
      BY <1>2, <2>1, CallFacts DEF CopyInv
  <1>3. CASE Fails
    BY <1>3, RequestFails DEF CopyInv
  <1>4. CASE StepReturns
    BY <1>4, RequestReturns DEF CopyInv
  <1>5. CASE Aside
    BY <1>0, <1>5 DEF CopyInv, Serving, Aside, sagaVars
  <1>6. CASE Marks /\ saga = "failed"
    BY <1>6 DEF CopyInv, SagaInv, Serving, Running, Marks, sagaVars
  <1> QED
    BY <1>1, <1>2, <1>3, <1>4, <1>5, <1>6, UnbrokenCases

\* The fields of the record that a call changes, stored or in the copy.
LEMMA CallRecord ==
    ASSUME TypeInv, SagaInv, ProgramInv, CallSucceeds
    PROVE  /\ stored' = stored \/ (Puts /\ stored' = req.env)
           /\ \A f \in Field :
                 \/ req'.env[f] = req.env[f]
                 \/ Creates(f) /\ req'.env[f] = Value(f)
                 \/ Sets(f) /\ f \notin Kind /\ req'.env[f] = Value(f)
                 \/ \E fs \in SUBSET Field : Clears(fs) /\ f \in fs /\ req'.env[f] = 0
  <1>1. req.env \in [Field -> Nat]
    BY CallFacts
  <1>2. stored' = stored \/ (Puts /\ stored' = req.env)
    BY CallCases
    DEF Calling, Creates, Configures, Comes, Sets, Uploads, Checks, Deletes, Goes,
        Clears, Hides, Others, Puts, Quiet
  <1>3. ASSUME NEW f \in Field
        PROVE  \/ req'.env[f] = req.env[f]
               \/ Creates(f) /\ req'.env[f] = Value(f)
               \/ Sets(f) /\ f \notin Kind /\ req'.env[f] = Value(f)
               \/ \E fs \in SUBSET Field : Clears(fs) /\ f \in fs /\ req'.env[f] = 0
    <2>1. CASE \E k \in Kind : Creates(k)
      <3>1. PICK k \in Kind : Creates(k)
        BY <2>1
      <3>2. req'.env = [req.env EXCEPT ![k] = Value(k)]
        BY <3>1 DEF Creates
      <3> QED
        BY <1>1, <3>1, <3>2
    <2>2. CASE \E k \in Field : Sets(k)
      <3>1. PICK k \in Field : Sets(k)
        BY <2>2
      <3>2. req'.env = [req.env EXCEPT ![k] = Value(k)] /\ k \notin Kind
        BY <3>1 DEF Sets
      <3> QED
        BY <1>1, <3>1, <3>2
    <2>3. CASE \E fs \in SUBSET Field : Clears(fs)
      <3>1. PICK fs \in SUBSET Field : Clears(fs)
        BY <2>3
      <3>2. req'.env[f] = IF f \in fs THEN 0 ELSE req.env[f]
        BY <3>1 DEF Clears
      <3> QED
        BY <3>1, <3>2
    <2>4. CASE req'.env = req.env
      BY <2>4
    <2> QED
      BY <2>1, <2>2, <2>3, <2>4, CallCases
      DEF Calling, Configures, Comes, Uploads, Checks, Deletes, Goes, Hides, Others, Puts
  <1> QED
    BY <1>2, <1>3

\* Held, before a step and after it.
Lasts(k, id) ==
    \E n \in DOMAIN account[k] : /\ account[k][n].state \notin {"leaving", "gone"}
                                 /\ k \in Named \/ n = id
LastsOn(k, id) ==
    \E n \in DOMAIN account'[k] : /\ account'[k][n].state \notin {"leaving", "gone"}
                                  /\ k \in Named \/ n = id

LEMMA HeldLasts ==
    /\ HeldInv <=> \A k \in Ident :
          /\ stored[k] # 0 => Lasts(k, stored[k]) \/ Undoing(k)
          /\ Serving /\ req.env[k] # 0 => Lasts(k, req.env[k]) \/ Undoing(k)
    /\ HeldInv' <=> \A k \in Ident :
          /\ stored'[k] # 0 => LastsOn(k, stored'[k]) \/ Undoing(k)'
          /\ Serving' /\ req'.env[k] # 0 => LastsOn(k, req'.env[k]) \/ Undoing(k)'
  <1>1. \A k, id : Held(k, id) <=> Lasts(k, id)
    BY DEF Held, Target, Alive, Lasts
  <1>2. HeldInv' <=> \A k \in Ident :
          /\ stored'[k] # 0 => LastsOn(k, stored'[k]) \/ Undoing(k)'
          /\ Serving' /\ req'.env[k] # 0 => LastsOn(k, req'.env[k]) \/ Undoing(k)'
    BY DEF HeldInv, Held, Target, Alive, LastsOn
  <1> QED
    BY <1>1, <1>2 DEF HeldInv

LEMMA LastsStays ==
    ASSUME NEW k, NEW id, Lasts(k, id), Stays(k)
    PROVE  LastsOn(k, id)
  BY DEF Lasts, LastsOn, Stays

LEMMA CreatedIsHeld ==
    ASSUME NamedInv, CallSucceeds, NEW k \in Ident, Creates(k)
    PROVE  LastsOn(k, req'.env[k])
  <1>1. k \in Kind /\ account \in Accounts /\ Len(account[k]) \in Nat
    BY AccountSeq DEF NamedInv, TypeInv, Accounts, Ident
  <1>2. req'.env[k] = Value(k)
    BY <1>1, CallFacts DEF Creates, NamedInv, Ident
  <1>3. CASE account' = account /\ k \in Named /\ Alive(k) # {}
    <2>1. k \notin SlowToGo
      BY <1>3 DEF Creates, SlowToGo, Named
    <2>2. PICK n \in Alive(k) : account[k][n].state # "leaving"
      BY <1>1, <1>3, <2>1 DEF NamedInv, LeavingInv, Alive
    <2> QED
      BY <1>3, <2>2 DEF LastsOn, Alive
  <1>4. CASE \E v \in Nat : Appear(k, v, IF k = "db" THEN req.env["password"] ELSE 0)
    <2>1. PICK v \in Nat : Appear(k, v, IF k = "db" THEN req.env["password"] ELSE 0)
      BY <1>4
    <2>2. (IF k = "db" THEN req.env["password"] ELSE 0) \in Nat
      BY CallFacts DEF Field, NamedInv
    <2> DEFINE n == Len(account[k]) + 1
    <2>3. n \in DOMAIN account'[k] /\ account'[k][n].state \in {"pending", "ready"}
      <3>1. account'[k][n] =
             [state |-> IF k \in SlowToCome \cup Configured THEN "pending" ELSE "ready",
              vpc |-> v, pass |-> (IF k = "db" THEN req.env["password"] ELSE 0)]
        BY <1>1, <2>1, <2>2, AppearFacts
      <3>2. DOMAIN account'[k] = 1..n
        BY <1>1, <2>1, <2>2, AppearFacts
      <3> QED
        BY <1>1, <3>1, <3>2
    <2>4. k \notin Named => Value(k) = n
      BY <1>1 DEF Value, Kind
    <2> HIDE DEF n
    <2> QED
      BY <1>2, <2>3, <2>4 DEF LastsOn
  <1> QED
    BY <1>3, <1>4 DEF Creates

LEMMA HeldStep ==
    ASSUME NamedInv, [Next]_vars
    PROVE  HeldInv'
  <1> USE DEF NamedInv
  <1> SUFFICES ASSUME NEW k \in Ident
               PROVE  /\ stored'[k] # 0 => LastsOn(k, stored'[k]) \/ Undoing(k)'
                      /\ Serving' /\ req'.env[k] # 0 => LastsOn(k, req'.env[k]) \/ Undoing(k)'
    BY HeldLasts
  <1>1. /\ k \in Kind /\ k \in Field /\ k # "file" /\ k # "object"
        /\ StepOf(k) \in 1..6 /\ k \in Own[StepOf(k)]
    BY OwnFacts DEF Ident
  <1>2. /\ stored[k] # 0 => Lasts(k, stored[k]) \/ Undoing(k)
        /\ Serving /\ req.env[k] # 0 => Lasts(k, req.env[k]) \/ Undoing(k)
    BY HeldLasts
  <1>3. CASE CallStep
    <2>1. Stays(k)
      BY <1>3, RequestBegins DEF Stays
    <2>2. Undoing(k)' = Undoing(k) /\ stored' = stored /\ req'.env = stored
      BY <1>3, RequestBegins DEF Undoing
    <2>3. \A id : Lasts(k, id) => LastsOn(k, id)
      BY <2>1, LastsStays
    <2> QED
      BY <1>2, <2>2, <2>3
  <1>4. CASE CallSucceeds
    <2>1. Undoing(k)' = Undoing(k) /\ Serving
      BY <1>4, CallFacts DEF Undoing
    <2>2. ASSUME NEW id, Lasts(k, id) PROVE LastsOn(k, id) \/ Undoing(k)
      <3>1. CASE Stays(k)
        BY <2>2, <3>1, LastsStays
      <3>2. CASE Deletes(k)
        <4>1. k \in Own[cur] /\ Undo /\ cur \in 1..8 /\ failedStep # 0
          BY <1>1, <1>4, <3>2, CallFacts DEF Deletes, SagaInv, Undo, Running
        <4> QED
          BY <1>1, <4>1, OwnFacts DEF Undoing, Undo
      <3> QED
        BY <1>1, <1>4, <3>1, <3>2, CallKeeps
    <2>3. stored' = stored \/ stored' = req.env
      BY <1>4, CallRecord
    <2>4. \/ req'.env[k] = req.env[k]
          \/ LastsOn(k, req'.env[k])
          \/ req'.env[k] = 0
      BY <1>1, <1>4, CallRecord, CreatedIsHeld
    <2> QED
      BY <1>2, <2>1, <2>2, <2>3, <2>4
  <1>5. CASE Fails
    <2>1. Stays(k)
      BY <1>1, <1>5, RequestFails DEF Stays
    <2>2. Undoing(k) => Undoing(k)'
      BY <1>5, RequestFails DEF Undoing, SagaInv, Running, Undo
    <2> QED
      BY <1>2, <1>5, <2>1, <2>2, LastsStays, RequestFails
  <1>6. CASE StepReturns
    <2>1. Stays(k) /\ ~Serving'
      BY <1>6, RequestReturns DEF Stays
    <2>2. Undoing(k) => stored[k] = 0
      BY <1>1, <1>6, RequestReturns DEF Undoing, ClearInv, SagaInv, Undo, Running
    <2> QED
      BY <1>2, <1>6, <2>1, <2>2, LastsStays, RequestReturns
  <1>7. CASE Aside /\ (account' = account \/ \E j \in SlowToCome : Settle(j))
    <2>1. Stays(k)
      <3>1. account \in Accounts
        BY DEF TypeInv, Accounts
      <3>2. CASE \E j \in SlowToCome : Settle(j)
        BY <1>1, <3>1, <3>2, SettleKeeps DEF SlowToCome, Kind
      <3> QED
        BY <1>1, <1>7, <3>1, <3>2, SameAccount
    <2>2. Undoing(k)' = Undoing(k) /\ Serving' = Serving /\ stored' = stored /\ req' = req
      BY <1>7 DEF Undoing, Serving, Aside, sagaVars
    <2> QED
      BY <1>2, <2>1, <2>2, LastsStays
  <1>8. CASE Stops
    <2>1. Stays(k) /\ ~Serving' /\ stored' = stored
      BY <1>8, RequestStops DEF Stays
    <2>2. Undoing(k) => Undoing(k)'
      BY <1>8, RequestStops DEF Undoing, SagaInv, Running, Undo
    <2> QED
      BY <1>2, <2>1, <2>2, LastsStays
  <1>9. CASE Marks
    <2>1. /\ Stays(k) /\ Undoing(k)' = Undoing(k) /\ Serving' = Serving /\ req' = req
          /\ stored'[k] = 0
      BY <1>1, <1>9 DEF Stays, Undoing, Serving, Marks, Empty, sagaVars
    <2> QED
      BY <1>2, <2>1, LastsStays
  <1> QED
    BY <1>3, <1>4, <1>5, <1>6, <1>7, <1>8, <1>9, StepCases

\* A call tells what it is.
LEMMA Verbs ==
    /\ \A k : /\ Create(k).do = "create" /\ Create(k).on = k
              /\ Configure(k).do = "configure" /\ Configure(k).on = k
              /\ Await(k).do = "await" /\ Await(k).on = k
              /\ Delete(k).do = "delete" /\ Delete(k).on = k
              /\ AwaitGone(k).do = "awaitGone" /\ AwaitGone(k).on = k
              /\ Set(k).do = "set" /\ Set(k).on = k
              /\ Clear(k).do = "clear" /\ Clear(k).on = k
              /\ Do("upload", k).do = "upload" /\ Do("upload", k).on = k
    /\ Do("check", "db").do = "check" /\ Do("hide", "object").do = "hide"
    /\ Other.do = "other" /\ Put.do = "put"
  BY DEF Create, Configure, Await, Delete, AwaitGone, Set, Clear, Other, Put, Do

LEMMA CallVerbs ==
    /\ \A k : /\ Creates(k) => Now.do = "create"
              /\ Configures(k) => Now.do = "configure"
              /\ Comes(k) => Now.do = "await"
              /\ Deletes(k) => Now.do = "delete"
              /\ Goes(k) => Now.do = "awaitGone"
              /\ Sets(k) => Now.do = "set"
              /\ Clears(k) => Now.do = "clear"
              /\ Uploads(k) => Now.do = "upload"
    /\ Checks => Now.do = "check"
    /\ Hides => Now.do = "hide"
    /\ Others => Now.do = "other"
    /\ Puts => Now.do = "put"
  BY Verbs DEF Creates, Configures, Comes, Sets, Uploads, Checks, Deletes, Goes, Clears, Hides,
               Others, Puts

LEMMA ClearStep ==
    ASSUME NamedInv, [Next]_vars
    PROVE  ClearInv'
  <1> USE DEF NamedInv
  <1> SUFFICES ASSUME Undo', Serving', NEW k \in Own[cur'] \cap Kind
               PROVE  /\ stored'[k] = 0 \/ Put \in Todo'
                      /\ req'.env[k] = 0 \/ \E c \in Todo' : c.do = "clear" /\ k \in c.on
    BY DEF ClearInv
  <1>1. CASE CallStep
    <2>1. Undoes(cur, stored, req'.todo) /\ k \in Own[cur] \cap Kind
      BY <1>1, RequestBegins DEF Undo
    <2>2. stored[k] = 0 \/ (Put \in Range(req'.todo)
                              /\ \E c \in Range(req'.todo) : c.do = "clear" /\ k \in c.on)
      BY <2>1 DEF Undoes
    <2> QED
      BY <1>1, <2>2, RequestBegins DEF Todo
  <1>2. CASE CallSucceeds
    <2>1. /\ Undo /\ Serving /\ k \in Own[cur] \cap Kind /\ cur \in 1..7
          /\ Todo = {Now} \cup Todo' /\ BackwardOp(cur, Now) /\ ~Running
      BY <1>2, CallFacts DEF Undo, Running
    <2>2. k \in Field
      BY <2>1, OwnFacts
    <2>3. /\ stored[k] = 0 \/ Put \in Todo
          /\ req.env[k] = 0 \/ \E c \in Todo : c.do = "clear" /\ k \in c.on
      BY <2>1 DEF ClearInv
    <2>4. req'.env[k] = req.env[k] \/ req'.env[k] = 0
      BY <1>2, <2>1, <2>2, CallRecord DEF Creates, Sets
    <2>5. CASE Now = Put
      <3>1. Tail(req.todo) = <<>>
        BY <1>2, <2>1, <2>5, BackwardTail, CallFacts DEF ProgramInv, Now
      <3>2. Todo' = {}
        <4>1. req'.todo = <<>>
          BY <1>2, <3>1 DEF CallSucceeds
        <4> QED
          BY <4>1 DEF Todo, Range
      <3>3. req.env[k] = 0
        <4>1. \A c \in Todo : c = Put
          BY <2>1, <2>5, <3>2
        <4>2. Put.do # "clear"
          BY Verbs DEF Put, Do
        <4>3. ~\E c \in Todo : c.do = "clear" /\ k \in c.on
          BY <4>1, <4>2
        <4> QED
          BY <2>3, <4>3
      <3>4. stored'[k] = 0 /\ req'.env[k] = 0
        <4>1. Puts
          BY <1>2, <2>5, CallCases, CallVerbs, Verbs DEF Calling
        <4> QED
          BY <3>3, <4>1 DEF Puts
      <3> QED
        BY <3>4
    <2>6. CASE Now # Put
      <3>1. stored' = stored
        BY <1>2, <2>6, CallRecord DEF Puts
      <3>2. stored[k] = 0 \/ Put \in Todo'
        BY <2>1, <2>3, <2>6
      <3>3. req'.env[k] = 0 \/ \E c \in Todo' : c.do = "clear" /\ k \in c.on
        <4>1. CASE Now.do = "clear" /\ k \in Now.on
          <5>1. PICK fs \in SUBSET Field : Clears(fs)
            BY <1>2, <4>1, CallCases, CallVerbs DEF Calling
          <5>2. k \in fs
            BY <4>1, <5>1, ClearFacts DEF Clears
          <5> QED
            BY <2>2, <5>1, <5>2 DEF Clears
        <4> QED
          BY <2>1, <2>3, <2>4, <4>1
      <3> QED
        BY <3>1, <3>2, <3>3
    <2> QED
      BY <2>5, <2>6
  <1>3. CASE Fails
    BY <1>3, RequestFails
  <1>4. CASE StepReturns \/ Stops
    BY <1>4, RequestReturns, RequestStops
  <1>5. CASE Aside
    BY <1>5 DEF ClearInv, Undo, Serving, Todo, Aside, sagaVars
  <1>6. CASE Marks
    <2>1. UNCHANGED <<req, saga, cur, call>> /\ stored' = Empty
      BY <1>6 DEF Marks, sagaVars
    <2>2. k \in Field
      BY <2>1, OwnFacts DEF SagaInv, Undo, Running
    <2> QED
      BY <2>1, <2>2 DEF ClearInv, Undo, Serving, Todo, Empty
  <1> QED
    BY <1>1, <1>2, <1>3, <1>4, <1>5, <1>6, StepCases

LEMMA ClearedStep ==
    ASSUME NamedInv, [Next]_vars
    PROVE  ClearedInv'
  <1> USE DEF NamedInv
  <1> SUFFICES ASSUME Unbroken', saga' \in {"compensating", "failed"},
                      NEW k \in Field \cap Kind, cur' < StepOf(k), StepOf(k) < failedStep'
               PROVE  stored'[k] = 0
    BY DEF ClearedInv
  <1>0. Unbroken
    BY UnbrokenCases
  <1>1. StepOf(k) \in 1..6 /\ k \in Own[StepOf(k)] /\ k \in Kind
    BY OwnFacts
  <1>2. CASE CallStep
    BY <1>0, <1>2, RequestBegins DEF ClearedInv
  <1>3. CASE CallSucceeds
    <2>1. /\ saga = "compensating" /\ cur \in 1..8 /\ Serving
          /\ cur < StepOf(k) /\ StepOf(k) < failedStep
      BY <1>3, CallFacts DEF Running, Undo
    <2>2. stored[k] = 0
      BY <1>0, <2>1 DEF ClearedInv
    <2>3. k \notin Own[cur]
      BY <1>1, <2>1, OwnFacts
    <2>4. req.env[k] = 0
      BY <1>0, <2>1, <2>2, <2>3 DEF CopyInv
    <2> QED
      BY <1>3, <2>2, <2>4, CallRecord
  <1>4. CASE Fails
    BY <1>0, <1>1, <1>4, RequestFails DEF ClearedInv, SagaInv, Running, Undo
  <1>5. CASE StepReturns
    <2>1. /\ Undo /\ Serving /\ Todo = {} /\ cur \in 1..7 /\ cur' = cur - 1
          /\ stored' = stored /\ failedStep' = failedStep
      BY <1>5, RequestReturns DEF Running
    <2>2. CASE StepOf(k) = cur
      BY <1>1, <2>1, <2>2 DEF ClearInv
    <2>3. CASE StepOf(k) # cur
      <3>1. cur < StepOf(k)
        BY <1>1, <2>1, <2>3
      <3> QED
        BY <1>0, <2>1, <3>1 DEF ClearedInv, Undo
    <2> QED
      BY <2>2, <2>3
  <1>6. CASE Aside
    BY <1>0, <1>6 DEF ClearedInv, Aside, sagaVars
  <1>7. CASE Marks /\ saga = "failed"
    BY <1>7 DEF Marks, Empty
  <1> QED
    BY <1>2, <1>3, <1>4, <1>5, <1>6, <1>7, UnbrokenCases

\* The databases that are left were there before, with their passwords.
LEMMA OpensStays ==
    ASSUME account \in Accounts, account' \in Accounts, Persists("db"),
           Len(account'["db"]) = Len(account["db"]),
           NEW p, \A n \in Alive("db") : account["db"][n].pass = p
    PROVE  \A n \in Alive("db")' : account'["db"][n].pass = p
  <1>1. DOMAIN account'["db"] = DOMAIN account["db"]
    BY AccountSeq DEF Kind
  <1>2. ASSUME NEW n \in DOMAIN account'["db"], account'["db"][n].state # "gone"
        PROVE  account'["db"][n].pass = p
    BY <1>1, <1>2 DEF Persists, Alive
  <1> QED
    BY <1>2 DEF Alive

LEMMA PasswordStep ==
    ASSUME NamedInv, [Next]_vars
    PROVE  PasswordInv'
  <1> USE DEF NamedInv
  <1> DEFINE opensNow(env)   == env["db"] # 0 =>
                \A n \in Alive("db") : account["db"][n].pass = env["password"]
             opensAfter(env) == env["db"] # 0 =>
                \A n \in Alive("db")' : account'["db"][n].pass = env["password"]
  <1>1. account \in Accounts /\ account' \in Accounts /\ Persists("db") /\ "db" \in Kind
    BY TypeStep DEF TypeInv, Accounts, AccountKept, Kind
  <1>2. /\ opensNow(stored)
        /\ Serving => opensNow(req.env) \/ (req.todo # <<>> /\ Now = Create("db"))
    BY DEF PasswordInv, Opens, Now
  <1>3. ASSUME opensAfter(stored'),
               Serving' => opensAfter(req'.env)
                             \/ (req'.todo # <<>> /\ Head(req'.todo) = Create("db"))
        PROVE  PasswordInv'
    BY <1>3 DEF PasswordInv, Opens
  <1>4. ASSUME Len(account'["db"]) = Len(account["db"]), NEW env, opensNow(env)
        PROVE  opensAfter(env)
    BY <1>1, <1>4, OpensStays
  <1> HIDE DEF opensNow, opensAfter
  <1>5. CASE CallStep
    BY <1>2, <1>3, <1>4, <1>5, RequestBegins
  <1>6. CASE CallSucceeds
    <2>1. /\ Serving /\ req.todo # <<>> /\ req'.todo = Tail(req.todo)
          /\ req.env \in [Field -> Nat] /\ cur \in 1..8
      BY <1>6, CallFacts
    <2>2. CASE Creates("db")
      <3>1. Running /\ cur = Rds /\ Alive("db") = {} /\ stored' = stored
        BY <2>1, <2>2, OwnFacts DEF Creates, StepOf
      <3>2. stored["db"] = 0
        BY <3>1
        DEF HeldInv, Held, Target, Ident, Field, Kind, Undoing, SagaInv, Running, Named
      <3>3. opensAfter(stored')
        BY <3>1, <3>2 DEF opensAfter
      <3>4. PICK v \in Nat : Appear("db", v, req.env["password"])
        BY <2>2, <3>1 DEF Creates
      <3>5. req.env["password"] \in Nat /\ Len(account["db"]) \in Nat
        BY <1>1, <2>1, AccountSeq DEF Field
      <3>6. /\ DOMAIN account'["db"] = 1..(Len(account["db"]) + 1)
            /\ \A n \in DOMAIN account["db"] : account'["db"][n] = account["db"][n]
            /\ account'["db"][Len(account["db"]) + 1] =
                 [state |-> "pending", vpc |-> v, pass |-> req.env["password"]]
        BY <1>1, <3>4, <3>5, AppearFacts DEF SlowToCome
      <3>7. \A n \in Alive("db")' : account'["db"][n].pass = req.env["password"]
        <4>1. ASSUME NEW n \in DOMAIN account'["db"], account'["db"][n].state # "gone"
              PROVE  account'["db"][n].pass = req.env["password"]
          <5>1. CASE n \in DOMAIN account["db"]
            BY <3>1, <3>6, <4>1, <5>1 DEF Alive
          <5>2. CASE n = Len(account["db"]) + 1
            BY <3>6, <5>2
          <5> QED
            BY <1>1, <3>5, <3>6, <4>1, <5>1, <5>2, AccountSeq
        <4> QED
          BY <4>1 DEF Alive
      <3>8. req'.env["password"] = req.env["password"]
        BY <2>1, <2>2 DEF Creates, Field
      <3>9. opensAfter(req'.env)
        BY <3>7, <3>8 DEF opensAfter
      <3> QED
        BY <1>3, <3>3, <3>9
    <2>3. CASE ~Creates("db")
      <3>1. Len(account'["db"]) = Len(account["db"])
        BY <1>1, <1>6, <2>3, CallGrows
      <3>2. stored' = stored \/ (Puts /\ stored' = req.env)
        BY <1>6, CallRecord
      <3>3. Now # Create("db") /\ opensNow(req.env)
        <4>1. Now # Create("db")
          <5>1. Now.do = "create" => \E k \in Kind : Creates(k)
            BY <1>6, CallCases, CallVerbs DEF Calling
          <5>2. \A k \in Kind : Creates(k) => Now = Create(k)
            BY DEF Creates
          <5> QED
            BY <2>3, <5>1, <5>2, Verbs
        <4> QED
          BY <1>2, <2>1, <4>1
      <3>4. opensAfter(stored')
        BY <1>2, <1>4, <3>1, <3>2, <3>3
      <3>5. CASE req'.env["db"] = 0
        BY <1>3, <3>4, <3>5 DEF opensAfter
      <3>6. CASE Sets("password")
        <4>1. req'.todo # <<>> /\ Head(req'.todo) = Create("db")
          BY <1>6, <2>1, <3>6, CallFacts, ForwardTail DEF Sets, ProgramInv, Now
        <4> QED
          BY <1>3, <3>4, <4>1
      <3>7. CASE req'.env["db"] # 0 /\ ~Sets("password")
        <4>1. req'.env["db"] = req.env["db"]
          BY <1>6, <2>3, <3>7, CallRecord DEF Field, Kind
        <4>2. req'.env["password"] = req.env["password"]
          <5>1. ~Creates("password")
            BY DEF Creates, Kind
          <5>2. \A fs : Clears(fs) /\ "password" \in fs => req'.env["db"] = 0
            BY DEF Clears, Field, Kind
          <5>3. "password" \in Field
            BY DEF Field
          <5> QED
            BY <1>6, <3>7, <5>1, <5>2, <5>3, CallRecord
        <4>3. opensAfter(req.env)
          BY <1>4, <3>1, <3>3
        <4>4. opensAfter(req'.env)
          BY <4>1, <4>2, <4>3 DEF opensAfter
        <4> QED
          BY <1>3, <3>4, <4>4
      <3> QED
        BY <3>5, <3>6, <3>7
    <2> QED
      BY <2>2, <2>3
  <1>7. CASE Fails
    BY <1>1, <1>2, <1>3, <1>4, <1>7, RequestFails
  <1>8. CASE StepReturns \/ Stops
    BY <1>2, <1>3, <1>4, <1>8, RequestReturns, RequestStops
  <1>9. CASE Aside /\ (account' = account \/ \E k \in SlowToCome : Settle(k))
    <2>1. Len(account'["db"]) = Len(account["db"])
      BY <1>1, <1>9, SettleKeeps DEF SlowToCome, Kind
    <2>2. stored' = stored /\ req' = req /\ Serving' = Serving
      BY <1>9 DEF Aside, sagaVars, Serving
    <2> QED
      BY <1>2, <1>3, <1>4, <2>1, <2>2 DEF Now
  <1>10. CASE Marks
    <2>1. account' = account /\ req' = req /\ Serving' = Serving
      BY <1>10 DEF Marks, sagaVars, Serving
    <2>2. opensAfter(stored')
      BY <1>10 DEF opensAfter, Marks, Empty, Field, Kind
    <2> QED
      BY <1>2, <1>3, <1>4, <2>1, <2>2 DEF Now
  <1> QED
    BY <1>5, <1>6, <1>7, <1>8, <1>9, <1>10, StepCases

-----------------------------------------------------------------------------
(* What follows from NamedInv.                                             *)

LEMMA NamedInit == Init => NamedInv
  <1> SUFFICES ASSUME Init PROVE NamedInv
    OBVIOUS
  <1> USE DEF Init
  <1>1. /\ saga = "running" /\ cur = 1 /\ failedStep = 0 /\ ~Serving /\ req = Idle
        /\ ~Undo /\ Running
    BY DEF Vpc, Serving, Undo, Running
  <1>2. /\ account = [k \in Kind |-> <<>>] /\ config = NoConfig
        /\ \A f \in Field : stored[f] = 0
    BY DEF AccountInit, Empty
  <1>3. TypeInv
    <2>1. account \in [Kind -> Seq(Resources)]
      BY <1>2, EmptySeq
    <2>2. req \in [todo : Seq(Op), env : [Field -> Nat]] /\ stored \in [Field -> Nat]
      BY <1>1, EmptySeq DEF Idle, Empty
    <2> QED
      BY <1>2, <2>1, <2>2, AwsStepsAssumption DEF TypeInv, NoConfig
  <1>4. SagaInv /\ LeavingInv /\ ProgramInv /\ CopyInv /\ ClearInv /\ ClearedInv
    BY <1>1, <1>2
    DEF SagaInv, LeavingInv, ProgramInv, CopyInv, ClearInv, ClearedInv, Running
  <1>5. HeldInv
    BY <1>1, <1>2 DEF HeldInv, Ident
  <1>6. PasswordInv
    BY <1>1, <1>2 DEF PasswordInv, Opens, Field, Kind
  <1> QED
    BY <1>3, <1>4, <1>5, <1>6 DEF NamedInv

LEMMA NamedStep ==
    ASSUME NamedInv, [Next]_vars
    PROVE  NamedInv'
  BY TypeStep, SagaStep, ProgramStep, CopyStep, HeldStep, ClearStep, ClearedStep, PasswordStep
  DEF NamedInv, AccountKept

THEOREM NamedInvariance == Spec => []NamedInv
  BY NamedInit, NamedStep, PTL DEF Spec

LEMMA NamedTypes == NamedInv => TypeOK
  <1> SUFFICES ASSUME NamedInv PROVE TypeOK
    OBVIOUS
  <1>1. AccountTypeOK
    <2>1. account \in Accounts
      BY DEF NamedInv, TypeInv, Accounts
    <2> QED
      BY <2>1, AccountSeq DEF AccountTypeOK, Accounts, NamedInv, TypeInv
  <1>2. Saga!ConductorTypeOK
    BY DEF NamedInv, TypeInv, SagaInv, Running, Saga!ConductorTypeOK, Saga!Registry,
           Saga!Active, Saga!Terminal
  <1> QED
    BY <1>1, <1>2 DEF TypeOK, NamedInv, TypeInv

(***************************************************************************)
(* Every variable keeps its type (accounts, records and requests as the    *)
(* steps of internal/steps make them).                                     *)
(***************************************************************************)
THEOREM AwsTypesHold == Spec => []TypeOK
  BY NamedInvariance, NamedTypes, PTL

(***************************************************************************)
(* What the stored record names exists while nobody removes it, whatever   *)
(* fails, is retried or restarts (steps/*.go: PutEnv after the creation,   *)
(* ClearState after the deletion).                                         *)
(***************************************************************************)
THEOREM NamedResourcesExist == Spec => []NamedExists
  <1>1. NamedInv => NamedExists
    BY DEF NamedInv, HeldInv, NamedExists, Held, Ident, Undoing
  <1> QED
    BY <1>1, NamedInvariance, PTL

(***************************************************************************)
(* The stored password is that of the database that is there               *)
(* (steps/rds.go draws a new one at every attempt).                        *)
(***************************************************************************)
THEOREM StoredPasswordOpens == Spec => []PasswordOpens
  <1>1. NamedInv => PasswordOpens
    BY DEF NamedInv, PasswordInv, Opens, PasswordOpens
  <1> QED
    BY <1>1, NamedInvariance, PTL
=============================================================================
