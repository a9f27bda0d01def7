--------------------------- MODULE StartupProofs ---------------------------
(***************************************************************************)
(* Proofs about Startup, for any datastores, ping limit, operand files and *)
(* configurations.                                                         *)
(***************************************************************************)
EXTENDS Startup, FiniteSetTheorems, WellFoundedInduction, TLAPS

File  == Seq(Entry)
Arity == [Operator -> Nat \cup {None}]

-----------------------------------------------------------------------------
(* Operand files. *)

(* A set of positions that is not empty has a last one. *)
LEMMA LastPosition ==
  ASSUME NEW n \in Nat, NEW S \in SUBSET (1 .. n), S # {}
  PROVE  \E i \in S : \A j \in S : j <= i
<1> DEFINE T == {m \in Nat : \A j \in S : j <= m}
<1>1. n \in T OBVIOUS
<1>2. PICK m \in T : \A k \in T : ~ (<<k, m>> \in OpToRel(<, Nat))
  <2>1. T \subseteq Nat /\ T # {} BY <1>1
  <2> HIDE DEF T
  <2> QED BY <2>1, NatLessThanWellFounded, WFMin
<1>3. \A k \in T : ~ (k < m) BY <1>2 DEF OpToRel
<1>4. m \in S
  <2>1. SUFFICES ASSUME m \notin S PROVE FALSE OBVIOUS
  <2>2. m - 1 \in T
    <3>1. \A j \in S : j <= m /\ j # m /\ j \in Nat /\ 1 <= j BY <2>1
    <3>2. PICK j \in S : TRUE OBVIOUS
    <3>3. m \in Nat /\ m # 0 BY <3>1, <3>2
    <3> QED BY <3>1, <3>3
  <2> QED BY <2>2, <1>3
<1> QED BY <1>4, <1>3

(* What registration returns are arities. *)
LEMMA RegisteredType ==
  ASSUME NEW file \in File, NEW fs \in Arity
  PROVE  Registered(file, fs) \in Arity
<1> SUFFICES ASSUME NEW op \in Operator
             PROVE  Registered(file, fs)[op] \in Nat \cup {None}
  BY DEF Registered, Arity
<1> DEFINE new == {i \in DOMAIN file : /\ file[i].builtin /\ file[i].op = op
                                       /\ \A j \in Conflicts(file, fs) : i < j}
<1>1. CASE fs[op] = None /\ new # {}
  <2>1. (CHOOSE i \in new : TRUE) \in new BY <1>1
  <2>2. \A i \in new : file[i] \in Entry BY DEF File
  <2> HIDE DEF new
  <2>3. file[CHOOSE i \in new : TRUE].args \in Nat BY <2>1, <2>2 DEF Entry
  <2> QED BY <2>3, <1>1 DEF Registered, new
<1>2. CASE ~ (fs[op] = None /\ new # {})
  BY <1>2 DEF Registered, Arity
<1> QED BY <1>1, <1>2

(* A registered function keeps its arity. *)
LEMMA RegisteredKeeps ==
  ASSUME NEW file \in File, NEW fs \in Arity, NEW op \in Operator, fs[op] # None
  PROVE  Registered(file, fs)[op] = fs[op]
BY DEF Registered

(* After a file without conflicts, its built-ins are registered with the    *)
(* arities that it gives them.                                              *)
LEMMA RegisteredAgrees ==
  ASSUME NEW file \in File, NEW fs \in Arity, Conflicts(file, fs) = {},
         NEW i \in DOMAIN file, file[i].builtin
  PROVE  Registered(file, fs)[file[i].op] = file[i].args
<1> USE ConfigAssumption
<1> DEFINE op == file[i].op
           new == {j \in DOMAIN file : /\ file[j].builtin /\ file[j].op = op
                                       /\ \A k \in Conflicts(file, fs) : j < k}
<1>1. op \in Operator
  <2>1. file[i] \in Entry BY DEF File
  <2> QED BY <2>1 DEF Entry
<1>2. \A j \in DOMAIN file : file[j].builtin => \A n \in Claims(file, j, fs) : n = file[j].args
  BY DEF Conflicts
<1>3. CASE fs[op] # None
  <2>1. fs[op] \in Claims(file, i, fs) BY <1>3 DEF Claims
  <2> QED BY <1>1, <1>2, <1>3, <2>1 DEF Registered
<1>4. CASE fs[op] = None
  <2>1. i \in new OBVIOUS
  <2>2. \A j \in new : file[j].args = file[i].args
    <3> SUFFICES ASSUME NEW j \in new PROVE file[j].args = file[i].args OBVIOUS
    <3>1. i \in Nat /\ j \in Nat /\ i >= 1 /\ j >= 1 BY DEF File
    <3>2. CASE i = j BY <3>2
    <3>3. CASE i < j
      <4>1. i \in 1 .. (j - 1) BY <3>1, <3>3
      <4>2. file[i].args \in Claims(file, j, fs) BY <1>4, <4>1 DEF Claims
      <4> QED BY <4>2, <1>2
    <3>4. CASE j < i
      <4>1. j \in 1 .. (i - 1) BY <3>1, <3>4
      <4>2. file[j].args \in Claims(file, i, fs) BY <1>4, <4>1 DEF Claims
      <4> QED BY <4>2, <1>2
    <3> QED BY <3>1, <3>2, <3>3, <3>4
  <2>3. Registered(file, fs)[op] = file[CHOOSE j \in new : TRUE].args
    BY <1>1, <1>4, <2>1 DEF Registered
  <2>4. (CHOOSE j \in new : TRUE) \in new BY <2>1
  <2> HIDE DEF new
  <2> QED BY <2>2, <2>3, <2>4
<1> QED BY <1>3, <1>4

(* What overrides an operator is an entry of the file for it. *)
LEMMA OverriddenBy ==
  ASSUME NEW file \in File, NEW ops \in [Operator -> Entry \cup {None}], NEW op \in Operator
  PROVE  \/ Overridden(ops, file)[op] = ops[op]
         \/ \E i \in DOMAIN file : file[i].op = op /\ Overridden(ops, file)[op] = file[i]
<1> DEFINE those == {i \in DOMAIN file : file[i].op = op}
<1>1. CASE those = {} BY <1>1 DEF Overridden
<1>2. CASE those # {}
  <2>1. those \subseteq 1 .. Len(file) /\ Len(file) \in Nat BY DEF File
  <2>2. \E i \in those : \A j \in those : j <= i
    <3> HIDE DEF those
    <3> QED BY <1>2, <2>1, LastPosition
  <2>3. (CHOOSE i \in those : \A j \in those : j <= i) \in those BY <2>2
  <2>4. Overridden(ops, file)[op] = file[CHOOSE i \in those : \A j \in those : j <= i]
    BY <1>2 DEF Overridden
  <2> QED BY <2>3, <2>4
<1> QED BY <1>1, <1>2

(* The same for the entries of one file. *)
LEMMA DefaultsOnly ==
  ASSUME NEW file \in File, NEW op \in Operator
  PROVE  \/ Overridden(NoOperands, file)[op] = None
         \/ \E i \in DOMAIN file : /\ file[i].op = op
                                   /\ Overridden(NoOperands, file)[op] = file[i]
<1>1. NoOperands \in [Operator -> Entry \cup {None}] /\ NoOperands[op] = None BY DEF NoOperands
<1>2. \/ Overridden(NoOperands, file)[op] = NoOperands[op]
      \/ \E i \in DOMAIN file : file[i].op = op /\ Overridden(NoOperands, file)[op] = file[i]
  BY <1>1, OverriddenBy
<1> QED BY <1>1, <1>2

(* Overriding keeps the type of operands. *)
LEMMA OverriddenType ==
  ASSUME NEW file \in File, NEW ops \in [Operator -> Entry \cup {None}]
  PROVE  Overridden(ops, file) \in [Operator -> Entry \cup {None}]
<1>1. \A op \in Operator : Overridden(ops, file)[op] \in Entry \cup {None}
  <2> TAKE op \in Operator
  <2>1. \A i \in DOMAIN file : file[i] \in Entry BY DEF File
  <2> QED BY <2>1, OverriddenBy
<1>2. Overridden(ops, file) = [op \in Operator |-> Overridden(ops, file)[op]]
  BY DEF Overridden
<1> QED BY <1>1, <1>2

-----------------------------------------------------------------------------
(* Start-up. *)

(* The pings of the datastore being configured: between them main pauses,   *)
(* and it only pings again below the limit.                                 *)
Pinging ==
  /\ current = None => failed = 0 /\ pinging
  /\ pinging => failed < MaxPings

(* Which databases have answered, of those that must.                       *)
Answered == \A d \in Sql \ BadMetadata :
              /\ state[d] # "noPool"
              /\ state[d] = "ready" => d \in answered

(* Metadata is read, and the translator configured, before the first ping.  *)
Pinged == current # None =>
            current \notin BadMetadata /\ main = "datastores" /\ Configurable(current)

(* What has been checked and done in each phase.                            *)
Phases ==
  /\ main \notin {"load", "fatal"} => Valid
  /\ main \notin {"load", "providers", "operands", "fatal"} => loaded = Datastore
  /\ main \in {"opa", "rest", "envoy", "serving"} => \A d \in Datastore : state[d] # "new"
  /\ main \in {"rest", "envoy", "serving"} => ~conf.validate
  /\ \A d \in Datastore : /\ state[d] = "stub" => conf.validate
                          /\ state[d] # "new" => Configurable(d)

IInv == TypeOK /\ Pinging /\ Answered /\ Pinged /\ Phases

(* The files that a configuration has are sequences of entries. *)
LEMMA FilesTyped ==
  ASSUME TypeOK
  PROVE  /\ conf \in Config
         /\ \A k \in Kind : Defaults[k] \in File /\ conf.custom[k] \in File \cup {None}
         /\ \A f \in Files : f \in File
<1>1. conf \in Config
  <2>1. conf \in Configs BY DEF TypeOK
  <2>2. Configs \subseteq Config BY ConfigAssumption
  <2> QED BY <2>1, <2>2
<1>2. \A k \in Kind : Defaults[k] \in File
  <2>1. Defaults \in [Kind -> File] BY ConfigAssumption DEF File
  <2> QED BY <2>1
<1>3. \A k \in Kind : conf.custom[k] \in File \cup {None}
  <2>1. conf.custom \in [Kind -> File \cup {None}] BY <1>1 DEF Config, File
  <2> QED BY <2>1
<1>4. \A f \in Files : f \in File BY <1>2, <1>3 DEF Files
<1> QED BY <1>1, <1>2, <1>3, <1>4

(* Loading operands keeps their types.                                      *)
LEMMA LoadingTypes ==
  ASSUME TypeOK, NEW d \in Datastore, LoadCallOperands(d)
  PROVE  TypeOK'
<1> USE ConfigAssumption
<1> DEFINE k == KindOf[d]
           fs == Registered(Defaults[k], functions)
           ops == Overridden(NoOperands, Defaults[k])
<1>1. k \in Kind /\ Defaults[k] \in File /\ conf.custom[k] \in File \cup {None}
  BY FilesTyped
<1>2. functions \in Arity BY DEF TypeOK, Arity
<1>3. fs \in Arity BY <1>1, <1>2, RegisteredType
<1>4. ops \in [Operator -> Entry \cup {None}]
  <2>1. NoOperands \in [Operator -> Entry \cup {None}] BY DEF NoOperands
  <2> QED BY <1>1, <2>1, OverriddenType
<1>5. CASE Conflicts(Defaults[k], functions) # {}
  BY <1>5 DEF LoadCallOperands, TypeOK, StoresTypeOK, storeVars, operandVars
<1>6. CASE Conflicts(Defaults[k], functions) = {}
  <2>1. functions' \in Arity
    <3>1. CASE conf.custom[k] = None BY <1>3, <1>6, <3>1 DEF LoadCallOperands
    <3>2. CASE conf.custom[k] # None
      <4>1. Registered(conf.custom[k], fs) \in Arity BY <1>1, <1>3, <3>2, RegisteredType
      <4> QED BY <1>6, <3>2, <4>1 DEF LoadCallOperands
    <3> QED BY <3>1, <3>2
  <2>2. PICK new \in [Operator -> Entry \cup {None}] : operands' = [operands EXCEPT ![k] = new]
    <3>1. CASE conf.custom[k] = None \/ Conflicts(conf.custom[k], fs) # {}
      BY <1>4, <1>6, <3>1 DEF LoadCallOperands
    <3>2. CASE ~ (conf.custom[k] = None \/ Conflicts(conf.custom[k], fs) # {})
      <4>1. Overridden(ops, conf.custom[k]) \in [Operator -> Entry \cup {None}]
        BY <1>1, <1>4, <3>2, OverriddenType
      <4> QED BY <1>6, <3>2, <4>1 DEF LoadCallOperands
    <3> QED BY <3>1, <3>2
  <2>3. operands' \in [Kind -> [Operator -> Entry \cup {None}]] BY <1>1, <2>2 DEF TypeOK
  <2>4. /\ loaded' = loaded \cup {d}
        /\ UNCHANGED <<main, current, failed, state, answered, pinging, reachable, conf>>
    BY <1>6 DEF LoadCallOperands, storeVars
  <2> QED BY <2>1, <2>3, <2>4 DEF TypeOK, StoresTypeOK, Arity
<1> QED BY <1>5, <1>6

(* The invariant of start-up; SqlAnswered is not inductive without what has *)
(* been pinged before main serves.                                          *)
THEOREM StartupInductive == Spec => []IInv
<1> USE DatastoreAssumption DEF Datastore
<1>1. Init => IInv
  BY ConfigAssumption DEF Init, StoresInit, NoOperands, IInv, TypeOK, StoresTypeOK, Pinging,
     Answered, Pinged, Phases
<1>2. IInv /\ [Next]_vars => IInv'
  <2> SUFFICES ASSUME IInv, [Next]_vars PROVE IInv'
    OBVIOUS
  <2> USE DEF IInv
  <2>1. ASSUME NEW from, NEW to, Step(from, to), from # "datastores" \/ current = None,
               to # from,
               to \in {"providers", "operands", "mappings", "datastores", "opa", "rest",
                       "envoy", "serving", "validated", "fatal"},
               to \notin {"load", "fatal"} => Valid,
               to \notin {"load", "providers", "operands", "fatal"} => loaded = Datastore,
               to \in {"opa", "rest", "envoy", "serving"} => \A d \in Datastore : state[d] # "new",
               to \in {"rest", "envoy", "serving"} => ~conf.validate
        PROVE  IInv'
    <3> USE <2>1 DEF Step, storeVars, operandVars
    <3>1. TypeOK' BY DEF TypeOK, StoresTypeOK
    <3>2. Pinging' /\ Answered' BY DEF Pinging, Answered
    <3>3. Pinged' BY DEF Pinged
    <3>4. Phases' BY DEF Phases, Valid, Entities, PathOf, Configurable
    <3> QED BY <3>1, <3>2, <3>3, <3>4
  <2>2. CASE Load \/ MakeProviders \/ OperandsLoaded \/ GenerateMappings
             \/ DatastoresConfigured \/ StartOPA \/ StartNewRestProxy \/ StartNewEnvoyProxy
    <3> USE DEF Phases
    <3>1. CASE Load BY <3>1, <2>1 DEF Load, Step
    <3>2. CASE MakeProviders BY <3>2, <2>1 DEF MakeProviders, Step
    <3>3. CASE OperandsLoaded BY <3>3, <2>1 DEF OperandsLoaded, Step
    <3>4. CASE GenerateMappings BY <3>4, <2>1 DEF GenerateMappings, Step
    <3>5. CASE DatastoresConfigured BY <3>5, <2>1 DEF DatastoresConfigured, Step
    <3>6. CASE StartOPA BY <3>6, <2>1 DEF StartOPA, Step
    <3>7. CASE StartNewRestProxy BY <3>7, <2>1 DEF StartNewRestProxy, Step
    <3>8. CASE StartNewEnvoyProxy BY <3>8, <2>1 DEF StartNewEnvoyProxy, Step
    <3> QED BY <2>2, <3>1, <3>2, <3>3, <3>4, <3>5, <3>6, <3>7, <3>8
  <2>3. CASE \E d \in Datastore : LoadCallOperands(d)
    <3>1. PICK d \in Datastore : LoadCallOperands(d) BY <2>3
    <3>2. TypeOK' BY <3>1, LoadingTypes
    <3>3. /\ main = "operands" /\ main' \in {"operands", "fatal"}
          /\ UNCHANGED <<current, failed, state, answered, pinging, reachable, conf>>
      BY <3>1 DEF LoadCallOperands, storeVars
    <3>4. Pinging' /\ Answered' /\ Pinged' BY <3>3 DEF Pinging, Answered, Pinged
    <3>5. Phases' BY <3>3 DEF Phases, Valid, Entities, PathOf, Configurable
    <3> QED BY <3>2, <3>4, <3>5
  <2>4. CASE \E d \in Datastore : ConfigureDatastore(d)
    <3>1. PICK d \in Datastore : ConfigureDatastore(d) BY <2>4
    <3>2. UNCHANGED <<conf, functions, operands, loaded, reachable>> /\ main = "datastores"
      BY <3>1 DEF ConfigureDatastore, Configure, operandVars
    <3>3. \A x \in Datastore : Configurable(x)' <=> Configurable(x) BY <3>2 DEF Configurable
    <3>4. Valid' <=> Valid BY <3>2 DEF Valid, Entities, PathOf
    <3>5. CASE Configurable(d) /\ d \notin BadMetadata /\ ~conf.validate
      <4>1. Configure(d) BY <3>1, <3>5 DEF ConfigureDatastore
      <4>2. current' = d /\ current = None /\ UNCHANGED <<main, failed, state, pinging, answered>>
        BY <4>1, <3>5 DEF Configure
      <4>3. TypeOK' BY <3>2, <4>2 DEF TypeOK, StoresTypeOK
      <4>4. Pinging' /\ Answered' BY <4>2 DEF Pinging, Answered
      <4>5. Pinged' BY <3>2, <3>3, <3>5, <4>2 DEF Pinged
      <4>6. Phases' BY <3>2, <3>3, <3>4, <4>2 DEF Phases
      <4> QED BY <4>3, <4>4, <4>5, <4>6
    <3>6. CASE Configurable(d) /\ (d \in BadMetadata \/ conf.validate)
      <4>1. PICK s \in {"noPool", "stub"} : Configured(d, s) /\ (s = "noPool" => d \in BadMetadata)
                                            /\ (s = "stub" => conf.validate)
        BY <3>1, <3>6 DEF ConfigureDatastore, Configure
      <4>2. state' = [state EXCEPT ![d] = s] /\ current' = None /\ failed' = 0 /\ pinging'
            /\ UNCHANGED <<main, answered>>
        BY <3>1, <3>6, <4>1 DEF ConfigureDatastore, Configure, Configured
      <4>3. TypeOK' BY <3>2, <4>2, <4>1 DEF TypeOK, StoresTypeOK, Configured
      <4>4. Pinging' BY <4>2 DEF Pinging
      <4>5. Answered' BY <4>1, <4>2 DEF Answered, TypeOK, StoresTypeOK
      <4>6. Pinged' BY <4>2 DEF Pinged
      <4>7. Phases' BY <3>2, <3>3, <3>4, <3>6, <4>1, <4>2 DEF Phases, TypeOK, StoresTypeOK
      <4> QED BY <4>3, <4>4, <4>5, <4>6, <4>7
    <3>7. CASE ~Configurable(d)
      <4>1. main' = "fatal" /\ UNCHANGED <<current, failed, state, answered, pinging>> /\ current = None
        BY <3>1, <3>7 DEF ConfigureDatastore, storeVars
      <4>2. TypeOK' BY <3>2, <4>1 DEF TypeOK, StoresTypeOK
      <4>3. Pinging' /\ Answered' /\ Pinged' BY <4>1 DEF Pinging, Answered, Pinged
      <4>4. Phases' BY <3>2, <3>3, <4>1 DEF Phases
      <4> QED BY <4>2, <4>3, <4>4
    <3> QED BY <3>5, <3>6, <3>7
  <2>5. CASE AwaitDatabase /\ UNCHANGED <<conf, operandVars>>
    <3>1. UNCHANGED <<conf, functions, operands, loaded, reachable>>
      BY <2>5 DEF operandVars, AwaitDatabase, PingAnswered, SqlPingFails, MongoPingFails, AfterPause
    <3>2. \A x \in Datastore : Configurable(x)' <=> Configurable(x) BY <3>1 DEF Configurable
    <3>3. Valid' <=> Valid BY <3>1 DEF Valid, Entities, PathOf
    <3>4. current \in Datastore /\ main = "datastores" /\ Configurable(current)
      BY <2>5 DEF AwaitDatabase, PingAnswered, SqlPingFails, MongoPingFails, AfterPause, Pinged,
         TypeOK, StoresTypeOK
    <3>5. CASE PingAnswered \/ MongoPingFails
      <4>1. /\ state' = [state EXCEPT ![current] = "ready"]
            /\ current' = None /\ failed' = 0 /\ pinging' = TRUE /\ UNCHANGED main
            /\ \/ answered' = answered \cup {current}
               \/ current \in Mongo /\ UNCHANGED answered
        BY <3>5 DEF PingAnswered, MongoPingFails, Configured
      <4>2. TypeOK' BY <3>1, <3>4, <4>1 DEF TypeOK, StoresTypeOK
      <4>3. Pinging' /\ Pinged' BY <4>1 DEF Pinging, Pinged
      <4>4. Answered' BY <3>4, <4>1 DEF Answered, TypeOK, StoresTypeOK
      <4>5. Phases' BY <3>1, <3>2, <3>3, <3>4, <4>1 DEF Phases, TypeOK, StoresTypeOK
      <4> QED BY <4>2, <4>3, <4>4, <4>5
    <3>6. CASE SqlPingFails
      <4>1. /\ failed' = failed + 1 /\ pinging' = FALSE /\ failed < MaxPings
            /\ UNCHANGED <<main, current, state, answered>>
        BY <3>6 DEF SqlPingFails, Pinging
      <4>7. failed' \in 0 .. MaxPings /\ pinging' \in BOOLEAN
        <5>1. failed \in 0 .. MaxPings BY DEF TypeOK, StoresTypeOK
        <5>2. pinging' = FALSE BY <4>1
        <5>3. pinging' \in BOOLEAN BY <5>2
        <5> QED BY <4>1, <5>1, <5>3
      <4>2. TypeOK' BY <3>1, <4>1, <4>7 DEF TypeOK, StoresTypeOK
      <4>3. Pinging' BY <3>4, <4>1 DEF Pinging
      <4>4. Answered' BY <4>1 DEF Answered
      <4>5. Pinged' BY <3>2, <3>4, <4>1 DEF Pinged
      <4>6. Phases' BY <3>1, <3>2, <3>3, <4>1 DEF Phases
      <4> QED BY <4>2, <4>3, <4>4, <4>5, <4>6
    <3>7. CASE AfterPause
      <4>1. UNCHANGED <<state, answered>> /\ pinging' = TRUE
            /\ \/ main' = "fatal" /\ current' = None /\ failed' = 0
               \/ failed # MaxPings /\ UNCHANGED <<main, current, failed>>
        BY <3>7 DEF AfterPause
      <4>2. TypeOK' BY <3>1, <4>1 DEF TypeOK, StoresTypeOK
      <4>3. Pinging' BY <3>4, <4>1 DEF Pinging, TypeOK, StoresTypeOK
      <4>4. Answered' BY <4>1 DEF Answered
      <4>5. Pinged' BY <3>2, <3>4, <4>1 DEF Pinged
      <4>6. Phases' BY <3>1, <3>2, <3>3, <4>1 DEF Phases
      <4> QED BY <4>2, <4>3, <4>4, <4>5, <4>6
    <3> QED BY <2>5, <3>5, <3>6, <3>7 DEF AwaitDatabase
  <2>6. CASE \E d \in Datastore : Toggle(d) /\ UNCHANGED <<conf, operandVars>>
    <3>1. PICK d \in Datastore : Toggle(d) BY <2>6
    <3>2. UNCHANGED <<main, current, failed, state, answered, pinging, conf, functions, operands, loaded>>
      BY <2>6, <3>1 DEF Toggle, storeVars, operandVars
    <3>3. reachable' \in [Datastore -> BOOLEAN]
      <4>1. (~reachable[d]) \in BOOLEAN OBVIOUS
      <4> QED BY <3>1, <4>1 DEF Toggle, TypeOK, StoresTypeOK
    <3>4. TypeOK' BY <3>2, <3>3 DEF TypeOK, StoresTypeOK
    <3>5. Pinging' /\ Answered' /\ Pinged' BY <3>2 DEF Pinging, Answered, Pinged, Configurable
    <3>6. Phases' BY <3>2 DEF Phases, Valid, Entities, PathOf, Configurable
    <3> QED BY <3>4, <3>5, <3>6
  <2>7. CASE UNCHANGED vars
    <3>1. UNCHANGED <<main, current, failed, state, answered, pinging, reachable, conf, functions,
                      operands, loaded>>
      BY <2>7 DEF vars, storeVars, operandVars
    <3>2. TypeOK' BY <3>1 DEF TypeOK, StoresTypeOK
    <3>3. Pinging' /\ Answered' /\ Pinged' BY <3>1 DEF Pinging, Answered, Pinged, Configurable
    <3>4. Phases' BY <3>1 DEF Phases, Valid, Entities, PathOf, Configurable
    <3> QED BY <3>2, <3>3, <3>4
  <2> QED BY <2>2, <2>3, <2>4, <2>5, <2>6, <2>7 DEF Next, Main
<1> QED BY <1>1, <1>2, PTL DEF Spec

(* Type correctness; the counter of failed pings stays within the limit.    *)
THEOREM StartupTypes == Spec => []TypeOK
<1>1. IInv => TypeOK BY DEF IInv
<1> QED BY <1>1, StartupInductive, PTL

(* When Kelon serves, every SQL database with sound metadata has answered.  *)
THEOREM SqlHasAnswered == Spec => []SqlAnswered
<1>1. IInv => SqlAnswered
  BY DEF IInv, TypeOK, StoresTypeOK, Answered, Phases, SqlAnswered, Serves, Datastore
<1> QED BY <1>1, StartupInductive, PTL

-----------------------------------------------------------------------------
(* Operands. *)

(* Arities come from files. *)
FromFiles ==
  \A op \in Operator : functions[op] # None =>
    \E f \in Files : \E i \in DOMAIN f :
      f[i].builtin /\ f[i].op = op /\ f[i].args = functions[op]

Agreeing(k) == conf.custom[k] # None /\ \A f \in Files : ~Contradict(conf.custom[k], f)

InService ==
  \A d \in loaded : Agreeing(KindOf[d]) =>
    operands[KindOf[d]] =
      Overridden(Overridden(NoOperands, Defaults[KindOf[d]]), conf.custom[KindOf[d]])

OInv == AritiesAgree /\ FromFiles /\ InService

(* Registration takes arities from what was registered or from the file.    *)
LEMMA RegisteredFrom ==
  ASSUME NEW file \in File, NEW fs \in Arity, NEW op \in Operator,
         Registered(file, fs)[op] # None
  PROVE  \/ Registered(file, fs)[op] = fs[op]
         \/ \E i \in DOMAIN file : /\ file[i].builtin /\ file[i].op = op
                                   /\ file[i].args = Registered(file, fs)[op]
<1> DEFINE new == {i \in DOMAIN file : /\ file[i].builtin /\ file[i].op = op
                                       /\ \A j \in Conflicts(file, fs) : i < j}
<1>1. CASE fs[op] = None /\ new # {}
  <2>1. (CHOOSE i \in new : TRUE) \in new BY <1>1
  <2>2. Registered(file, fs)[op] = file[CHOOSE i \in new : TRUE].args
    BY <1>1 DEF Registered
  <2>3. PICK i \in new : Registered(file, fs)[op] = file[i].args BY <2>1, <2>2
  <2> QED BY <2>3
<1>2. CASE ~ (fs[op] = None /\ new # {}) BY <1>2 DEF Registered
<1> QED BY <1>1, <1>2

(* A file that agrees with those that arities come from has no conflicts.   *)
LEMMA AgreeingHasNoConflicts ==
  ASSUME NEW file \in File, NEW fs \in Arity, NEW from,
         file \in from, \A f \in from : ~Contradict(file, f),
         \A op \in Operator : fs[op] # None =>
           \E f \in from : \E i \in DOMAIN f : f[i].builtin /\ f[i].op = op /\ f[i].args = fs[op]
  PROVE  Conflicts(file, fs) = {}
<1> SUFFICES ASSUME NEW i \in DOMAIN file, file[i].builtin, NEW n \in Claims(file, i, fs)
             PROVE  n = file[i].args
  BY DEF Conflicts
<1>1. file[i].op \in Operator
  <2>1. file[i] \in Entry BY DEF File
  <2> QED BY <2>1 DEF Entry
<1>2. CASE fs[file[i].op] # None
  <2>1. n = fs[file[i].op] BY <1>2 DEF Claims
  <2>2. PICK f \in from : \E j \in DOMAIN f :
          f[j].builtin /\ f[j].op = file[i].op /\ f[j].args = fs[file[i].op]
    BY <1>1, <1>2
  <2> QED BY <2>1, <2>2 DEF Contradict
<1>3. CASE fs[file[i].op] = None
  <2>1. PICK j \in 1 .. (i - 1) : file[j].builtin /\ file[j].op = file[i].op /\ n = file[j].args
    BY <1>3 DEF Claims
  <2>2. j \in DOMAIN file BY DEF File
  <2> QED BY <2>1, <2>2 DEF Contradict
<1> QED BY <1>2, <1>3

(* Loading the operands of a datastore keeps the invariant. *)
LEMMA LoadingKeeps ==
  ASSUME TypeOK, OInv, NEW d \in Datastore, LoadCallOperands(d)
  PROVE  OInv'
<1> USE ConfigAssumption
<1> DEFINE k == KindOf[d]
           custom == conf.custom[k]
           fs == Registered(Defaults[k], functions)
           ops == Overridden(NoOperands, Defaults[k])
<1>1. k \in Kind /\ Defaults[k] \in File /\ custom \in File \cup {None}
  BY FilesTyped
<1>2. functions \in Arity BY DEF TypeOK, Arity
<1>3. fs \in Arity BY <1>1, <1>2, RegisteredType
<1>4. NoOperands \in [Operator -> Entry \cup {None}] BY DEF NoOperands
<1>5. ops \in [Operator -> Entry \cup {None}] BY <1>1, <1>4, OverriddenType
<1>6. UNCHANGED conf BY DEF LoadCallOperands
<1>7. Files' = Files BY <1>6 DEF Files
<1>8. Defaults[k] \in Files /\ (custom # None => custom \in Files)
  <2>1. Defaults[k] # None BY <1>1 DEF File
  <2> QED BY <1>1, <2>1 DEF Files
<1>9. CASE Conflicts(Defaults[k], functions) # {}
  <2>1. UNCHANGED operandVars BY <1>9 DEF LoadCallOperands
  <2> QED BY <2>1, <1>6, <1>7 DEF operandVars, OInv, AritiesAgree, FromFiles, InService, Agreeing
<1>10. CASE Conflicts(Defaults[k], functions) = {}
  <2> DEFINE fs2 == IF custom = None THEN fs ELSE Registered(custom, fs)
             good == ~ (custom = None \/ Conflicts(custom, fs) # {})
             new == IF good THEN Overridden(ops, custom) ELSE ops
  <2>1. /\ functions' = fs2 /\ operands' = [operands EXCEPT ![k] = new]
        /\ loaded' = loaded \cup {d}
    BY <1>10 DEF LoadCallOperands
  <2>2. fs2 \in Arity BY <1>1, <1>3, RegisteredType
  <2>3. \A op \in Operator : functions[op] # None => fs2[op] = functions[op]
    <3> TAKE op \in Operator
    <3> HAVE functions[op] # None
    <3>1. fs[op] = functions[op] BY <1>1, <1>2, RegisteredKeeps
    <3> QED BY <1>1, <1>3, <3>1, RegisteredKeeps
  <2>4. \A i \in DOMAIN Defaults[k] : Defaults[k][i].builtin =>
          fs2[Defaults[k][i].op] = Defaults[k][i].args
    <3> SUFFICES ASSUME NEW i \in DOMAIN Defaults[k], Defaults[k][i].builtin
                 PROVE  fs2[Defaults[k][i].op] = Defaults[k][i].args
      OBVIOUS
    <3>1. fs[Defaults[k][i].op] = Defaults[k][i].args BY <1>1, <1>2, <1>10, RegisteredAgrees
    <3>2. Defaults[k][i].op \in Operator /\ Defaults[k][i].args # None
      <4>1. Defaults[k][i] \in Entry BY <1>1 DEF File
      <4> QED BY <4>1 DEF Entry
    <3> QED BY <1>1, <1>3, <3>1, <3>2, RegisteredKeeps
  <2>5. good => \A i \in DOMAIN custom : custom[i].builtin => fs2[custom[i].op] = custom[i].args
    BY <1>1, <1>3, RegisteredAgrees
  <2>6. AritiesAgree'
    <3>1. \A op \in Operator : new[op] # None /\ new[op].builtin => new[op].args = fs2[op]
      <4> SUFFICES ASSUME NEW op \in Operator, new[op] # None, new[op].builtin
                   PROVE  new[op].args = fs2[op]
        OBVIOUS
      <4>1. ops[op] = None \/ \E i \in DOMAIN Defaults[k] :
              Defaults[k][i].op = op /\ ops[op] = Defaults[k][i]
        BY <1>1, DefaultsOnly
      <4>2. CASE new[op] = ops[op] BY <4>1, <4>2, <2>4
      <4>3. CASE new[op] # ops[op]
        <5>1. good BY <4>3
        <5>2. PICK i \in DOMAIN custom : custom[i].op = op /\ new[op] = custom[i]
          <6>1. custom \in File /\ new = Overridden(ops, custom) BY <1>1, <5>1
          <6> HIDE DEF custom, ops, new
          <6>2. \/ Overridden(ops, custom)[op] = ops[op]
                \/ \E i \in DOMAIN custom : /\ custom[i].op = op
                                            /\ Overridden(ops, custom)[op] = custom[i]
            BY <1>5, <6>1, OverriddenBy
          <6> QED BY <4>3, <6>1, <6>2
        <5> QED BY <5>1, <5>2, <2>5
      <4> QED BY <4>2, <4>3
    <3>2. SUFFICES ASSUME NEW j \in Kind, NEW op \in Operator, operands'[j][op] # None,
                          operands'[j][op].builtin
                   PROVE  operands'[j][op].args = functions'[op]
      BY DEF AritiesAgree
    <3>3. CASE j = k
      <4>1. operands'[j] = new BY <1>1, <2>1, <3>3 DEF TypeOK
      <4> QED BY <2>1, <3>1, <3>2, <4>1
    <3>4. CASE j # k
      <4>1. operands'[j] = operands[j] BY <2>1, <3>4 DEF TypeOK
      <4>2. operands[j][op].args = functions[op] BY <3>2, <4>1 DEF OInv, AritiesAgree
      <4>3. operands[j][op].args # None
        <5>1. operands[j][op] \in Entry BY <3>2, <4>1 DEF TypeOK
        <5> QED BY <5>1 DEF Entry
      <4> QED BY <2>1, <2>3, <4>1, <4>2, <4>3
    <3> QED BY <3>3, <3>4
  <2>7. \A op \in Operator : fs[op] # None =>
          \E f \in Files : \E i \in DOMAIN f :
            f[i].builtin /\ f[i].op = op /\ f[i].args = fs[op]
    BY <1>1, <1>2, <1>8, RegisteredFrom DEF OInv, FromFiles
  <2>8. FromFiles'
    <3>1. \A op \in Operator : fs2[op] # None =>
            \E f \in Files : \E i \in DOMAIN f :
              f[i].builtin /\ f[i].op = op /\ f[i].args = fs2[op]
      BY <1>1, <1>3, <1>8, <2>7, RegisteredFrom
    <3> QED BY <1>7, <2>1, <3>1 DEF FromFiles
  <2>9. Agreeing(k) => good
    <3> SUFFICES ASSUME Agreeing(k) PROVE good OBVIOUS
    <3>1. custom # None /\ custom \in File BY <1>1 DEF Agreeing
    <3>2. Conflicts(custom, fs) = {}
      <4>1. custom \in Files /\ \A f \in Files : ~Contradict(custom, f)
        BY <1>8, <3>1 DEF Agreeing
      <4> HIDE DEF custom, fs
      <4> QED BY <1>3, <2>7, <3>1, <4>1, AgreeingHasNoConflicts
    <3> QED BY <3>1, <3>2
  <2>10. InService'
    <3>1. SUFFICES ASSUME NEW e \in loaded', Agreeing(KindOf[e])
                   PROVE  operands'[KindOf[e]] =
                            Overridden(Overridden(NoOperands, Defaults[KindOf[e]]),
                                       conf.custom[KindOf[e]])
      BY <1>6, <1>7 DEF InService, Agreeing
    <3>2. CASE KindOf[e] = k
      <4>1. operands'[k] = new BY <1>1, <2>1 DEF TypeOK
      <4> QED BY <2>9, <3>1, <3>2, <4>1
    <3>3. CASE KindOf[e] # k
      <4>1. e \in loaded BY <2>1, <3>3
      <4>2. KindOf[e] \in Kind BY <4>1 DEF TypeOK
      <4>3. operands'[KindOf[e]] = operands[KindOf[e]] BY <2>1, <3>3, <4>2 DEF TypeOK
      <4> QED BY <3>1, <4>1, <4>3 DEF OInv, InService
    <3> QED BY <3>2, <3>3
  <2> QED BY <2>6, <2>8, <2>10 DEF OInv
<1> QED BY <1>9, <1>10

(* Every datastore's mapping of a registered function takes the registered  *)
(* number of arguments, and an agreeing file is in service once loaded; for *)
(* this the arities must be traced to the files they come from.             *)
THEOREM OperandsInductive == Spec => []OInv
<1>1. Init => OInv
  BY DEF Init, NoOperands, OInv, AritiesAgree, FromFiles, InService
<1>2. TypeOK /\ OInv /\ [Next]_vars => OInv'
  <2> SUFFICES ASSUME TypeOK, OInv, [Next]_vars PROVE OInv'
    OBVIOUS
  <2>1. CASE \E d \in Datastore : LoadCallOperands(d) BY <2>1, LoadingKeeps
  <2>2. CASE UNCHANGED <<conf, operandVars>>
    <3>1. UNCHANGED <<conf, functions, operands, loaded>> BY <2>2 DEF operandVars
    <3> QED BY <3>1 DEF OInv, AritiesAgree, FromFiles, InService, Agreeing, Files
  <2> QED BY <2>1, <2>2 DEF Next, Main, vars, Step, Load, MakeProviders, OperandsLoaded,
        GenerateMappings, DatastoresConfigured, StartOPA, StartNewRestProxy, StartNewEnvoyProxy,
        ConfigureDatastore
<1> QED BY <1>1, <1>2, StartupTypes, PTL DEF Spec

(* For any operand files, in any order of loading: of the mappings that     *)
(* register their function.                                                 *)
THEOREM AritiesAgreed == Spec => []AritiesAgree
<1>1. OInv => AritiesAgree BY DEF OInv
<1> QED BY <1>1, OperandsInductive, PTL

(* A file that contradicts nothing is in service after loading, whatever    *)
(* other files do.                                                          *)
THEOREM AgreeingServed == Spec => []AgreeingFilesServed
<1>1. IInv /\ OInv => AgreeingFilesServed
  BY DEF IInv, Phases, OInv, InService, Agreeing, AgreeingFilesServed
<1> QED BY <1>1, StartupInductive, OperandsInductive, PTL

-----------------------------------------------------------------------------
(* Schemas. *)

(* A sequence's elements are of its type. *)
LEMMA MemberOf ==
  ASSUME NEW R, NEW q \in Seq(R), NEW k \in DOMAIN q
  PROVE  q[k] \in R
OBVIOUS

(* Validation of a mapping, and the translators' checks, leave each name of *)
(* its datastores one meaning.                                              *)
LEMMA ValidMeansOne ==
  ASSUME TypeOK, Valid, NEW api \in conf.apis, NEW i \in DOMAIN api, api[i] \in Datastore,
         Configurable(api[i]), NEW a \in Entity, NEW b \in Entity
  PROVE  Cardinality(Meanings(api[i], a, b)) <= 1
<1> DEFINE d == api[i]
           s == conf.schemas[d]
           M == Meanings(d, a, b)
<1>1. s # None BY DEF Configurable
<1>2. \A k, m \in DOMAIN s : k # m => s[k].path # s[m].path
  <2> SUFFICES ASSUME NEW k \in DOMAIN s, NEW m \in DOMAIN s, k # m
               PROVE  s[k].path # s[m].path
    OBVIOUS
  <2> DEFINE K == {<<i, x>> : x \in DOMAIN conf.schemas[api[i]]}
  <2>1. K \subseteq Entities(api) BY DEF Entities
  <2>2. <<i, k>> \in Entities(api) /\ <<i, m>> \in Entities(api) BY <2>1
  <2>3. <<i, k>> # <<i, m>> OBVIOUS
  <2>4. PathOf(api, <<i, k>>) # PathOf(api, <<i, m>>) BY <2>2, <2>3 DEF Valid
  <2> QED BY <2>4 DEF PathOf
<1>3. \A k, m \in M : k = m
  <2> SUFFICES ASSUME NEW k \in M, NEW m \in M PROVE k = m OBVIOUS
  <2>1. /\ k \in DOMAIN s /\ m \in DOMAIN s
        /\ s[k].path[1] = a /\ s[m].path[1] = a
    BY DEF Meanings
  <2>2. s \in Seq([schema : Schema, path : Path])
    <3>1. conf \in Config BY FilesTyped
    <3>2. d \in Alias BY ConfigAssumption
    <3> QED BY <1>1, <3>1, <3>2 DEF Config
  <2>3. CASE d \in Sql
    <3>1. Len(s[k].path) = 1 /\ Len(s[m].path) = 1 BY <2>1, <2>3 DEF Configurable
    <3>2. s[k].path \in Seq(Entity) /\ s[m].path \in Seq(Entity)
      <4>1. s[k] \in [schema : Schema, path : Path] /\ s[m] \in [schema : Schema, path : Path]
        <5>1. k \in DOMAIN s /\ m \in DOMAIN s BY <2>1
        <5> HIDE DEF s, M
        <5> QED BY <2>2, <5>1, MemberOf
      <4> QED BY <4>1 DEF Path
    <3>3. s[k].path = <<a>> /\ s[m].path = <<a>> BY <2>1, <3>1, <3>2
    <3> QED BY <1>2, <2>1, <3>3
  <2>4. CASE d \notin Sql
    <3>1. RootsListed(s)
      <4>1. conf \in Configs /\ d \in Alias BY ConfigAssumption DEF TypeOK
      <4> QED BY <1>1, <4>1, ConfigAssumption
    <3>2. PICK r \in DOMAIN s : s[r].schema = s[k].schema /\ s[r].path = <<a>>
      BY <2>1, <3>1 DEF RootsListed
    <3>3. PICK t \in DOMAIN s : s[t].schema = s[m].schema /\ s[t].path = <<a>>
      <4>1. \E t \in DOMAIN s : s[t].schema = s[m].schema /\ s[t].path = <<s[m].path[1]>>
        BY <2>1, <3>1 DEF RootsListed
      <4> QED BY <2>1, <4>1
    <3>4. s[k].schema = s[m].schema BY <1>2, <3>2, <3>3
    <3>5. k <= m /\ m <= k BY <2>4, <3>4 DEF Meanings
    <3>6. k \in Nat /\ m \in Nat BY <2>1, <2>2
    <3> QED BY <3>5, <3>6
  <2> QED BY <2>3, <2>4
<1>4. CASE M = {} BY <1>4, FS_EmptySet
<1>5. CASE M # {}
  <2>1. PICK k \in M : TRUE BY <1>5
  <2>2. M = {k} BY <1>3, <2>1
  <2>3. Cardinality({k}) = 1 BY FS_Singleton
  <2> QED BY <2>2, <2>3
<1> QED BY <1>4, <1>5

(* For any configuration that is accepted, a name of a mapping's datastore  *)
(* means one table or path.                                                 *)
THEOREM OneMeaning == Spec => []NamesHaveOneMeaning
<1>1. IInv => NamesHaveOneMeaning
  BY ValidMeansOne DEF IInv, Phases, Serves, NamesHaveOneMeaning
<1> QED BY <1>1, StartupInductive, PTL
=============================================================================
