------------------------------ MODULE Startup ------------------------------
(***************************************************************************)
(* From the configuration to a process that serves, on the main goroutine: *)
(* Kelon.Start and onConfigLoaded, or StartValidate.  kelon.yml is loaded  *)
(* and validated, the operand files are loaded, path mapper, datastores    *)
(* and OPA are configured, the proxies started.  Every error is fatal but  *)
(* those of custom operand files.                                          *)
(*                                                                         *)
(* The entities of a schema form trees.  They are given as the sequence of *)
(* their paths, of names or aliases, in the order of the file; those of a  *)
(* datastore's schemas, which come in no order, as one sequence.  A schema *)
(* has entities.                                                           *)
(***************************************************************************)
EXTENDS DatastoreStartup, Sequences, FiniteSets

CONSTANTS
  Alias,         \* what a mapping may name: datastores and others
  Schema, Entity,
  Kind, KindOf,  \* the types of datastores
  Operator,
  Text,          \* what operands are mapped to
  Defaults,      \* the embedded operand file of each type
  Configs        \* the configurations

Path  == Seq(Entity) \ {<<>>}
Entry == [op : Operator, args : Nat, mapping : Text, builtin : BOOLEAN]

(* kelon.yml, the directory of operand files, and flags.                    *)
Config ==
  [apis     : SUBSET Seq(Alias),       \* the datastores of each mapping
   compiles : BOOLEAN,                 \* whether the mappings do
   faults   : [Datastore -> {"none", "type", "connection"}],
   schemas  : [Alias -> Seq([schema : Schema, path : Path]) \cup {None}],
   custom   : [Kind -> Seq(Entry) \cup {None}],
   envoy    : {"off", "port", "samePort"},
   validate : BOOLEAN]

RootsListed(s) ==
  \A k \in DOMAIN s : \E r \in DOMAIN s :
    s[r].schema = s[k].schema /\ s[r].path = <<s[k].path[1]>>

ASSUME ConfigAssumption ==
  /\ Datastore \subseteq Alias /\ KindOf \in [Datastore -> Kind]
  /\ Defaults \in [Kind -> Seq(Entry)]
  /\ Configs \subseteq Config
  /\ \A c \in Configs, a \in Alias : c.schemas[a] # None => RootsListed(c.schemas[a])
  /\ None \notin Nat \cup Entry \cup Seq(Entry) \cup Seq([schema : Schema, path : Path])

VARIABLES
  conf,
  functions,  \* dsFunctions: the built-ins registered with OPA, and their arity
  operands,   \* the call operands of each type
  loaded      \* the datastores whose operands are loaded

operandVars == <<functions, operands, loaded>>
vars == <<main, storeVars, reachable, conf, operandVars>>

TypeOK ==
  /\ StoresTypeOK
  /\ main \in {"load", "providers", "operands", "mappings", "datastores", "opa",
               "rest", "envoy", "serving", "validated", "fatal"}
  /\ conf \in Configs
  /\ functions \in [Operator -> Nat \cup {None}]
  /\ operands \in [Kind -> [Operator -> Entry \cup {None}]]
  /\ loaded \subseteq Datastore

Step(from, to) ==
  /\ main = from /\ main' = to
  /\ UNCHANGED <<storeVars, reachable, conf, operandVars>>

-----------------------------------------------------------------------------
(* The entities of a mapping's datastores.                                  *)
Entities(api) == UNION {{<<i, k>> : k \in DOMAIN conf.schemas[api[i]]} : i \in DOMAIN api}
PathOf(api, e) == conf.schemas[api[e[1]]][e[2]].path

(* Mutant: entities are compared within their schema only.                  *)
Valid_PerSchema ==
  \A api \in conf.apis :
    /\ \A i \in DOMAIN api : conf.schemas[api[i]] # None
    /\ \A e, f \in Entities(api) :
         e # f /\ conf.schemas[api[e[1]]][e[2]].schema = conf.schemas[api[f[1]]][f[2]].schema
         => PathOf(api, e) # PathOf(api, f)

(* DatastoreAPIMapping.Validate: no name occurs twice among the roots, nor  *)
(* among the children of one entity, which is to say that no path does.     *)
Valid ==
  \A api \in conf.apis :
    /\ \A i \in DOMAIN api : conf.schemas[api[i]] # None
    /\ \A e, f \in Entities(api) : e # f => PathOf(api, e) # PathOf(api, f)

(* The file may be missing or malformed, or map headers twice.              *)
Load == \/ Step("load", "fatal")
        \/ Step("load", IF Valid THEN "providers" ELSE "fatal")

(* Telemetry, which validate mode does without, and MakeDatastores.         *)
MakeProviders ==
  \/ ~conf.validate /\ Step("providers", "fatal")
  \/ Step("providers", IF \E d \in Datastore : conf.faults[d] = "type" THEN "fatal" ELSE "operands")

-----------------------------------------------------------------------------
(* Call operands.  The first to register a function decides on its arity.   *)
Claims(file, i, fs) ==
  IF fs[file[i].op] # None THEN {fs[file[i].op]}
  ELSE {file[j].args : j \in {j \in 1 .. (i - 1) : file[j].builtin /\ file[j].op = file[i].op}}

(* Mutants: a function is registered once; any arity is accepted.           *)
Conflicts_Twice(file, fs) == {i \in DOMAIN file : file[i].builtin /\ Claims(file, i, fs) # {}}
Conflicts_Never(file, fs) == {}

Conflicts(file, fs) ==
  {i \in DOMAIN file : file[i].builtin /\ \E n \in Claims(file, i, fs) : n # file[i].args}

(* What is registered after a file, or after the part of it before its      *)
(* first conflict.                                                          *)
Registered(file, fs) ==
  [op \in Operator |->
     LET new == {i \in DOMAIN file : /\ file[i].builtin /\ file[i].op = op
                                     /\ \A j \in Conflicts(file, fs) : i < j}
     IN IF fs[op] = None /\ new # {} THEN file[CHOOSE i \in new : TRUE].args ELSE fs[op]]

(* Of several entries for an operator the last is kept.                     *)
Overridden(ops, file) ==
  [op \in Operator |->
     LET those == {i \in DOMAIN file : file[i].op = op}
     IN IF those = {} THEN ops[op] ELSE file[CHOOSE i \in those : \A j \in those : j <= i]]

NoOperands == [op \in Operator |-> None]

(* LoadAllCallOperands, for one datastore: a custom file that cannot be     *)
(* read or conflicts is left out, as a whole, with a warning.               *)
LoadCallOperands(d) ==
  LET k      == KindOf[d]
      custom == conf.custom[k]
      fs     == Registered(Defaults[k], functions)
      ops    == Overridden(NoOperands, Defaults[k])
  IN /\ main = "operands" /\ d \notin loaded
     /\ IF Conflicts(Defaults[k], functions) # {}
        THEN main' = "fatal" /\ UNCHANGED operandVars
        ELSE /\ loaded' = loaded \cup {d}
             /\ functions' = IF custom = None THEN fs ELSE Registered(custom, fs)
             /\ operands' = [operands EXCEPT ![k] =
                  IF custom = None \/ Conflicts(custom, fs) # {} THEN ops
                  ELSE Overridden(ops, custom)]
             /\ UNCHANGED main
     /\ UNCHANGED <<storeVars, reachable, conf>>

OperandsLoaded == loaded = Datastore /\ Step("operands", "mappings")

-----------------------------------------------------------------------------
GenerateMappings == Step("mappings", IF conf.compiles THEN "datastores" ELSE "fatal")

(* What the datastore's translator checks.                                  *)
Configurable(d) ==
  /\ conf.faults[d] # "connection" /\ conf.schemas[d] \notin {None, <<>>}
  /\ d \in Sql => \A k \in DOMAIN conf.schemas[d] : Len(conf.schemas[d][k].path) = 1

(* The translator, then the executor, which in validate mode logs queries.  *)
ConfigureDatastore(d) ==
  /\ \/ Configurable(d) /\ ~conf.validate /\ Configure(d)
     \/ /\ main = "datastores" /\ current = None /\ state[d] = "new"
        /\ \/ ~Configurable(d) /\ main' = "fatal" /\ UNCHANGED storeVars
           \/ Configurable(d) /\ conf.validate /\ Configured(d, "stub") /\ UNCHANGED answered
        /\ UNCHANGED reachable
  /\ UNCHANGED <<conf, operandVars>>

(* At least one datastore is needed.                                        *)
DatastoresConfigured ==
  /\ current = None /\ \A d \in Datastore : state[d] # "new"
  /\ Step("datastores", IF Datastore = {} THEN "fatal" ELSE "opa")

(* The policies may not load; in validate mode the request comes next.      *)
StartOPA ==
  \/ Step("opa", "fatal")
  \/ Step("opa", IF conf.validate THEN "validated" ELSE "rest")

(* REST requests are served from here on.                                   *)
StartNewRestProxy == Step("rest", IF conf.envoy = "off" THEN "serving" ELSE "envoy")

StartNewEnvoyProxy == Step("envoy", IF conf.envoy = "samePort" THEN "fatal" ELSE "serving")

-----------------------------------------------------------------------------
Init ==
  /\ main = "load" /\ conf \in Configs /\ StoresInit
  /\ functions = [op \in Operator |-> None]
  /\ operands = [k \in Kind |-> NoOperands] /\ loaded = {}

Main == \/ Load \/ MakeProviders \/ OperandsLoaded \/ GenerateMappings
        \/ DatastoresConfigured \/ StartOPA \/ StartNewRestProxy \/ StartNewEnvoyProxy
        \/ \E d \in Datastore : LoadCallOperands(d) \/ ConfigureDatastore(d)
        \/ AwaitDatabase /\ UNCHANGED <<conf, operandVars>>

Next == Main \/ \E d \in Datastore : Toggle(d) /\ UNCHANGED <<conf, operandVars>>

Spec == Init /\ [][Next]_vars
FairSpec == Spec /\ WF_vars(Main)

-----------------------------------------------------------------------------
Serves == main \in {"envoy", "serving"}

(* What an entity of a collection, or a table, may stand for, in whichever  *)
(* order the schemas are walked through: findSchemaForEntity finds a table  *)
(* in any schema that has it; of a collection that several schemas have,    *)
(* entityPaths has the paths of one, and of several nested entities with    *)
(* one name the last.                                                       *)
Meanings(d, collection, entity) ==
  LET At(k) == conf.schemas[d][k]
      named == {k \in DOMAIN conf.schemas[d] : LET p == At(k).path
                                               IN p[1] = collection /\ p[Len(p)] = entity}
  IN IF d \in Sql THEN {k \in named : \A m \in named : At(m).schema = At(k).schema => k <= m}
     ELSE {k \in named : \A m \in named : At(m).schema = At(k).schema => m <= k}

Contradict(f, g) ==
  \E i \in DOMAIN f, j \in DOMAIN g :
    f[i].builtin /\ g[j].builtin /\ f[i].op = g[j].op /\ f[i].args # g[j].args

Files == ({Defaults[k] : k \in Kind} \cup {conf.custom[k] : k \in Kind}) \ {None}

-----------------------------------------------------------------------------
(* Properties. *)

(* Kelon serves only after each SQL database has answered, unless the       *)
(* datastore's metadata is wrong; no sequence of failures, pauses and late  *)
(* answers at the limit lets one slip through.                              *)
SqlAnswered ==
  Serves => \A d \in Sql \ BadMetadata : state[d] = "ready" /\ d \in answered

(* Of the datastores that mappings use, validation accepts only schemas in  *)
(* which a name has one meaning: two starts, or two queries, never take it  *)
(* for different tables or paths.                                           *)
NamesHaveOneMeaning ==
  Serves => \A api \in conf.apis : \A i \in DOMAIN api :
    api[i] \in Datastore =>
      \A a, b \in Entity : Cardinality(Meanings(api[i], a, b)) <= 1

(* Policies are compiled for the number of arguments that each mapping in   *)
(* service takes which registers its function, whichever files registered   *)
(* it, in whatever order.  A mapping of a registered function that does not *)
(* register it is not compared, and may take another number.                *)
AritiesAgree ==
  \A k \in Kind, op \in Operator :
    operands[k][op] # None /\ operands[k][op].builtin => operands[k][op].args = functions[op]

(* A custom operand file that contradicts neither itself nor another one is *)
(* in service, whatever becomes of others, and however many datastores      *)
(* share it or register the same functions.                                 *)
AgreeingFilesServed ==
  main \notin {"load", "providers", "operands", "fatal"} =>
    \A d \in Datastore :
      LET k == KindOf[d]
      IN conf.custom[k] # None /\ (\A f \in Files : ~Contradict(conf.custom[k], f))
         => operands[k] = Overridden(Overridden(NoOperands, Defaults[k]), conf.custom[k])

(* The wait is bounded: whatever databases do, start-up ends.               *)
StartupEnds == <>(main \in {"serving", "validated", "fatal"})
=============================================================================
