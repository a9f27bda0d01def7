# Kelon in TLA+

A verification development for [Kelon](../src), an access-decision service in front of
Open Policy Agent (OPA). Kelon loads rego policies, evaluates them partially, translates what is left
into database queries, and answers HTTP or Envoy requests with allow or deny. Policies and documents
can be changed at run time, over HTTP and by editing the rego directory.

This directory holds TLA+ modules translated from the Go source, TLC configurations that check them
on small instances, and theorems that TLAPS checks for every instance.

## 1. The system: components, state, operations

| component | source | state | operations | hard because |
|---|---|---|---|---|
| Policy store and its users | `internal/pkg/opa/opa.go`, `internal/pkg/api/rest-handler.go` | OPA's in-memory store (policies, documents), the plugin manager's compiler, the store's locks | Data API PUT/PATCH/DELETE, Policy API GET/LIST/PUT/DELETE, reload of the rego directory, partial evaluation | every request is a goroutine; the compiler is a cache of the stored policies; error paths must end transactions; a handler checks its own change only |
| Decision pipeline | `internal/pkg/opa/default-compiler.go`, `rest-handler.go` 58-113, 701-832 | none of its own; two evaluations per decision | `Execute`, `evalFunction`, status mapping | authentication and authorization are two store transactions; errors of several kinds become statuses |
| Path mapper, URL processor | `internal/pkg/request` | compiled mappings | `Map`, `Process` | overlapping mappings, importance, method classes |
| AST preprocessing, processing, translation | `internal/pkg/translate` | stacks, per call | `Process` | datastores are asked in map order; the first answer or error wins |
| Datastores | `internal/pkg/data` | connection, `configured` | `Configure` (ping, retry), `Execute` | retries at start-up, swallowed errors |
| Query translation | `sql-datastore-translator.go`, `mongo-datastore-translator.go` | operand and relation stacks | `Translate` | placeholders and values must correspond, precedence |
| Configuration watcher | `internal/pkg/watcher/file.go` | watched directories, observers | `Watch`, `watchRoutine`, `watchForChanges` | events during start-up, deletions, observers added without a lock |
| Core and lifecycle | `internal/pkg/core`, `cmd/kelon` | configured proxies and telemetry | `Start`, `onConfigLoaded`, `stopOnSIGTERM` | configuration changes end the process or are ignored; two signal handlers |
| REST proxy, middleware | `rest-proxy.go`, `rest-middleware.go` | server, router; the input of a request | `Configure`, `Start`, `Stop`, header mapping | shutdown against running requests; the input comes from several places in turn |
| Envoy proxy | `internal/pkg/api/envoy/envoy-proxy.go` | gRPC server | `Check`, `Start`, `Stop` | second front end, its own input format |
| Telemetry | `pkg/telemetry` | instruments, exporters | `Configure`, `Update...`, `Shutdown` | shut down while requests are served |
| Configuration, operand files | `configs`, `internal/pkg/data/operands.go` | none; call operands by type, arities of built-ins | `Load`, `Validate`, `LoadAllCallOperands` | schemas and datastores come in the random order of maps; files share the built-ins they register |
| Command line, logging, built-ins, examples | `cmd/kelon`, `pkg/constants/logging`, `internal/pkg/builtins` | none | | |

How they interact: the REST and Envoy proxies call the policy compiler (`Execute`) on the request's
goroutine; the compiler calls the path processor, OPA (`PartialEvaluate`, one read transaction) and the
AST translator, which calls the datastores. The watcher calls its observers (core and the policy
compiler) one after the other on its own goroutine; the compiler's observer reloads the rego directory
in a write transaction. The Policy and Data APIs open their own transactions. All of this meets in
OPA's store.

What makes each component correct:

* store: requests behave as if executed one at a time; what is stored always compiles; the compiler in
  service belongs to the stored policies; bundle-owned content changes only by a reload, but for an owned
  policy that is replaced under its own id (§5); no path leaks a lock; every request ends.
* decision pipeline: allow only if every required evaluation allows; every failure is an error or a
  deny; both evaluations use the same policies.
* watcher and lifecycle: after the last change the loaded policies are those of the directory; shutdown
  lets requests finish and flushes telemetry.
* translation: the query means what the AST means; arguments follow their placeholders; no expression
  is dropped.

## 2. Modules

| module | what it is |
|---|---|
| `PolicyData` | what the store holds, what requests carry, and which contents compile; no state |
| `PolicyStore` | OPA's in-memory store with its two locks, transactions, and the compiler derived from it (external, modelled from its use) |
| `PolicyApi` | the handlers that use the store, one step per place where another goroutine may come in between |
| `AtomicPolicyApi` | what they promise together: every request is one indivisible step |
| `PolicyApiProofs` | theorems about `PolicyApi` |
| `ConfigWatcher`, `ConfigWatcherProofs` | start-up, file events, reloads, edits and signals |
| `Lifecycle`, `LifecycleProofs` | start and stop of the two servers against their requests |
| `Decision`, `DecisionProofs` | one access decision, while policies and rows change |
| `DatastoreStartup` | how main waits for databases: pings, retries, the limit |
| `Startup`, `StartupProofs` | from `kelon.yml` and the operand files to a process that serves; composes `DatastoreStartup` |
| `PathMapper`, `PathMapperProofs` | compilation of API mappings and the choice among them |
| `RequestInput`, `RequestInputProofs` | from an HTTP request to the input that policies are asked about; extends `PathMapper` |
| `Translation`, `TranslationProofs` | a residual query from its preprocessing to the execution of its SQL statement or MongoDB filters |
| `MC...` | instances of these for TLC |

An operator named `Action_Something` under the comment "Mutant" is no part of a specification: it is a
plausible bug in the action it is named after, with which a property of the module fails. `PROJECT.json`
pairs them, and maps each definition to the lines it translates.

### 2.1 The policy store (`PolicyData`, `PolicyStore`, `PolicyApi`)

State: `policies`, `data` and `compiler` are what is committed, `edits` the writes of each open
transaction, `wmu` the store's writer mutex, `rmu` and `readers` its reader/writer lock. `pc`, `req`,
`todo`, `seen` and `answer` are the local state of the handlers.

| action | code |
|---|---|
| `Call`, `Refuse` | a request arrives; parsing before any transaction, `rest-handler.go` |
| `OpenWrite`, `OpenRead` | `NewTransaction`, with and without `storage.WriteParams` |
| `DataPut`, `DataDelete` | `handleV1DataPut`, `handleV1DataDelete` |
| `PatchWrite`, `PatchDone` | the loop of `handleV1DataPatch`, and the check after it |
| `PolicyPut`, `PolicyDelete` | `handleV1PolicyPut`, `handleV1PolicyDelete` |
| `Reload` | `LoadRegosFromPath`: `bundle.Activate` |
| `Announce`, `Apply`, `Trigger`, `Release` | `Store.Commit`: lock, write, recompile, unlock |
| `ReadStore`, `ReadCompiler`, `SendPolicies`, `CloseRead` | `handleV1PolicyGet`, `handleV1PolicyList` |
| `FinishEvaluation` | the end of `PartialEvaluate` |
| `GetUnknown`, `Panic` | an unknown id: the second `Abort` panics and `net/http` drops the connection |
| `Reply`, `FatalReply` | the response; `writeJSON` ends the process if it cannot write one |

A module is what the compiler sees of it: the path of its rules and the functions it calls. Paths are separate from
each other; that a document lies above or below another one is left to the `under` set of a patch. Paths are those of
the store: the handlers take them from the URL's whole path, with the `v1/data` it begins with (`rest-handler.go:128`,
165, 215), so that a document put to `/v1/data/x` lies at `v1/data/x`. The rule that `PolicyPut` checks the scope of
the new package only is kept: a client may put a policy of a package that nobody owns under the id of one that a
bundle owns, and the owned rules are gone until the next reload. `OwnedOnlyReloadedOrReplaced` says that nothing else
touches what is owned, and names this case; the `data` run reaches it. `checkPathScope` compares prefixes of strings,
so that a root `a` also covers `ab`; that is not modelled.

`ImplementsAtomicApi` maps `PolicyApi` to `AtomicPolicyApi`: a write takes effect at `Apply`, a refusal
when the handler gives up its transaction, a read when it has seen both the store and the compiler. `MCPolicyApi`
gives the instances; without a manifest (`BundleRoots = {}`) the root is `""`, which owns everything and
protects nothing.

### 2.2 Configuration watching (`ConfigWatcher`)

`disk`, `conf`, `queue` and `watching` are the directory, `kelon.yml`, the kernel's events and the open
watcher. The main goroutine (`main`) starts the watcher, appends core's observer, loads the configuration,
loads the rego directory and appends the compiler's observer. `watchRoutine` (`routine`, `event`,
`confError`) takes an event, loads the configuration and calls the observers it sees. A load reads one
file at a time (`load`), while files are edited, also half (`Torn`). `last` remembers the last edit if the
compiler's observer should hear of it. `Exit` is the end of the process, after which `StartWatcher` starts it
again, as `docker-compose.yml:5` (`restart: always`) has it. The slice of observers is appended and read
without synchronisation; `BeginAppend` and `EndAppend` bracket the race, in which the routine sees the old or
the new length or crashes (`TornSlice`).

Left out: errors of the file watcher (`file.go:65`), such as an overflow of the kernel's queue, by which events are lost
and which is only logged; the list of a directory is read at once; policies put over the API (they are in `PolicyApi`);
the simple watcher without a rego directory, which never calls an observer again.

### 2.3 Start and stop (`Lifecycle`)

`main` goes through `Start` and `stopOnSIGTERM`, `rest` and `envoy` are the servers, `closer` is
`closeWatcherOnSIGTERM`, `handler` what became of each client's request, `gauge` the instrument
`http.server.active_requests`. `lost` collects requests that end after metrics are shut down, `expired` says that
draining ran into the deadline.

### 2.4 A decision (`Decision`)

`Receive` and `Check` are the two front ends, `EvalFunction` and `Skip` the rules `verify` and `allow` in
`policyCompiler.Execute`, `Ask`, `Find`, `Decide` and `NothingLeft` the loop over datastores in the AST translator
with MongoDB's concurrent collections, `Answer` the mapping to statuses. `Finds` are the ends a query may have: rows,
nothing, a failure, and of SQL's rows, which are fetched after the query was accepted, `cut` (fetching fails, and as
nobody asks `rows.Err()` the answer is that there are none, `Read`) and `unclosed` (a row was found and the result
cannot be closed: a panic). A MongoDB filter that is no JSON (`Invalid`; `Translation` says how it comes about) ends
the process. Decisions write nothing that another one reads, so one at a time, repeated without end, is as many as
need be. What partial evaluation leaves of a rule is the constant `Residue`; `policies`, `yes`, `no` and `steady`
record what was the case while the request lasted. `Reload` and `Change` may come between any two steps.

### 2.5 Start-up (`Startup`, `DatastoreStartup`)

`main` goes through `Kelon.Start` and `onConfigLoaded`, or `StartValidate`, phase by phase; every error is `fatal`.
A configuration (`conf`) is chosen at the start and holds what the code's decisions depend on: the datastores of each
mapping, the schemas, the operand files, Envoy's port, validate mode. What may fail for other reasons (a file that cannot
be parsed, a telemetry provider, policies that do not load) fails or not.

| action | code |
|---|---|
| `Load`, `Valid` | `configs.FileConfigLoader.Load`, `DatastoreAPIMapping.Validate`, `findEntityAmbiguity` |
| `MakeProviders` | telemetry providers, `MakeDatastores` |
| `LoadCallOperands` | one datastore in the loop of `LoadAllCallOperands`, in any order; `Conflicts` and `Registered` are the loop of `loadDatastoreCallOpsBytes`, which returns at the first conflict and leaves what it registered |
| `GenerateMappings` | `pathMapper.Configure` (its compilation is in `PathMapper`) |
| `ConfigureDatastore` | one datastore in the loop of `astTranslator.Configure`, in any order: translator (`Configurable`), then executor |
| `Configure`, `PingAnswered`, `SqlPingFails`, `AfterPause`, `MongoPingFails` | the executors' `Configure` with `pingUntilReachable`, up to `MaxPings` times |
| `StartOPA`, `StartNewRestProxy`, `StartNewEnvoyProxy` | the rest of `policyCompiler.Configure`, and the proxies |
| `Toggle` | a database starts or stops answering |

Operand files are entries with a number of arguments and `register-builtin` (`builtin`). Only entries that register are
compared (`operands.go:168`): `AritiesAgree` is about those, and a mapping of a registered built-in without
`register-builtin` is served whatever it takes (`AbsPlain` in the instance; see §5). Left out is an error of a handler's
`Init` (`operands.go:177`), a malformed mapping, which refuses its file after registering the function.

`MongoPingFails` and `Configured(d, "noPool")` are two errors the code loses. `mongo.Connect` does not wait for the server;
it is external. Trees of entities are given by the paths of their entities, in the order of the file; `Meanings` is what
the translators would take a name for. REST requests are served from the phase `envoy` on, before Envoy's port is
looked at. A signal during start-up is not modelled (see hazards): the file watcher's goroutine takes it, and start-up
goes on.

### 2.6 Path mapping (`PathMapper`)

`Generate` compiles a mapping, `HandleInput` sorts those found and compares the first two. In what paths an expression
is found is the constant `Finds`, as regular expressions are a library; the brackets around the methods are kept
(`Class`), as is the search for queries in the path (`Names`). The expression has no anchors: it may find a letter of
the class and a `-` within a path, whatever the method, a `|` in a mapping's path detaches the class, and `(`, `)` and
`|` belong to the class. Paths and mappings with such characters are left out, so that `Matches` has no more matches
than the code. Several queries of one mapping would have to come in the expression's order; that is abstracted.

`RequestInput` puts the path mapper into the request it is called for. `ExtractInput` and `ApplyHeaderMappings` are the
middleware on `/data`, with what is written back to the query or the body; `Execute` is the beginning of
`policyCompiler.Execute`, whose authentication and authorization are in `Decision`; `Map` is the path mapper's answer with
`extractOpaInput`. A request (`http`) says what stands where an input is expected (`kind`); `handler` is the stage or how
it ended: `dropped` is a panic. JSON values are abstract: `UrlOf` and `MethodOf` are what one is as a URL or a method,
`Segments` and `Parameters` the parts of a path and of a query as values. A header that is there and empty counts as absent
(`rest-middleware.go:189`), which is the text `None`. Methods are compared up to upper case: the code maps the
upper-case method (`default-compiler.go:227`) and hands policies the text as it came (277), so that `PoliciesSeeMapped` says of a
method that both mean the same, not that they are the same text. GET is turned into POST by
`handleV1DataGet`, and the body is parsed once more: neither changes what the middleware wrote.

### 2.7 From a residual query to its answer (`Translation`)

`TransformRef` rewrites one reference (`transformRefs`), `SubstituteVars` ends an expression (`substituteVars`, and
the loop of `transformQuery` in `Advance`), `Process` finds the table to select from and the linked ones
(`astProcessor`), `Translate` is `sqlTranslator.Translate`, `Execute` runs the statement on some contents of
the tables. `tableNames`, `tableVars`, `localVars` and `expected` are the preprocessor's fields of the same
names. A statement is not written character by character: `Rearranged` is the order in which an operator's text
has its operands, `Parameter` and `Placeholder` number the constants as they are collected and as they stand in
the text, `Bound` is the value the database gets for one. `Holds` is what the query means, by itself.

One query at a time: queries of one datastore become a `UNION`, each with its own state, and the numbering of
parameters continues, so that the constants of each are side by side in the list as in the text. `--ast-skip-unknown`
is on or off: a variable left over is skipped or an error, and skipping it leaves an operator with too few operands.
Terms that are neither constants, references, variables nor calls (null, arrays) are left out. An operand of an
operand is no call. The texts of arithmetic lack parentheses (`call-operands/postgres.yml:6`), so that `(a - b) * c`
is sent as `c * a - b`: a text is the sequence of its products (`Composed`), and `Plain` asks for arithmetic that is
read as it was meant.

MongoDB has no joins: `Elements` are the elements of a document at an entity's path (`GenerateEntityPaths`), `Field`
and `Compared` what `walkCall` makes of two operands, one of which must be an attribute: the operands change sides
when the first is none, whatever the operator. `Kept` are the conditions that survive as keys of one JSON object,
where of two on one field the last is kept; `CountDocuments` says whether a collection has a document that they select
(`Selects`). Two conversions on the way are no identities. An entity with an alias is called by it in policies, and
the filter goes to a collection with the alias for a name (`mongo-datastore-translator.go:237`): `Name` is what a
collection is called in the database, and the one asked has the entity's name (`Unaliased` is when that is the same).
No collection has a name that is another one's alias. And a text is written between quotes as it is (line 341):
`Quoted` is what JSON reads of it, another text if there is a backslash, and `None` if it ends the quotes or contains
`{{`, which the translator takes for an entity (line 187). What then becomes of the filter is open (`Garbled`): no
JSON ends the process, and otherwise it may be refused or be another filter. `DocumentsAnswered` and
`DocumentsNotMissed` are about queries that keep clear of these and of the divergences below; TLC refutes them beyond.

`AnswersQuery` holds for queries that are `Plain` and `Simple`, and TLC refutes it without either: a negation is lost, a
constant of digits is rewritten, an iterator shared by two tables no longer joins them, and a second
declaration of a variable replaces the first. `NothingMissed` needs
`Plain` only: in the last two cases the statement asks for less than the query does.

## 3. Runs

| run | checks | instance and why it is enough |
|---|---|---|
| `policies` | `TypeOK`, `LocksMatchHandlers`, `StoredPoliciesCompile`, `CompilerIsCurrent`, `ReadersSeeOneVersion`, `ImplementsAtomicApi` | two clients and the watcher: a writer waiting behind a writer, a reader between them. Two modules, one calling the other, and a document in the way of a rule: every compile error there is. |
| `data` | `OwnedOnlyReloadedOrReplaced`, `ImplementsAtomicApi` | a bundle with a root, one of whose policies is replaced under its id by one of another package; patches of none, one and two operations that fail at the first, at the second and at the final check; a directory that does not load. |
| `live` | `EveryCallEnds` | the same threads with one request of each kind of path through a handler. |
| `watch` | `TypeOK`, `NoEditMissed`, `ServesLoadable`, `OnlyConfigStops`, `EditsReachEngine` | two policy files of two contents, one needing the other, and `kelon.yml`; two waiting events, so that one is queued behind another. |
| `stop` | `TypeOK`, `GaugeNeverLow`, `RestRequestsFinish`, `SignalEndsProcess` | two REST clients and one Envoy client; the gauge goes up to `MaxGauge` = 3, one more than clients, for a handler that panicked. |
| `decide` | `TypeOK`, `AllowsJustified`, `DenialsJustified`, `SteadyAnswers` | four policies with every kind of outcome, a datastore with one query, one with three collections of which one is asked with an invalid filter, one without a pool; all mappings; every end a query may have, results that are cut off or cannot be closed among them. |
| `datastores` | `TypeOK`, `SqlAnswered`, `NamesHaveOneMeaning`, `AritiesAgree`, `AgreeingFilesServed`, `StartupEnds` | three SQL databases of two types, so that two share operand files, one of them with wrong metadata, and MongoDB; configurations that differ from a usual one in one respect: every way for schemas to be ambiguous within a schema, across schemas and across datastores, and pairs of operand files that agree, contradict each other, contradict themselves before or after another entry, or map a built-in that another one registers without registering it. `MaxPings` = 20 is the code's limit. |
| `mapper` | `InputTypeOK`, `OneMostImportant`, `DescribedIsFound`, `HeadersWin`, `PoliciesSeeMapped`, `NamedIsMapped` | every subset of six mappings, with a tie and one that does not compile; both verbs with everything that may stand for an input; inputs with a path that is text or a list, a method, neither, or something else in their place; two headers, each absent or one of three texts, and header mappings that rename, keep, chain and collide, one of them invalid. |
| `translate` | `TypeOK`, `AnswersQuery`, `NothingMissed`, `DocumentsAnswered`, `DocumentsNotMissed`, `MixturesRefused` | queries of one to three expressions from a set with every kind of operand, arithmetic within arithmetic that needs parentheses and that needs none, two joined tables of up to two rows, a third table without a schema, three datastores of which two are mapped, all three platforms; the operators are one of each kind of text; a MongoDB collection with a nested entity, of up to two documents with up to two elements, and one with an alias; a constant that JSON reads as another one and one that ends its quotes. |
| `removals`, `dryrun`, `mapper_methods` | one statement each | see Findings |

Deadlock is checked except where the system really stops: `stop` ends with the process, in `mapper` a
mapping that does not compile ends it and one request is followed to its end, and in `translate` a query has one answer.

Bounds, all of them: `MaxQueue` (an edit waits while the queue is full), `MaxGauge` (no request begins
while the gauge shows so much) and `MaxPings` (the code's own). Everything else is finite by its constants.

Fairness:

* `PolicyApi`: every handler proceeds, `WF(Handler(t))`, as goroutines are scheduled and a response is
  taken or runs into the write timeout. `SF` of opening a transaction: Go's mutexes hand over in turn to who
  has waited for long. No client has to call.
* `ConfigWatcher`: `WF(Main)` and `WF(Routine)`, two goroutines that nothing blocks for good. Nobody has
  to edit a file; `EditsReachEngine` assumes that edits end.
* `Lifecycle`: `WF` of main and of the goroutines that bind ports and listen. None for handlers, as no
  query has a timeout: `SignalEndsProcess` rests on the deadline.
* `Startup`: `WF(Main)`, one goroutine that nothing blocks for good; databases may do what they like.

## 4. Proofs

TLAPS checks these for every value of the constants that satisfies the assumptions named in the modules
(`DataAssumption`, `StoreAssumption`, `UnreadAssumption`, `FilesAssumption`, `ContentAssumption`, `ClientAssumption`,
`MappingAssumption`, `QueryAssumption`, `ResidueAssumption`, `DatastoreAssumption`, `MapperAssumption`,
`InputAssumption`, `QueriesAssumption`, `ConfigAssumption`), which TLC evaluates in the runs. They say what kind each
constant is of, that special values differ from others, and what the libraries guarantee: a bundle's contents lie
under its roots, a patched path below that of its request.

* `PolicyApi`: `TypeCorrect`, `NoTransactionLeaks`, `StoreCompiles`, `CompilerCurrent`, `SnapshotReads` by
  `IInv`. That the store compiles after a commit rests on the handler's check under the writer mutex
  (`CheckedWrites`), which sees the transaction as it was opened (`UntouchedViews`), and for documents on a
  compiler that is current at the time (`TriggerOwed`); readers see one version because no commit applies
  among them (`NoReaderInCommit`, `ReadersCurrent`). `OwnedReloadedOrReplaced` extends this to `ScopeInv`, for
  what a patch has written so far (`PatchesUnderRequest`, `ScopedWrites`); only the put of a policy writes under the
  id of an owned one (`WritesUnowned`).
  `ImplementsAtomic` is the refinement: each step of a handler is one of `AtomicPolicyApi` or changes nothing there
  (`StepRefines`). It rests on `RefInv`: where a handler stands tells whether it has read and answered (`Stages`),
  the patches written are the first of its request (`PatchesInOrder`), and from its decision to its commit the
  atomic write would still leave what the transaction leaves, as nobody else commits (`Decided`).
* `ConfigWatcher`: `EditsNotMissed`, `LoadableServed`, `OnlyConfigEnds`. `Outstanding` is the heart: an
  announced edit waits in the queue, is being handled, is being read by a reload that has read nothing older, or
  is in the store.
* `Lifecycle`: `GaugeNotLow`, `RestFinishes`; `Draining` says that nothing is being served once main sleeps,
  unless the deadline expired.
* `Decision`: `AllowsAreJustified`, `DenialsAreJustified`. `Lived`, `Verified`, `Asking` and `Found` connect
  each rule and query to a moment of the request. `SteadyAnswered` rests on `Standing`: while nothing changes a rule that
  held still holds, and what the queries of the one datastore being asked have found is there (`Pursuing`).
* `Startup`: `SqlHasAnswered` by `IInv`, which adds what each phase has checked (`Phases`) and which databases have
  answered. `AritiesAgreed` and `AgreeingServed` by `OInv`: arities are traced to the files they come from (`FromFiles`),
  a registered one is never changed (`RegisteredKeeps`), and after a file without conflicts its own entries have it
  (`RegisteredAgrees`). `OneMeaning` follows from validation alone (`ValidMeansOne`), for any schemas.
* `PathMapper`: `MostImportantGiven`, `DescribedNotLost`.
* `RequestInput`: `ImplementsPathMapper`, by which what is proved of `PathMapper` holds in the pipeline
  (`MostImportantAsked`, `DescribedIsAsked`). `MappedIsSeen`, `HeadersAlwaysWin`, `NamedAlwaysMapped` by `InputInv`: from the
  headers on the input has for each key something the request says of it, and a header's value if there is one
  (`Carries`); from the path mapper on, the request being mapped is the one it names (`Mapped`).
* `Translation`: `MixturesAlwaysRefused`. A reference to a row, once rewritten, is `Settled`: the datastore and the
  iterator of its table are as it has them, and no later reference unsettles it (`StaysSettled`). What is
  left of the current expression is as it was (`Current`, by `OneTermRewritten`). `TranslationTypes`: without
  references an expression consists of constants, attributes and variables (`LeafCall`), and Process finds a table
  (`FirstTable`). `DocumentsNeverMissed` rests on `Meant`: a rewritten term stands for what it was written from
  (`CallMeans`), as a table keeps its iterator (`IteratorsKept`, `Names`, `Sources`); a substituted variable has the value of
  its attribute whenever the whole query is true (`LocalsMean`), and so every expression of the body is true
  then (`BodyMeans`). A document with such rows is of the collection (`OfCollection`) and meets each condition
  (`ConditionMet`), as what can be stated is read as it was sent (`StatedAsSent`); by its own name no other
  collection is asked (`OwnName`). `DocumentsAlwaysAnswered` needs the way back as well: each expression of a simple
  query has declared a
  variable or is in the body, of terms that have become of its own (`Comes`). A selected document has in each table that the
  query refers to a row that meets all the filter asks about it (`AskedAbout`, `RowMeets`); given to the table's iterator
  and, by what they stand for, to the variables (`IteratorRows`, `TermValues`), these rows make each expression true
  (`ExpressionTrue`).
  `StatementsMissNothing` and `StatementsAlwaysAnswer` are the same two directions for SQL. They need besides what a
  statement is made of (`Ready`): operators with a mapping, tables with an iterator, no arithmetic that needs
  parentheses. The body is then what the statement's relations say (`RelationIs`), and what remains is to
  compare the two. PostgreSQL's placeholders are numbers: no two constants have the same (`ParametersDiffer`), so each is bound to
  itself (`BoundIs`). MySQL's are bound by position, and only `mul` writes its operands in reverse: outside of it both orders
  have as many constants in front (`OutsideMul`). Inside, the constants of up to four terms are bound to each other in
  reverse (`InReverse`), also when columns stand between them, which exchanges factors of one product and no more
  (`SlotsReversed`, `OperandProduct`, `RelationProduct`): the answer does not change, though the constants do.

Only model-checked are the liveness properties (`EveryCallEnds`, `EditsReachEngine`, `SignalEndsProcess`,
`StartupEnds`), which are out of the prover's reach. Every other property of a passing run is stated by a theorem.

## 5. Findings

Three statements of the repository that the code does not keep have a run that shows it:

* `removals`: removed policy files stay in service (`internal/pkg/watcher/file.go:91`; line 74 says
  "isRelevantEvent returns true if a file was created, modified or deleted").
* `dryrun`: Envoy checks fail before the dry-run override, as the input lacks the object `input`
  (`internal/pkg/api/envoy/envoy-proxy.go:184`; line 230 says "unconditionally allow the request").
* `mapper_methods`: a mapping for GET takes POST as well (`internal/pkg/request/url-mapper.go:152`;
  `examples/local/config/kelon.yml:11` says "Only matches GET").

Further divergences were met while modelling. The modules behave as the code does; no run is kept for them:

| code | what it does | what is said |
|---|---|---|
| `internal/pkg/api/envoy/envoy-proxy.go:138` | `Stop` cuts checks being served; the deadline is unused (`StopEnvoy`) | `pkg/api/client-proxy.go:45`: "Stop() will make the ClientProxy to shutdown gracefully." |
| `cmd/kelon/kelon.go:282` | metrics are shut down before the servers, and requests that end later are not measured (`lost`) | line 281: "This is done blocking to ensure all metrics are sent!" |
| `pkg/telemetry/metrics.go:305` | the decrement is not deferred: the gauge stays one too high after a handler panics (`Panic`) | line 208: "A gauge of requests currently being served" |
| `internal/pkg/api/rest-proxy.go:119` | a port that cannot be bound is only logged (`BindRest`) | `pkg/api/client-proxy.go:42`: "If [...] any error occurred during startup, an error will be returned" |
| `internal/pkg/data/mongo-datastore-executor.go:59` | a failed ping reports the error of the new connection: none (`MongoPingFails`) | `pkg/data/datastore.go:53`: "Configure waits for the attached databases to be reachable" |
| `internal/pkg/data/sql-datastore-executor.go:51` | a metadata error is lost, as `errors.Wrap` of nil is nil; `Execute` panics without a pool (`Configured`, `Ask`) | `pkg/data/datastore.go:56`: "the encountered error will be returned" |
| `internal/pkg/translate/default-preprocessor.go:76` | new expressions are made of the terms alone: a negated one loses its negation, and `not x = 1` allows what `x = 1` does (`SubstituteVars`) | line 60: "Only transform operands" |
| `internal/pkg/translate/default-preprocessor.go:150` | a second declaration of a local variable replaces the first, and the equality is lost (`SubstituteVars`) | line 147: "local variable declaration -> store and return" |
| `internal/pkg/data/operands.go:111` | texts of arithmetic are put together without parentheses: `a - (b - c)` is asked as `a - b - c`, `(a - b) * c` as `c * a - b` (`Composed`) | `pkg/data/datastore.go:37`: "translating the Query-AST into the datastore's native query language" |
| `internal/pkg/data/mongo-datastore-translator.go:237` | the collection asked has the entity's alias for a name, not its own: of an entity with an alias no document is found (`Name`) | `configs/datastore.go:31`: "The entity is searched by its alias which is either its name, or a specified alias!" |
| `internal/pkg/data/mongo-datastore-translator.go:341` | a text is written between quotes without escaping: with a backslash it is another text, with a quote the filter is another one or no JSON (`Quoted`, `Garbled`) | `pkg/data/datastore.go:37`: "translating the Query-AST into the datastore's native query language" |
| `internal/pkg/data/mongo-datastore-executor.go:101` | a filter that is no JSON ends the process, with all other requests, instead of failing the query (`Find`, `CountDocuments`) | `pkg/data/datastore.go:59`: "returns true if the query is not empty and false otherwise" |
| `internal/pkg/data/sql-datastore-executor.go:117` | `rows.Err()` is never asked: when fetching the result fails, nothing was found, and the request is denied with 403 instead of 500 (`Read`) | `pkg/data/datastore.go:48`: "If the query returns any result, the executor returns true, otherwise false." |
| `internal/pkg/data/sql-datastore-executor.go:111` | a result that cannot be closed panics, although a row was found or an error is being returned (`unclosed`) | `pkg/data/datastore.go:48`, as above |
| `internal/pkg/api/rest-handler.go:364` | the scope of the new package alone is checked: a policy that a bundle owns is replaced under its id by one of another package, and its rules are gone until the next reload (`PolicyPut`) | line 689: "path %v is owned by bundle %q" |
| `internal/pkg/data/operands.go:168` | only mappings with `register-builtin` are compared: one without it may take another number of arguments than policies are compiled for, and fails when it is used (`Conflicts`) | line 169: "Check function to be registered expects same args count as already registered function" |
| `internal/pkg/data/mongo-datastore-translator.go:289` | operands change sides for every operator: `5 < age` becomes `age < 5` (`Compared`) | line 287: "Sort call operands in case of eq operation" |
| `internal/pkg/data/mongo-datastore-translator.go:261` | conditions are keys of one object: of two on one field the last is kept; conditions on a nested entity may be met by different elements (`Kept`, `Selects`) | `pkg/data/datastore.go:37`: "translating the Query-AST into the datastore's native query language" |
| `internal/pkg/data/logging-datastore-executor.go:62` | every query is answered with true, so that in validate mode the first datastore with a query is the only one to print any | `cmd/kelon/kelon.go:21`: "validate policies by printing resulting datastore queries" |
| `configs/api.go:46` | the message appears when schemas are missing, and not when a mapping names no datastore (`Valid`) | "datastore with name [%s] not found in datastore config" |
| `configs/global.go:42` | header aliases are entered in the cache by alias and looked up by name: one alias for two headers passes | line 43: "Duplicate header alias" |
| `internal/pkg/api/rest-middleware.go:192` | an input `null` in the query panics at the first mapped header, and a body `null` always does, at line 195 (`ApplyHeaderMappings`) | line 181: "No input provided, create empty input" |
| `internal/pkg/api/rest-handler.go:69` | is never reached: the middleware has put an empty input in place of none, and of several (`ExtractInput`) | "Received GET request without input" |
| `internal/pkg/request/url-mapper.go:157` | queries are looked for in the path, and are never found (`Matches`) | `configs/testdata/valid.yml:23`: "Get articles by author" |

## 6. Not modelled, and the plan

Done: the policy store with its atomic specification, the configuration watcher, the lifecycle, decisions, start-up
with the validation of schemas and operand files, the way from a request to the input of policies with path mapping,
the translation to SQL and MongoDB, and the proofs above.

Next: terms that are neither constants, references, variables nor calls, which `--ast-skip-unknown` may skip as well.

Out of scope: OPA itself (compiler, partial evaluation, bundles), the regexp library, database drivers,
OpenTelemetry's instruments and exporters, the command line, logging, built-in functions and the examples.
They appear as constants or as external definitions where kelon's behaviour depends on them.
