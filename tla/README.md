# A verification of the logos node

TLA+ models of `acl-logos-server`, a blockchain node in C++ that serves two gRPC
services over one SQL connection. TLC checks small instances of every model;
TLAPS proves the most important results for every instance. Paths below are
relative to `src/code/service/` unless they start with `src/`.

## The system

| component | state it keeps | operations | how it interacts |
|---|---|---|---|
| node process (`src/main.cpp`, `core/node.*`) | the global `blockchainNode`; its loggers, SQL session, services, `_serverInstance`, the server thread | `Initialize`, `Run`, `Shutdown`, `sig_handler` | starts the server thread and joins it; `sig_handler` stops the server from whatever thread SIGINT interrupts; the destructor calls `Shutdown` |
| identity service (`rpc/services/identity_service.*`) | none of its own | `RegisterIdentity`, `ListIdentities` | runs on the handler threads of the gRPC server; calls the identity `EntityManager` |
| status service (`rpc/services/status_service.*`) | none | `Up` | reads the public key file, the clocks and the host name |
| database manager and entity managers (`db/*.h`) | one `soci::session`, shared by reference | `CreateTable`, `Insert`, `Update`, `Delete`, bulk forms, `Retrieve`, `RetrieveAll` | no lock: every handler thread uses the same session |
| table traits (`db/models/*.h`) | four tables, and one that is never created | the SQL statements | executed by the entity managers |
| settings (`config/*`) | the parsed `LogosSvcSettings` | `parse`, `convert`, `validate` | decide whether the node starts; validation also creates the key files |
| identity key files (`config/cmd_arg_validator.cpp`) | two PEM files | load, generate, export | written during validation, read by `Up` |
| stubs | - | Kafka callback, data storage, messaging, wallet and chain service | nothing calls them |

What makes it hard, and what correctness means for each part:

* **Identity service over a shared session.** Handler threads interleave BEGIN,
  INSERT, COMMIT and ROLLBACK on one connection, so the end of one handler's
  transaction is the end of another's. Any statement may fail, the connection may
  drop (nothing reconnects), the process may die. Correct: what a client is told
  about an identity is what the database holds, now and after failures.
* **Entity managers.** A transfer is several rows of two tables; the single forms
  run in a transaction, the bulk forms do not, and errors are logged and swallowed.
  Correct: whole entities only; what has returned has taken effect.
* **Process life.** Four kinds of threads and an asynchronous signal. `Shutdown`
  clears the services before it stops the server that runs them. Correct: no call
  runs on a node that is being taken down; SIGINT ends the process.
* **Key files.** Two files are written one after the other during start-up, and
  loaded without being compared. Correct: one pair, one identity.
* **Settings.** Defaults, required fields and what the accepted settings guarantee
  to `Initialize`. Correct: what validation accepts can be initialised, and where it
  cannot it is for a reason validation does not look at; a setting that is left out has
  its default.

`PROJECT.json` lists the hazards one by one, each at its line.

## The modules

| module | role |
|---|---|
| `SociSession` | the SQL connection and the three engines, as the code uses them (external) |
| `IdentityRegistry` | what the identity service promises a client |
| `IdentityService` | the service and `EntityManager::Insert`, one SOCI call per action; refines `IdentityRegistry` |
| `MCIdentityService` | instances of it |
| `IdentityServiceProofs` | theorems about it |
| `EntityStore` | what the single-entity operations promise |
| `EntityTables` | entity managers and table traits, one statement per action; refines `EntityStore` |
| `MCEntityTables` | instances of it |
| `EntityTablesProofs`, `EntityRowsProofs` | theorems about the tables of a start, and about the rows in them |
| `GracefulService` | what the node promises about its life |
| `NodeLifecycle` | threads, signals, start and stop; refines `GracefulService` |
| `NodeLifecycleProofs` | theorems about it |
| `LogosNode` | `NodeLifecycle` and `IdentityService` together: registrations on the handler threads of a node that SIGINT stops; refines both, and `GracefulService` |
| `MCLogosNode`, `LogosNodeProofs` | an instance of it, and theorems about it |
| `KeyStore`, `KeyStoreProofs` | the two key files and their theorems |
| `StatusService`, `StatusServiceProofs` | `Up` on top of `KeyStore`: its key and its time stamps, and a theorem about these |
| `Settings`, `MCSettings`, `SettingsProofs` | from the command line to an initialised node, instances and theorems |

### SociSession

`link`, `txn`, `committed` and `current` are the connection, its transaction, the
durable contents and the contents seen over the connection. The engines differ
where it matters to a shared session: BEGIN inside a transaction commits it
(mysql), is ignored with a warning (postgresql) or fails (sqlite3); COMMIT and
ROLLBACK outside one fail in sqlite3 only; a failed statement aborts the whole
transaction in postgresql, and may roll it back in the others (deadlock victim,
full disk). The connection may drop before a statement or between a COMMIT and its
answer; the server then rolls back what was open. `node.cpp:221-249` is the only
place that connects, so only a restart brings it back.

### IdentityService

One record per handler thread: `pc` is the line it is at, `item` its `db::Identity`.
`Receive` is the validation and the construction of the identity, `OpenTransaction`,
`InsertRow`, `CommitTransaction` and `RollbackTransaction` are the lines of
`EntityManager::Insert`, `Unwind` is the second ROLLBACK that the destructor of
`soci::transaction` sends when the first one threw, `Respond` the answer. `outcome`
remembers what the client of each id was told: "created", "failed" (the definite error),
"exception" (which promises nothing) or "lost" (the process died first). A request that
fails validation changes nothing and is a stuttering step. The uninitialised `idType` of
`prepare_identity_register_response` is a free choice of the known types (garbage outside
the enumeration leaves the default of the field, PERSON). The type of a request is an open
protobuf enumeration that is cast (`identity_service.cpp:115`), so `Types` are what a
request may carry and `KnownTypes` the values of `IdentityType` among them. A type outside
is stored like any other; `type_converter` then leaves the type of the listed identity
unassigned, and `List` lists it with any type (`Known`). `IdentityRegistry` promises the
id and key of every listed identity, and its type if it is known. `soci::session` is not
thread-safe; two handlers inside it at once may make a statement fail (fault "race"),
which is the mildest of the outcomes of that data race. The results below that assume no
failing statement therefore also assume that SOCI survives the sharing.

### EntityTables

One caller at a time (the sharing is `IdentityService`'s subject). The database maps
each table that exists to its rows. A start of the process runs `CreateTable` for the
four tables of `initializeDatabase`, each in a transaction of its own whose result is
ignored (`creating` are the tables to come, `failed` those for which false was
returned), and only then the caller's operations begin. `Provided` are tables that
exist before the first start: nothing in the code creates `transfer_signatures`, so it
is empty for the system as it is, and `{"transfer_signatures"}` to show that the
transactions of the entity manager are right once the table is there.

`Script` translates the traits into lists of statements; `Execute` runs one. `Rejected`
says what the engine refuses: a table that does not exist, a duplicate primary key, and
the two UPDATE statements no engine accepts. `Retrieve` and `RetrieveAll` are statements
too: all transfers are read with one SELECT of the keys and two statements for each of
them, outside any transaction; the keys still to come are in `queue`, and `RetrieveNext`
takes the next. `found` are the rows a read has so far. A read that fails
answers with nothing if it is `RetrieveAll`; `Retrieve` runs off its end, so its answer is
any set of rows (no caller looks at it). A caller updates only entities it has retrieved
(`Permitted`); an update of a missing transfer would leave signatures without a transfer.
`ItemsAssumption` says that only transfers have signatures, and that entities that differ
in the model differ in their rows.

### NodeLifecycle

`main` is the line of the main thread, `serverThread` that of the thread `Run`
starts, `call` and `handler` what each handler thread and `sig_handler` on each
thread are doing, `alive` which parts of the node exist. `Initialize` has the
outcomes of the code: complete, failed with only the loggers (no database), failed
with everything (no TLS), or killed by an uncaught exception. `BuildAndStart`
starts the server before `_serverInstance` is assigned, and may answer a null
pointer that is dereferenced. External: `grpc::Server::Shutdown` (one at a time,
waits for every handler thread) and the delivery of SIGINT (the main thread first,
masked while `sig_handler` runs on it). `Stuck` is the one state in which the real
process hangs: `sig_handler` on a handler thread waiting for itself.

### KeyStore

`privateFile` and `publicFile` are absent, torn or of a pair. Validation loads both
if both exist and otherwise generates a pair and exports private, then public key;
three copies of this code serve the three key types. Every export may fail or be
cut off, the process may die between any two steps, and files may be lost at any
moment (`lost` remembers which). `Up` hands the public key file to a client.
`file_exists` is given the path as it was configured (`cmd_arg_validator.cpp:334`),
the exports the result of `full_resolve_path` (lines 351-361). The model takes both to
name the same file, which is an assumption about libcpputils (external: the submodule
is empty) as soon as a path begins with `~`, as those of `src/etc/dev.settings.json` do.
If its `file_exists` did not expand `~`, every start would generate a pair: that is
the mutant `ValidateGenerates`, which violates `IdentityKept`.

### LogosNode

A handler thread of `NodeLifecycle` is a `Workers` thread of `IdentityService`:
`BeginCall` is taken together with `Receive` (`BeginRegistration`), or begins a call that
touches the session at most once (`ListIdentities`, `Up`, a refused registration); `Serve`
is one step of a registration and ends the call with the step that answers it. A thread
that runs `sig_handler` does not go on with its call. `CloseSession` is
`_db_manager.SQLSession().reset()` in `Shutdown`: for the handlers it is the loss of the
connection, which rolls back what was open. The fault "crash" of `IdentityService` has no
place here: a process that dies takes all of this with it.

### StatusService

`Up` with its clocks: `started` is `_start_time` of the node that runs, `status` the last
answer. `Nanos` is the code's `startTimeNs % startTimeS`, nanoseconds modulo *seconds*.
With `t = s * Second + f` and `f < Second`, that is `f` as soon as the clock shows at
least `Second` seconds, which is the assumption `ClockAssumption`; for the real constants
that is September 2001. A negative clock is left out. The clock is otherwise free and may
go back. `gethostbyname` may answer a null pointer that is used at once
(`status_service.cpp:38-39`), which is the process dying, `Stop` of `KeyStore`;
`LogosNode` leaves that case out.

### Settings

One start of a process: `ReturnEarly` and `ReadConfig` are `parse`, `Convert` the
serializer, then one action for each of the four validators, `Main`, and one for each part
of `Initialize`. `config` is the file, `settings` the `LogosSvcSettings`, `errors` the
settings an error was reported for (the code counts them; only whether there are any
matters). The field sets (`LoggerConfig`, `GrpcConfig`, ...) are the structs of
`cmd_arg_options.h`, as far as anything reads them; `ConfigurationsAssumption` says that a
file is a record with these fields. A setting of the file is a value, `Absent` or
`Malformed` (of a type on which jsoncpp throws, which nothing catches). The sub-object
`database_json[engine]` is part of the section `database`. `PermittedOutputs` and
`PermittedEngines` are what validation accepts; `LoggerFails` and `Connect`
spell out the branches `node.cpp` has, so that the two lists can disagree. `unusable` are
the paths that do not open. External: spdlog, which throws on a name it has already, on a
file it cannot open, on rotation at size 0 and over more than 200000 files; the
certificate class; jsoncpp; SOCI. Creating the keypair is `KeyStore`'s subject and only
succeeds or fails here.

`initializeDatabase` is `Connect` and `CreateTables`. `Connect` gives every engine the
same connection string (`Options`, `Unquoted`). What a backend makes of it is given by
constants: `KnownOptions`, the options it takes, of which `KnownOptionsAssumption` only
says that libpq has no `db`, `sslca` or `ssl_mode`; `SplitValues` and `UnquotableValues`,
the values that do not survive in it. The handler around the connection catches the
engine's own error class only, so a connection that fails ends `Initialize` with false
(`"stopped"`) or with an exception (`"crashed"`). In `CreateTables` the four results are
ignored, and what a BEGIN or a ROLLBACK throws when the database has gone away
(`LoseDatabase`) ends the process. Each of these statements is a step in `EntityTables`.
`AcceptedSettingsStart` names for each way a start ends the things that lead there, which
`NodeLifecycle` leaves open.

No node gets as far as to serve on postgresql, because of `db=` (`node.cpp:207`).
`IdentityService`, `EntityTables` and `LogosNode` keep that engine all the same, as the
code has a branch for it: their passing runs and theorems hold of one engine more than
the code can reach today. The violation runs use mysql and sqlite3 only.

## The runs

All under deadlock checking: every stop is a state the model says the code may stop in.

| run | instance | checks |
|---|---|---|
| `identity_serial` | 1 handler, 3 ids, a known and an unknown type, 3 engines, every fault | `TypeOK`, `AckedStored`, `FailedAbsent`, refinement `RegistrySpec` |
| `identity_overlap` | 2 handlers, 3 ids, 3 engines, lost connection and crash | `AckedStored`, `EveryCallAnswered` |
| `identity_lost_ack` | the same with 2 ids, mysql and sqlite3, and failing statements | `AckedStored` is violated |
| `identity_answer_type` | 1 handler, no fault | `AnswerDescribesIdentity` is violated |
| `identity_list_empty` | 1 handler, lost connection | `ListsEveryIdentity` is violated |
| `node_signals` | `LogosNode` with 2 handler threads, 3 SIGINTs, 1 registration among other calls, 3 engines, lost connection | `TypeOK`, `NoCallWithoutNode`, `SessionOutlivesHandlers`, `ExitAnswersAll`, refinements `GracefulSpec` and `LifecycleSpec`, `InterruptStops`, `RegistrationAnswered` |
| `keystore_faults` | `StatusService` with 5 keypairs, every fault, a second of 3 ns and a clock of 6 values | `TypeOK`, `KeysMatch`, `IdentityKept`, `StampsRight` |
| `entity_atomic` | the start, then 2 transfers, one in 2 versions, with a signature table, every fault | `TypeOK`, `CreatedTablesStay`, refinement `StoreSpec`, `DoneTakesEffect`, `RetrievesAllOrNone` |
| `entity_bulk` | the start, then wallets, a wallet key, an identity and a transfer, bulk forms and reads, the created tables | `BulkInsertsTheRest` |
| `settings_start` | some 350 files near the sample, one unusable path, a database that is up, down or goes away | `TypeOK`, `AcceptedSettingsStart` |
| `settings_defaults` | the same | `DefaultsApply` is violated |
| `entity_update` | the same as `entity_bulk`, single forms | `UpdateTakesEffect` is violated |

Bounds. An identity is registered once, so three ids give three registrations, in sequence
or overlapping, before and after a restart; two handlers are enough for one to end the
transaction of the other. Three SIGINTs reach the main thread, a handler thread, and a
thread while both are in `sig_handler`. Two files need at most: a first pair, an
interrupted second, and a replacement of either; five pairs leave room. One registration
is enough to be in flight at a SIGINT, beside another call on the second thread; two
registrations that overlap are `identity_overlap`'s subject, and `LogosNodeProofs` has any
number. The clock shows all of the first second its assumption allows, where seconds and
nanoseconds have the same modulus, and all of the next. Two transfers, one of them in a
version with one signature and one with two, take a read through several statements, an
update through growing and shrinking signatures, and every operation through a failure at
each of its statements. A settings file differs from the sample in one section, in one
setting (one in each of two loggers), which takes every class of value a check tells
apart; the sections are validated independently of each other. A bulk operation of two
entities has one before and one after a failure.

Each property of a passing run is broken by a mutant of a definition (the ones
commented `Mutant:`), so none holds by the shape of its model alone.

Fairness. `identity_overlap`: a handler inside a call goes on (a running thread); nothing
obliges clients, faults or restarts. `NodeLifecycle`: threads that can go on do, a call
that was begun ends, a deliverable SIGINT is delivered. `node_signals` assumes less: not
that a call ends but only that its thread goes on while `sig_handler` does not hold it
(`NodeSpec`). That it ends is the refinement `LifecycleSpec`, which includes the fairness
of `NodeLifecycle`: the service answers every call, although its statements, its COMMIT
and its ROLLBACK may throw. The code has no timeouts or retries of its own to add to that.

### What the violations show

* `identity_lost_ack`: a handler's failing statement, when the engine rolls back for it,
  or the ROLLBACK that follows it, removes another handler's row, whose COMMIT then
  succeeds on nothing and whose client is told "Created new identity".
* `identity_answer_type`: the answer carries an uninitialised type.
* `identity_list_empty`: a failed SELECT is answered as an empty registry.
* `settings_defaults`: the defaults of `cmd_arg_options.h` are overwritten with 0 by
  `convert`. A rotating log without `max-size` is rejected, and the server of
  `src/etc/dev.settings.json`, which has no `max_thread_count`, gets a quota of 0 threads.
* `entity_update`: no UPDATE of a wallet, wallet key or (for want of the
  `transfer_signatures` table) transfer ever takes effect, and the caller is not told.
  For the same missing table transfers with signatures cannot be inserted singly, are
  inserted without their signatures by the bulk form, cannot be deleted, and are not
  listed once there is one.

## What is proved

For any number of handlers, ids, keys, types, engines, threads, signals and keypairs:

* `IdentityServiceProofs`: `TypeCorrect`. Then, under the assumption that statements fail
  only with the connection, `AckedStoredIfNoStatementFails` for overlapping handlers. The
  inductive invariant `OverlapInv` says that the row of every handler at "commit" or later
  is in `current`, and that of every one at "answer" in `committed`: a COMMIT of anybody
  commits everybody's rows, and it is only a ROLLBACK, reached only after a failure, that
  takes rows away. The violation run shows that the assumption is needed. Under the
  assumption that there is one handler (`Serial`), but whatever fails:
  `AckedStoredIfSerial`, `FailedAbsentIfSerial` and `SerialImplementsRegistry`.
  `SerialInv` ties the transaction to the handler's position: what is uncommitted is
  exactly its own row. It is needed because `FailedAbsent` speaks of a row that must not
  appear later, which only an empty transaction after every return guarantees.
* `NodeLifecycleProofs`: `LifecycleTypeCorrect`, `CallsHaveTheirNode`,
  `NodeImplementsGracefulService`, from `LifecycleInv`: while the server can run calls its
  thread is alive, and while its thread is alive `Run` has not returned, so the parts are
  all there.
* `LogosNodeProofs`: every step of the composition is a step of `NodeLifecycle` or leaves
  its variables alone (`NodeImplementsLifecycle`), so `NodeServesGracefully` and all that
  is proved of the threads. It is a step of `IdentityService` too
  (`NodeImplementsService`), where closing the session is a lost connection: hence the
  assumption `ConnectionMayDrop`, that this fault is among `Faults`. With that, and if
  statements fail only with the connection, `NodeKeepsAcked`: a shutdown takes no answered
  registration back. `HandlersInCalls`, the invariant that joins the two, says that a
  handler away from "idle" belongs to a busy call, and that an id is pending only while a
  handler has it. From it and `LifecycleInv` follow `SessionIsThereForHandlers` and
  `NodeAnswersBeforeExit`.
* `EntityTablesProofs`: `TablesStay`, that a table `CreateTable` has returned true for is
  never lost again while the process lives, from `SchemaInv`: the tables of `committed`
  are among those of `current`, no statement takes one away, and a CreateTable that has
  run its statement, and may COMMIT, sees its table.
* `EntityRowsProofs`: for any entities (transfers with any number of signatures among
  them), tables made before, operations, engines and faults, `EntityTypesCorrect`,
  `WritesTakeEffect` and `ReadsAllOrNone`, from `RowsInv` and `SchemaInv`. What
  `RowsInv` adds to the properties:
  - `Progress` (in `WriteInv`) says which statements of the script are left and what those
    done have made of the entity: its row is there before its first signature, with the
    first m signatures when the others are left, and the signatures of a transfer are gone
    before its row. A script that is empty has then had its whole effect, which is what
    `DoneInv` needs at a COMMIT.
  - `SameOthers` (in `WriteInv`) says that the transaction has changed the rows of no
    other entity, so a COMMIT takes back nothing an earlier operation has done.
  - `ContentsInv` has the keys unique and no signature without its transfer: without the
    latter an insert might find signatures of a deleted transfer and not be whole.
  - `KeyInv`: the key an Update is given is still there when its statement runs.
  - `ReadInv` says that each row a RetrieveAll has not read is of a transfer it has still
    to come to, or of the one it is at.

  `SignaturesHaveTransfers` is the part of `ContentsInv` that survives the bulk forms,
  which have no transaction: a transfer may lack signatures then, but no signature is
  there without its transfer.

  `TablesImplementStore`, the refinement of `EntityStore`, assumes that the caller uses no
  bulk form (`NoBulkForms`): they run without a transaction and do leave transfers without
  their signatures. It adds `SingleInv`, that every durable row is of a whole entity.
  `BulkInserts` assumes that nothing fails but what the tables refuse (`NothingFails`); an
  engine's error is logged by `InsertAll` and the entity is missing. `CreatedInv` says
  that every table is created then, so the only reason left to refuse the row of an entity
  is that its key is there, and `InsertAllInv` counts the entities done.
* `StatusServiceProofs`: `StampsNameTheirTimes`, for any second and any clock past
  `Second` seconds, from two lemmas of arithmetic (`SmallMultiple`, `Remainder`): the
  remainder modulo the seconds is that modulo `Second`.
* `KeyStoreProofs`: `KeyTypesCorrect`, `FilesHoldOnePair`, `NodeKeepsIdentity`, from
  `KeyInv`: a pair is exported only while the public file is absent, so a public key file
  always stands beside the private key of its pair.

* `SettingsProofs`: `SettingsComplete`, types and fields of every converted settings, for
  any files with the fields the code reads. `AcceptedStarts`, from `SettingsInv`: a
  validator that reports no error has established what `Initialize` needs of its section
  (every output has a branch, no rotation at size 0, the engine has a driver), and nothing
  after it changes that; and each part of `Initialize` that was passed leaves one reason
  fewer to fail (`LoggingFails` is over after the loggers, postgresql after `Connect`).
  `KeptFailures` is the lemma that these reasons depend on the settings, the paths and the
  database alone. Both theorems assume that every section has its settings, if only as
  `Absent`, and `AcceptedStarts` that libpq knows no option `db`.

Only model-checked: liveness (`EveryCallAnswered`, `InterruptStops`,
`RegistrationAnswered`, the fairness in `LifecycleSpec`), which the prover does not do.
Every invariant of a passing run is stated by a theorem, some under the assumptions above.

## Not modelled

The settings nothing reads, the text of messages, what loggers do after they are built,
the build constants and host name of `Up`, a host name that does not resolve while
registrations are in flight, `TableTraits<TransferSignature>` (no entity manager is made
from it; the table is written by the traits of `Transfer`), the column data and the metadata
JSON, TLS, gRPC's own threads and queues, uuid collisions, the destruction of global
objects after `main` (a SIGINT then finds a node being destroyed), the Python clients, the
unit test runner (it has no tests), build and container files, and the Kafka, storage,
wallet and chain stubs.

## Plan

1. Overlapping calls of different entity managers on the shared session, to find which
   of the promises of `EntityStore` survive the sharing. Nothing in the code calls the
   other managers from a handler yet.
