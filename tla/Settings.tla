------------------------------- MODULE Settings -------------------------------
(***************************************************************************)
(* From the command line to an initialised node: CMDArgParser::parse reads  *)
(* the settings file, LogosSvcSettingsSerializer::convert turns the JSON    *)
(* into a LogosSvcSettings, LogosSvcSettingsValidator::validate accepts or  *)
(* rejects it, and BlockchainNode::Initialize builds the loggers, the       *)
(* database session and the server credentials from it.                     *)
(*                                                                          *)
(* A setting of the file is a value, Absent (left out, or null), or         *)
(* Malformed: of a type its conversion throws on.  A path stands for its    *)
(* file; spdlog, the certificate class, SOCI and the database are external. *)
(***************************************************************************)
EXTENDS Integers, Sequences

CONSTANTS
  Configurations,     \* the settings files a node may be started with
  UnusableFiles,      \* the sets of paths that cannot be read or opened
  KnownOptions,       \* the options each engine's connection string may have
  SplitValues,        \* the values that fall apart in it when not in quotes
  UnquotableValues,   \* those that fall apart in quotes, too
  Absent, Malformed

(* The settings of each section: those that validation or Initialize looks   *)
(* at, or has a default.                                                      *)

Certificate == {"use_tls", "cert_path", "key_path", "ca_path"}

KeyPair == {"type", "private_key_path", "public_key_path"}

IdentityConfig == {"node_id", "operator_id"} \cup KeyPair \cup Certificate

LoggerConfig == {"name", "level", "output", "output_path", "pattern", "max_size",
                 "max_files", "restart_time"}

GrpcConfig == {"address", "port", "max_thread_count"}
                \cup (Certificate \ {"ca_path"})

DatabaseConfig == {"engine", "host", "port", "database", "username", "password"}
                    \cup Certificate

IntegerSettings == {"max_size", "max_files", "port", "max_thread_count"}

\* Every setting is in the record of its section, if only as Absent.
ASSUME ConfigurationsAssumption ==
  \A c \in Configurations :
    /\ \A i \in DOMAIN c.logging : DOMAIN c.logging[i] = LoggerConfig
    /\ DOMAIN c.identity = IdentityConfig
    /\ DOMAIN c.database = DatabaseConfig
    /\ DOMAIN c.grpc = GrpcConfig

PermittedEngines == {"mysql", "postgresql", "sqlite3"}

\* libpq calls it dbname, and has no name like these for TLS.
ASSUME KnownOptionsAssumption ==
  /\ DOMAIN KnownOptions = PermittedEngines
  /\ {"db", "sslca", "ssl_mode"} \cap KnownOptions["postgresql"] = {}

VARIABLES
  config,             \* the settings file
  unusable,           \* the paths that cannot be read or opened
  databaseUp,         \* whether the database takes connections and transactions
  pc,                 \* the function the start is in, or how it ended
  settings,           \* the LogosSvcSettings, <<>> before its conversion
  errors,             \* the settings an error was reported for
  loggers             \* the names of the loggers that have been built

vars == <<config, unusable, databaseUp, pc, settings, errors, loggers>>

PermittedLevels == {"trace", "debug", "info", "warn", "error", "critical"}

\* Mutant: an output type is permitted that initializeLogging does not know.
PermittedOutputsAndSyslog == {"console", "rotating-file", "daily-file", "syslog"}

PermittedOutputs == {"console", "rotating-file", "daily-file"}

PermittedKeyTypes == {"rsa", "ecc", "ed25519"}

FileOutputs == {"rotating-file", "daily-file"}

Init ==
  /\ config \in Configurations
  /\ unusable \in UnusableFiles
  /\ databaseUp \in BOOLEAN
  /\ pc = "parse"
  /\ settings = <<>>
  /\ errors = {}
  /\ loggers = {}

-----------------------------------------------------------------------------
(* CMDArgParser::parse                                                      *)

\* -h, -v, or -c without a filename: parse returns at once, and not 0.
ReturnEarly ==
  /\ pc = "parse"
  /\ pc' = "stopped"
  /\ UNCHANGED <<config, unusable, databaseUp, settings, errors, loggers>>

\* An unknown argument is an error, but the settings file is read all the same;
\* there may be none, or one that is not JSON.
ReadConfig ==
  /\ pc = "parse"
  /\ \E unknown \in SUBSET {"argument"} :
       \/ pc' = "convert" /\ errors' = unknown
       \/ pc' = "main" /\ errors' = unknown \cup {"file"}
  /\ UNCHANGED <<config, unusable, databaseUp, settings, loggers>>

-----------------------------------------------------------------------------
(* LogosSvcSettingsSerializer::convert                                      *)

IsMalformed(section) == \E f \in DOMAIN section : section[f] = Malformed

ConversionThrows ==
  \/ \E s \in {"identity", "database", "grpc"} : IsMalformed(config[s])
  \/ \E i \in DOMAIN config.logging : IsMalformed(config.logging[i])

\* asInt, asBool and asString of a missing value.
Value(f, v) ==
  CASE v # Absent -> v
    [] v = Absent /\ f \in IntegerSettings -> 0
    [] v = Absent /\ f = "use_tls" -> FALSE
    [] OTHER -> ""

Section(section) == [f \in DOMAIN section |-> Value(f, section[f])]

Convert ==
  /\ pc = "convert"
  /\ IF ConversionThrows
     THEN pc' = "crashed" /\ UNCHANGED settings
     ELSE /\ settings' = [logging |-> [i \in DOMAIN config.logging |->
                                         Section(config.logging[i])],
                          identity |-> Section(config.identity),
                          database |-> Section(config.database),
                          grpc |-> Section(config.grpc)]
          /\ pc' = "log"
  /\ UNCHANGED <<config, unusable, databaseUp, errors, loggers>>

-----------------------------------------------------------------------------
(* LogosSvcSettingsValidator: every check runs, whatever failed before it.  *)

LogErrors(l) ==
  {f \in DOMAIN l :
    \/ f \in {"name", "pattern"} /\ l[f] = ""
    \/ f = "level" /\ l.level \notin PermittedLevels
    \/ f = "output" /\ l.output \notin PermittedOutputs
    \/ f = "output_path" /\ l.output \in FileOutputs /\ l.output_path = ""
    \/ f \in {"max_size", "max_files"} /\ l.output = "rotating-file" /\ l[f] <= 0
    \/ f = "restart_time" /\ l.output = "daily-file" /\ l.restart_time = ""}

\* A path that is empty, or names no file that loads.
NotLoaded(path) == path = "" \/ path \in unusable

\* The file of key_path is not looked at: that of cert_path is loaded twice.
IdentityErrors(s) ==
  {f \in DOMAIN s :
    \/ f \in {"node_id", "operator_id", "public_key_path", "private_key_path"}
         /\ s[f] = ""
    \/ f = "type" /\ s.type \notin PermittedKeyTypes \cup {""}
    \/ s.use_tls /\ f \in {"ca_path", "cert_path"} /\ NotLoaded(s[f])
    \/ s.use_tls /\ f = "key_path"
         /\ (s.key_path = "" \/ s.cert_path \in unusable)}

DatabaseErrors(s) ==
  {f \in DOMAIN s :
    \/ f = "engine" /\ s.engine \notin PermittedEngines
    \/ f = "host" /\ s.host = ""
    \/ f = "port" /\ s.port <= 0
    \/ s.use_tls /\ f \in {"ca_path", "cert_path"} /\ NotLoaded(s[f])
    \/ s.use_tls /\ f = "key_path" /\ s.key_path = ""}

GrpcErrors(s) ==
  {f \in DOMAIN s :
    \/ f = "address" /\ s.address = ""
    \/ s.use_tls /\ f \in {"key_path", "cert_path"} /\ s[f] = ""}

Report(found, next) ==
  /\ errors' = errors \cup found
  /\ pc' = next
  /\ UNCHANGED <<config, unusable, databaseUp, loggers>>

ValidateLogSettings ==
  /\ pc = "log"
  /\ Report(UNION {LogErrors(settings.logging[i]) : i \in DOMAIN settings.logging},
            "identity")
  /\ UNCHANGED settings

\* Mutant: a keypair without a type is not taken to be an ECC one.
ValidateIdentityWithoutDefault ==
  /\ pc = "identity"
  /\ \E keypair \in SUBSET {"keypair"} :
       Report(IdentityErrors(settings.identity) \cup keypair, "database")
  /\ UNCHANGED settings

DefaultType(s) == [s EXCEPT !.type = IF @ = "" THEN "ecc" ELSE @]

\* The keypair (module KeyStore) is loaded or generated here, which may fail.
ValidateIdentitySettings ==
  /\ pc = "identity"
  /\ \E keypair \in SUBSET {"keypair"} :
       Report(IdentityErrors(settings.identity) \cup keypair, "database")
  /\ settings' = [settings EXCEPT !.identity = DefaultType(@)]

ValidateDatabaseSettings ==
  /\ pc = "database"
  /\ Report(DatabaseErrors(settings.database), "grpc")
  /\ UNCHANGED settings

ValidateGrpcSettings ==
  /\ pc = "grpc"
  /\ Report(GrpcErrors(settings.grpc), "main")
  /\ UNCHANGED settings

-----------------------------------------------------------------------------
(* main and BlockchainNode::Initialize                                      *)

Main ==
  /\ pc = "main"
  /\ pc' = IF errors = {} THEN "logging" ELSE "stopped"
  /\ UNCHANGED <<config, unusable, databaseUp, settings, errors, loggers>>

SharedName ==
  \E i, j \in DOMAIN settings.logging :
    i # j /\ settings.logging[i].name = settings.logging[j].name

LogFileFails(l) == l.output \in FileOutputs /\ l.output_path \in unusable

\* External: spdlog's bound on the files of a rotating log.
MaxRotatedFiles == 200000

TooManyFiles(l) == l.output = "rotating-file" /\ l.max_files > MaxRotatedFiles

\* spdlog refuses a second logger of a name, a file it cannot open, a rotation
\* at size 0 and one over too many files; an output without a branch leaves the
\* pointer null.
LoggerFails(l) ==
  \/ l.output \notin {"console", "rotating-file", "daily-file"}
  \/ l.output = "rotating-file" /\ l.max_size = 0
  \/ TooManyFiles(l)
  \/ LogFileFails(l)

InitializeLogging ==
  /\ pc = "logging"
  /\ IF SharedName \/ \E i \in DOMAIN settings.logging :
                        LoggerFails(settings.logging[i])
     THEN pc' = "crashed" /\ UNCHANGED loggers
     ELSE /\ loggers' = {settings.logging[i].name : i \in DOMAIN settings.logging}
          /\ pc' = "connect"
  /\ UNCHANGED <<config, unusable, databaseUp, settings, errors>>

(* initializeDatabase connects, and then creates the tables.                 *)

\* One connection string for the three engines.
Options(s) ==
  {"host", "port", "db", "user", "password"}
    \cup (IF s.use_tls THEN {"sslcert", "sslkey", "sslca", "ssl_mode"} ELSE {})

\* What the string holds without quotes.
Unquoted(s) ==
  {s.host, s.database, s.username}
    \cup (IF s.use_tls THEN {s.cert_path, s.key_path, s.ca_path} ELSE {})

OptionsKnown(s) == Options(s) \subseteq KnownOptions[s.engine]

\* sqlite3 looks for its database in the string, and for nothing else.
Connectable(s) ==
  /\ OptionsKnown(s)
  /\ s.engine # "sqlite3" =>
       /\ Unquoted(s) \cap SplitValues = {}
       /\ s.password \notin UnquotableValues
       /\ s.use_tls => s.key_path \notin unusable

\* Of what the backend throws only its own subclass of soci_error is caught; an
\* engine without a branch leaves success false.
Connect ==
  /\ pc = "connect"
  /\ LET s == settings.database
     IN IF s.engine \notin {"mysql", "postgresql", "sqlite3"} THEN pc' = "stopped"
        ELSE \/ databaseUp /\ OptionsKnown(s) /\ pc' = "tables"
             \/ ~(databaseUp /\ Connectable(s)) /\ pc' \in {"stopped", "crashed"}
  /\ UNCHANGED <<config, unusable, databaseUp, settings, errors, loggers>>

\* Nothing looks at what CreateTable returns (module EntityTables has its steps),
\* and nothing catches what its BEGIN or its ROLLBACK throws.
CreateTables ==
  /\ pc = "tables"
  /\ pc' \in {"server"} \cup (IF databaseUp THEN {} ELSE {"crashed"})
  /\ UNCHANGED <<config, unusable, databaseUp, settings, errors, loggers>>

\* The database goes away while the tables are created.
LoseDatabase ==
  /\ pc = "tables"
  /\ databaseUp' = FALSE
  /\ UNCHANGED <<config, unusable, pc, settings, errors, loggers>>

CredentialsFail(s) ==
  s.use_tls /\ {s.cert_path, s.key_path} \cap unusable # {}

InitializeGRPCServer ==
  /\ pc = "server"
  /\ pc' = IF CredentialsFail(settings.grpc) THEN "stopped" ELSE "ready"
  /\ UNCHANGED <<config, unusable, databaseUp, settings, errors, loggers>>

Ended == pc \in {"stopped", "crashed", "ready"} /\ UNCHANGED vars

Next ==
  \/ ReturnEarly
  \/ ReadConfig
  \/ Convert
  \/ ValidateLogSettings
  \/ ValidateIdentitySettings
  \/ ValidateDatabaseSettings
  \/ ValidateGrpcSettings
  \/ Main
  \/ InitializeLogging
  \/ Connect
  \/ CreateTables
  \/ LoseDatabase
  \/ InitializeGRPCServer
  \/ Ended

Spec == Init /\ [][Next]_vars

-----------------------------------------------------------------------------
Accepted == settings # <<>> /\ errors = {}

\* What Initialize is given is complete: a key type the node knows, and a logger
\* for every entry once they are built.
TypeOK ==
  /\ pc \in {"parse", "convert", "log", "identity", "database", "grpc", "main",
             "logging", "connect", "tables", "server", "stopped", "crashed",
             "ready"}
  /\ pc \in {"logging", "connect", "tables", "server", "ready"} =>
       Accepted /\ settings.identity.type \in PermittedKeyTypes
  /\ pc = "ready" =>
       loggers = {settings.logging[i].name : i \in DOMAIN settings.logging}

LoggingFails ==
  \/ SharedName
  \/ \E i \in DOMAIN settings.logging :
       \/ LogFileFails(settings.logging[i])
       \/ TooManyFiles(settings.logging[i])

DatabaseFails == ~databaseUp \/ ~Connectable(settings.database)

\* "Successfully validated configuration": settings that parse has accepted start
\* the node, except for what validation does not look at.  A failure of the
\* loggers (a shared name, a file that does not open, too many files) ends the
\* process with an exception; TLS files of the server that cannot be read are
\* reported; the database may end it either way: it is down, its key file does not
\* load, or it is given a connection string it does not understand, and postgresql
\* never understands it.
AcceptedSettingsStart ==
  Accepted =>
    /\ pc = "crashed" => LoggingFails \/ DatabaseFails
    /\ pc = "stopped" => DatabaseFails \/ CredentialsFail(settings.grpc)
    /\ pc = "ready" =>
         /\ ~LoggingFails
         /\ ~CredentialsFail(settings.grpc)
         /\ settings.database.engine # "postgresql"

DefaultMaxSize == 1073741824
DefaultMaxFiles == 10
DefaultMaxThreadCount == 10

\* "Default to 1gb": a setting that cmd_arg_options.h gives a default has that
\* value when the settings file leaves it out.
DefaultsApply ==
  settings # <<>> =>
    /\ \A i \in DOMAIN config.logging :
         /\ config.logging[i].max_size = Absent =>
              settings.logging[i].max_size = DefaultMaxSize
         /\ config.logging[i].max_files = Absent =>
              settings.logging[i].max_files = DefaultMaxFiles
    /\ config.grpc.max_thread_count = Absent =>
         settings.grpc.max_thread_count = DefaultMaxThreadCount
=============================================================================
