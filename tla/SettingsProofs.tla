---------------------------- MODULE SettingsProofs ----------------------------
(* Theorems about Settings, for any settings files and any unusable paths.   *)
EXTENDS Settings, TLAPS

\* What the settings still have of the file's shape while they are validated.
Shape ==
  /\ {"logging", "identity", "database"} \subseteq DOMAIN settings
  /\ \A i \in DOMAIN settings.logging :
       {"output", "max_size"} \subseteq DOMAIN settings.logging[i]
  /\ "engine" \in DOMAIN settings.database

LogsValid ==
  \A i \in DOMAIN settings.logging :
    /\ settings.logging[i].output \in PermittedOutputs
    /\ settings.logging[i].output = "rotating-file" =>
         settings.logging[i].max_size # 0

EngineValid == settings.database.engine \in PermittedEngines

\* What each validator that has run without an error has established of the
\* settings; the ones after it, and Initialize, leave that alone.  Initialize comes
\* to its later parts only if the loggers were built, and not with postgresql.
SettingsInv ==
  /\ config \in Configurations
  /\ pc \in {"parse", "convert"} => settings = <<>>
  /\ pc \in {"log", "identity", "database"} => Shape
  /\ Accepted /\ pc # "log" => LogsValid
  /\ Accepted /\ pc \notin {"log", "identity", "database"} => EngineValid
  /\ pc \in {"connect", "tables", "server"} => ~LoggingFails
  /\ pc \in {"tables", "server"} => settings.database.engine # "postgresql"
  /\ AcceptedSettingsStart

\* What convert produces has the sections, and the settings, of the file.
LEMMA ConvertShape ==
  ASSUME config \in Configurations, ~ConversionThrows, Convert
  PROVE  Shape'
<1>1. pc = "convert" /\ settings' = [logging |-> [i \in DOMAIN config.logging |->
                                    Section(config.logging[i])],
                     identity |-> Section(config.identity),
                     database |-> Section(config.database),
                     grpc |-> Section(config.grpc)]
  BY DEF Convert
<1>2. /\ DOMAIN settings' = {"logging", "identity", "database", "grpc"}
      /\ DOMAIN settings'.logging = DOMAIN config.logging
      /\ \A i \in DOMAIN config.logging :
           DOMAIN settings'.logging[i] = DOMAIN config.logging[i]
      /\ DOMAIN settings'.database = DOMAIN config.database
  BY <1>1 DEF Section
<1> QED
  BY <1>2, ConfigurationsAssumption DEF Shape, LoggerConfig, DatabaseConfig

\* What can fail is decided by the settings, the paths and the database.
SettingsKept == UNCHANGED <<settings, unusable, databaseUp>>

LEMMA KeptFailures ==
  SettingsKept =>
    /\ LoggingFails' <=> LoggingFails
    /\ DatabaseFails' <=> DatabaseFails
    /\ CredentialsFail(settings.grpc)' <=> CredentialsFail(settings.grpc)
  BY DEF SettingsKept, LoggingFails, SharedName, LogFileFails, TooManyFiles,
         DatabaseFails, Connectable, OptionsKnown, Options, Unquoted,
         CredentialsFail

\* No step of the start breaks SettingsInv.
LEMMA SettingsStep == SettingsInv /\ [Next]_vars => SettingsInv'
<1> SUFFICES ASSUME SettingsInv, [Next]_vars PROVE SettingsInv'
  OBVIOUS
<1> USE DEF SettingsInv, Accepted, AcceptedSettingsStart
<1>1. CASE ReturnEarly
  BY <1>1 DEF ReturnEarly
<1>2. CASE ReadConfig
  BY <1>2 DEF ReadConfig
<1>3. CASE Convert
  <2>1. CASE ConversionThrows
    BY <1>3, <2>1 DEF Convert
  <2>2. CASE ~ConversionThrows
    BY <1>3, <2>2, ConvertShape DEF Convert
  <2> QED
    BY <2>1, <2>2
<1>4. CASE ValidateLogSettings
  <2>1. errors' = {} => \A i \in DOMAIN settings.logging :
                          LogErrors(settings.logging[i]) = {}
    BY <1>4 DEF ValidateLogSettings, Report
  <2>2. errors' = {} => LogsValid
    <3> SUFFICES ASSUME errors' = {}, NEW i \in DOMAIN settings.logging
                 PROVE  /\ settings.logging[i].output \in PermittedOutputs
                        /\ settings.logging[i].output = "rotating-file" =>
                             settings.logging[i].max_size # 0
      BY DEF LogsValid
    <3> DEFINE l == settings.logging[i]
    <3>1. LogErrors(l) = {} /\ {"output", "max_size"} \subseteq DOMAIN l
      BY <1>4, <2>1 DEF ValidateLogSettings, Shape
    <3>2. l.output \in PermittedOutputs
      <4>1. "output" \notin LogErrors(l)
        BY <3>1
      <4> QED
        BY <3>1, <4>1, Zenon DEF LogErrors
    <3>3. ASSUME l.output = "rotating-file", l.max_size = 0
          PROVE  FALSE
      <4>1. l["max_size"] <= 0
        BY <3>3
      <4>2. "max_size" \in LogErrors(l)
        BY <3>1, <3>3, <4>1, Zenon DEF LogErrors
      <4> QED
        BY <3>1, <4>2
    <3> QED
      BY <3>2, <3>3
  <2>3. Shape' /\ (LogsValid => LogsValid') /\ pc' = "identity"
    BY <1>4 DEF ValidateLogSettings, Report, Shape, LogsValid
  <2> QED
    BY <1>4, <2>2, <2>3 DEF ValidateLogSettings, Report
<1>5. CASE ValidateIdentitySettings
  <2>1. /\ DOMAIN settings' = DOMAIN settings
        /\ settings'.logging = settings.logging
        /\ settings'.database = settings.database
    BY <1>5 DEF ValidateIdentitySettings, Shape
  <2>2. Shape' /\ (LogsValid => LogsValid')
    BY <1>5, <2>1 DEF ValidateIdentitySettings, Shape, LogsValid
  <2>3. settings # <<>>
    BY <1>5 DEF ValidateIdentitySettings, Shape
  <2> QED
    BY <1>5, <2>2, <2>3 DEF ValidateIdentitySettings, Report
<1>6. CASE ValidateDatabaseSettings
  <2>1. errors' = {} => EngineValid
    <3>1. errors' = {} => "engine" \notin DatabaseErrors(settings.database)
      BY <1>6 DEF ValidateDatabaseSettings, Report
    <3> QED
      BY <1>6, <3>1
      DEF ValidateDatabaseSettings, Shape, DatabaseErrors, EngineValid
  <2> QED
    BY <1>6, <2>1
    DEF ValidateDatabaseSettings, Report, EngineValid, LogsValid
<1>7. CASE ValidateGrpcSettings
  BY <1>7 DEF ValidateGrpcSettings, Report, EngineValid, LogsValid
<1>8. CASE Main
  BY <1>8 DEF Main, EngineValid, LogsValid
<1>9. CASE InitializeLogging
  <2>1. /\ LogsValid' <=> LogsValid
        /\ EngineValid' <=> EngineValid
        /\ LoggingFails' <=> LoggingFails
    BY <1>9 DEF InitializeLogging, LogsValid, EngineValid, LoggingFails,
                SharedName, LogFileFails, TooManyFiles
  <2>2. CASE pc' = "crashed"
    <3>1. Accepted => LoggingFails
      BY <1>9, <2>2
      DEF InitializeLogging, LogsValid, LoggerFails, PermittedOutputs, LoggingFails
    <3> QED
      BY <1>9, <2>1, <2>2, <3>1 DEF InitializeLogging
  <2>3. CASE pc' = "connect"
    <3>1. ~LoggingFails
      BY <1>9, <2>3 DEF InitializeLogging, LoggerFails, LoggingFails
    <3> QED
      BY <1>9, <2>1, <2>3, <3>1 DEF InitializeLogging
  <2> QED
    BY <1>9, <2>2, <2>3 DEF InitializeLogging
<1>10. CASE Connect
  <2>1. OptionsKnown(settings.database) => settings.database.engine # "postgresql"
    BY KnownOptionsAssumption DEF OptionsKnown, Options
  <2>2. LogsValid' = LogsValid /\ EngineValid' = EngineValid /\ SettingsKept
    BY <1>10 DEF Connect, LogsValid, EngineValid, SettingsKept
  <2>3. (DatabaseFails <=> DatabaseFails') /\ (LoggingFails <=> LoggingFails')
    BY <2>2, KeptFailures
  <2> QED
    BY <1>10, <2>1, <2>2, <2>3
    DEF Connect, DatabaseFails, EngineValid, PermittedEngines
<1>11. CASE CreateTables
  <2>1. LogsValid' = LogsValid /\ EngineValid' = EngineValid /\ SettingsKept
    BY <1>11 DEF CreateTables, LogsValid, EngineValid, SettingsKept
  <2> QED
    BY <1>11, <2>1, KeptFailures DEF CreateTables, DatabaseFails
<1>12. CASE LoseDatabase
  BY <1>12 DEF LoseDatabase, EngineValid, LogsValid, LoggingFails, SharedName,
               LogFileFails, TooManyFiles
<1>13. CASE InitializeGRPCServer
  <2>1. LogsValid' = LogsValid /\ EngineValid' = EngineValid /\ SettingsKept
    BY <1>13 DEF InitializeGRPCServer, LogsValid, EngineValid, SettingsKept
  <2> QED
    BY <1>13, <2>1, KeptFailures DEF InitializeGRPCServer
<1>14. CASE UNCHANGED vars
  <2>1. /\ LogsValid' = LogsValid /\ EngineValid' = EngineValid /\ Shape' = Shape
        /\ SettingsKept
    BY <1>14 DEF vars, LogsValid, EngineValid, Shape, SettingsKept
  <2> QED
    BY <1>14, <2>1, KeptFailures DEF vars
<1> QED
  BY <1>1, <1>2, <1>3, <1>4, <1>5, <1>6, <1>7, <1>8, <1>9, <1>10, <1>11, <1>12,
     <1>13, <1>14
  DEF Next, Ended

\* From settings that validation has accepted Initialize builds the node, except
\* for shared logger names, log files that do not open or are too many, TLS files of
\* the server, and the database; and never with postgresql.
THEOREM AcceptedStarts == Spec => []AcceptedSettingsStart
<1>1. Init => SettingsInv
  BY DEF Init, SettingsInv, Accepted, AcceptedSettingsStart
<1>2. SettingsInv /\ [Next]_vars => SettingsInv'
  BY SettingsStep
<1>3. SettingsInv => AcceptedSettingsStart
  BY DEF SettingsInv
<1> QED
  BY <1>1, <1>2, <1>3, PTL DEF Spec

-----------------------------------------------------------------------------
LoggerNames == {settings.logging[i].name : i \in DOMAIN settings.logging}

\* The keypair has its type, given or the default, from its validation on, and a
\* node that has its loggers has one for every entry.
CompleteInv ==
  /\ pc \in {"parse", "convert", "log", "identity", "database", "grpc", "main",
             "logging", "connect", "tables", "server", "stopped", "crashed",
             "ready"}
  /\ pc \in {"log", "identity"} =>
       "identity" \in DOMAIN settings /\ "type" \in DOMAIN settings.identity
  /\ pc \in {"log", "identity", "database", "grpc"} => settings # <<>>
  /\ pc \in {"database", "grpc", "main"} /\ errors = {} =>
       settings # <<>> /\ settings.identity.type \in PermittedKeyTypes
  /\ pc \in {"logging", "connect", "tables", "server", "ready"} =>
       /\ settings # <<>> /\ errors = {}
       /\ settings.identity.type \in PermittedKeyTypes
  /\ pc \in {"connect", "tables", "server", "ready"} => loggers = LoggerNames

\* The type of a keypair that is validated without an error is one the node knows
\* once the default has been filled in.
LEMMA DefaultTypeKnown ==
  ASSUME NEW s, "type" \in DOMAIN s, "type" \notin IdentityErrors(s)
  PROVE  DefaultType(s).type \in PermittedKeyTypes
<1>1. s.type \in PermittedKeyTypes \cup {""}
  BY Zenon DEF IdentityErrors
<1>2. DefaultType(s).type = IF s.type = "" THEN "ecc" ELSE s.type
  BY DEF DefaultType
<1> QED
  BY <1>1, <1>2 DEF PermittedKeyTypes

\* No step of the start breaks CompleteInv.
LEMMA CompleteStep ==
  ASSUME SettingsInv, CompleteInv, [Next]_vars
  PROVE  CompleteInv'
<1> USE DEF CompleteInv, LoggerNames
<1>1. CASE ReturnEarly \/ ReadConfig
  BY <1>1 DEF ReturnEarly, ReadConfig
<1>2. CASE Convert
  <2>1. CASE ConversionThrows
    BY <1>2, <2>1 DEF Convert
  <2>2. CASE ~ConversionThrows
    <3>1. settings' = [logging |-> [i \in DOMAIN config.logging |->
                                      Section(config.logging[i])],
                       identity |-> Section(config.identity),
                       database |-> Section(config.database),
                       grpc |-> Section(config.grpc)]
      BY <1>2, <2>2 DEF Convert
    <3>2. DOMAIN settings'.identity = DOMAIN config.identity
      BY <3>1 DEF Section
    <3>3. "type" \in DOMAIN settings'.identity
      BY <3>2, ConfigurationsAssumption
      DEF SettingsInv, IdentityConfig, KeyPair
    <3>4. DOMAIN settings' = {"logging", "identity", "database", "grpc"}
      BY <3>1
    <3>5. settings' # <<>>
      BY <3>4
    <3> QED
      BY <1>2, <2>2, <3>3, <3>4, <3>5 DEF Convert
  <2> QED
    BY <2>1, <2>2
<1>3. CASE ValidateLogSettings
  BY <1>3 DEF ValidateLogSettings, Report
<1>4. CASE ValidateIdentitySettings
  <2>1. /\ settings'.identity = DefaultType(settings.identity)
        /\ DOMAIN settings' = DOMAIN settings
        /\ settings # <<>>
    BY <1>4 DEF ValidateIdentitySettings
  <2>2. settings' # <<>>
    BY <1>4, <2>1 DEF ValidateIdentitySettings
  <2>3. errors' = {} => IdentityErrors(settings.identity) = {}
    BY <1>4 DEF ValidateIdentitySettings, Report
  <2>4. errors' = {} => settings'.identity.type \in PermittedKeyTypes
    BY <1>4, <2>1, <2>3, DefaultTypeKnown DEF ValidateIdentitySettings
  <2> QED
    BY <1>4, <2>2, <2>4 DEF ValidateIdentitySettings, Report
<1>5. CASE ValidateDatabaseSettings
  BY <1>5 DEF ValidateDatabaseSettings, Report
<1>6. CASE ValidateGrpcSettings
  BY <1>6 DEF ValidateGrpcSettings, Report
<1>7. CASE Main
  BY <1>7 DEF Main
<1>8. CASE InitializeLogging
  BY <1>8 DEF InitializeLogging
<1>9. CASE Connect \/ CreateTables \/ LoseDatabase \/ InitializeGRPCServer
  BY <1>9 DEF Connect, CreateTables, LoseDatabase, InitializeGRPCServer
<1>10. CASE UNCHANGED vars
  BY <1>10 DEF vars
<1> QED
  BY <1>1, <1>2, <1>3, <1>4, <1>5, <1>6, <1>7, <1>8, <1>9, <1>10
  DEF Next, Ended

\* What Initialize is given is complete: a key type the node knows, and a logger
\* for every entry once they are built.
THEOREM SettingsComplete == Spec => []TypeOK
<1>1. Init => SettingsInv /\ CompleteInv
  BY DEF Init, SettingsInv, CompleteInv, Accepted, AcceptedSettingsStart
<1>2. SettingsInv /\ CompleteInv /\ [Next]_vars => (SettingsInv /\ CompleteInv)'
  BY SettingsStep, CompleteStep
<1>3. SettingsInv /\ CompleteInv => TypeOK
  BY DEF CompleteInv, TypeOK, Accepted, LoggerNames
<1> QED
  BY <1>1, <1>2, <1>3, PTL DEF Spec
=============================================================================
