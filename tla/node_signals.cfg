\* Registrations in flight, several SIGINTs: sig_handler on several threads at
\* once; the connection may drop.
SPECIFICATION NodeSpec
CONSTANTS
  Pool = {p1, p2}
  NoThread = NoThread
  MaxSignals = 3
  Engines <- AllEngines
  Ids = {i1}
  k1 = k1
  Keys <- OneKey
  NoKey = NoKey
  EdKeys <- OneKey
  EccKeys <- OneKey
  Types = {person}
  KnownTypes = {person}
  NoType = NoType
  NoItem = NoItem
  Faults <- LostConnection
INVARIANTS TypeOK NoCallWithoutNode SessionOutlivesHandlers ExitAnswersAll
PROPERTIES GracefulSpec LifecycleSpec InterruptStops RegistrationAnswered
