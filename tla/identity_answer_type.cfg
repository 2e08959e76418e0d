\* One registration, nothing fails.
SPECIFICATION Spec
CONSTANTS
  Engines = {"mysql", "sqlite3"}
  Workers = {w1}
  Ids = {i1}
  k1 = k1
  k2 = k2
  NoKey = NoKey
  Keys <- MCKeys
  EdKeys <- MCEdKeys
  EccKeys <- MCEccKeys
  Types = {person, company}
  KnownTypes = {person, company}
  NoType = NoType
  NoItem = NoItem
  Faults <- NoFaults
INVARIANT AnswerDescribesIdentity
