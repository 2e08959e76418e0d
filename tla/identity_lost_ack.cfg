\* Two overlapping handlers, one of whose statements fails.
SPECIFICATION Spec
CONSTANTS
  Engines = {"mysql", "sqlite3"}
  Workers = {w1, w2}
  Ids = {i1, i2}
  k1 = k1
  k2 = k2
  NoKey = NoKey
  Keys <- MCKeys
  EdKeys <- MCEdKeys
  EccKeys <- MCEccKeys
  Types = {person}
  KnownTypes = {person}
  NoType = NoType
  NoItem = NoItem
  Faults <- FailingStatements
INVARIANT AckedStored
