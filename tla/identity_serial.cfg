\* One handler at a time, every engine and every fault.
SPECIFICATION Spec
CONSTANTS
  Engines <- AllEngines
  Workers = {w1}
  Ids = {i1, i2, i3}
  k1 = k1
  k2 = k2
  NoKey = NoKey
  Keys <- MCKeys
  EdKeys <- MCEdKeys
  EccKeys <- MCEccKeys
  Types = {person, unknown}
  KnownTypes = {person}
  NoType = NoType
  NoItem = NoItem
  Faults <- AllFaults
INVARIANTS TypeOK AckedStored FailedAbsent
PROPERTY RegistrySpec
