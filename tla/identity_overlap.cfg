\* Two overlapping handlers; no statement fails while the connection is up.
SPECIFICATION FairSpec
CONSTANTS
  Engines <- AllEngines
  Workers = {w1, w2}
  Ids = {i1, i2, i3}
  k1 = k1
  k2 = k2
  NoKey = NoKey
  Keys <- MCKeys
  EdKeys <- MCEdKeys
  EccKeys <- MCEccKeys
  Types = {person}
  KnownTypes = {person}
  NoType = NoType
  NoItem = NoItem
  Faults <- InterleavingFaults
INVARIANT AckedStored
PROPERTY EveryCallAnswered
