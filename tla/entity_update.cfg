\* Updates of the tables the node creates, nothing fails on its own.
SPECIFICATION Spec
CONSTANTS
  Engines = {"mysql", "sqlite3"}
  Items <- MixedItems
  Provided = {}
  Operations = {"Insert", "Update"}
  Faults = {}
INVARIANT UpdateTakesEffect
