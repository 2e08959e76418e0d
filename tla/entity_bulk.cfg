\* The bulk forms and the reads, nothing fails but what the tables refuse.
SPECIFICATION Spec
CONSTANTS
  Engines <- AllEngines
  Items <- MixedItems
  Provided = {}
  Operations = {"InsertAll", "UpdateAll", "DeleteAll", "Retrieve", "RetrieveAll"}
  Faults = {}
INVARIANT BulkInsertsTheRest
