\* The single forms and RetrieveAll, with a signature table, under every fault.
SPECIFICATION Spec
CONSTANTS
  Engines <- AllEngines
  Items <- TransferItems
  Provided <- Signatures
  Operations = {"Insert", "Update", "Delete", "RetrieveAll"}
  Faults = {"statement", "connection", "crash"}
INVARIANTS TypeOK CreatedTablesStay DoneTakesEffect RetrievesAllOrNone
PROPERTY StoreSpec
