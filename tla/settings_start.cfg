SPECIFICATION Spec
CONSTANTS
  Configurations <- MCConfigurations
  UnusableFiles <- MCUnusableFiles
  KnownOptions <- MCKnownOptions
  SplitValues = {"a b", ""}
  UnquotableValues = {"a'b"}
  Absent = Absent
  Malformed = Malformed
INVARIANTS
  TypeOK
  AcceptedSettingsStart
