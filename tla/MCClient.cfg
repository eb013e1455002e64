SPECIFICATION FairSpec
CONSTANTS
  Kinds <- KindsInOrder
  Objects <- ThreeObjects
  MaxChanges = 3
  SetCommands = {"setAttribute"}
  Reads = {"objectData"}
  ChangesetCommands = {"commitChangeset"}
INVARIANTS Accounted InStep MetadataComplete
PROPERTIES ImplementsQueue CallsReturn
