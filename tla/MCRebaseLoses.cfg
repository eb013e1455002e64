SPECIFICATION Spec
CONSTANTS
  Kinds = {"host", "interface"}
  EmbeddedInto <- MCEmbeddedInto
  ContainsKind = {}
  Attributes <- MCAttributes
  Sets = {}
  KindsInOrder <- MCKindsInOrder
  NamesInOrder <- MCNamesInOrder
  Values = {"v", "w"}
  NoValue = "none"
  TopOfAll = 0
  Base <- MCBase
  OurLines <- MCOurLines
  TheirScripts <- MCTheirScripts
  MaxRevisions = 3
  MaxEdits = 2
  MaxChangesets = 1
  MaxMishaps = 1
INVARIANTS OursHold
CHECK_DEADLOCK FALSE
