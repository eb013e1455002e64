CONSTANTS
  Kinds <- MCKinds
  EmbeddedInto <- MCEmbeddedInto
  ContainsKind <- MCContainsKind
  Attributes <- MCAttributes
  Sets <- MCSets
  Lines <- MCLines
  Batches <- MCBatches
  Scripts <- MCScripts
  Views <- MCViews
  AutoNames <- MCAutoNames
  MaxLines = 4
  MaxFaults = 1
SPECIFICATION Spec
INVARIANTS CacheTells ContextsAgree ContextExists
PROPERTIES NothingUnasked DeletesAreConfirmed
