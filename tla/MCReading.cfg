SPECIFICATION Spec
CONSTANTS
  Bytes <- MCBytes
  Kinds <- MCKinds
  EmbeddedInto <- MCEmbeddedInto
  ContainsKind <- MCContainsKind
  Attributes <- MCAttributes
  Sets <- MCSets
  RefersTo <- MCRefersTo
  Booleans <- MCBooleans
  Instances <- MCInstances
  Identifiers <- MCIdentifiers
  NamePlaces <- MCNamePlaces
  CommandPatterns <- MCCommandPatterns
  Typing <- MCTyping
  Universe <- MCUniverse
  Places <- MCPlaces
  Begun <- MCBegun
  LogLines <- MCLogLines
  PlaceOf <- MCPlaceOf
  ChangeLists <- MCChangeLists
  Stores <- MCStores
  TextLines <- MCTextLines
  Widths <- MCWidths
  Strings <- MCStrings
  TypedTexts <- MCTyped
  WhereNames <- MCWhereNames
  StoredValues <- MCStoredValues
  TypedValues <- MCTypedValues
INVARIANTS ValuesSurvive NothingMistyped MessagesAreExact OffersMatch RefusalsAreTold FiltersPartition PrintoutsRead TextsAreKept
