SPECIFICATION Spec
CONSTANTS
  OwnNames <- NamesOfItsOwn
  Defs <- Enums
  Cases <- MCCases
INVARIANTS FlagMeansAny VariantsAreSent KnownVariantsAreRead PeersCanRead
