SPECIFICATION Spec
CONSTANTS
  OwnNames <- NamesOfItsOwn
  Defs <- UnitEnums
  Cases <- UnitCases
INVARIANT UnitVariantsSupported
