SPECIFICATION Spec
CONSTANTS
  Values <- MCValueTrees
  Types <- MCTypeTrees
  Height <- MCHeight
  Cases <- MCCases
  Cuts <- MCCuts
INVARIANTS SizesNest WindowsNest ReadsWhatWasWritten ConsumedWhole
