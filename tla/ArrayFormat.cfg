SPECIFICATION Spec
CONSTANTS
  Values <- MCValueTrees
  Types <- MCTypeTrees
  Height <- MCHeight
  Cases <- MCArrays
  Cuts = {0}
INVARIANT ArraysAreRead
