\* A block that is reallocated until it moves into a larger one.
CONSTANTS
  i1 = i1
  i2 = i2
  i3 = i3
  NoId = NoId
  Ids <- ThreeIds
  Sizes = {2, 5, 8}
  MinPower = 2
  NumFl = 2
  PageSize = 8
  MaxHeap = 27
SYMMETRY Symmetry
SPECIFICATION Spec
INVARIANT DataKept
