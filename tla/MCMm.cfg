\* Three blocks in a heap of three pages.
CONSTANTS
  i1 = i1
  i2 = i2
  i3 = i3
  NoId = NoId
  Ids <- ThreeIds
  Sizes = {2, 5, 8}
  MinPower = 2
  NumFl = 2
  PageSize = 8
  MaxHeap = 27
SYMMETRY Symmetry
VIEW View
SPECIFICATION Spec
INVARIANTS
  Tiled
  ListsExact
  PayloadsKept
PROPERTIES
  GrowsOnlyIfFull
