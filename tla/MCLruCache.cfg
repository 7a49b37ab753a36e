\* Two workers, two keys, items of one and two units in a cache of three: an
\* insertion evicts up to two items, a hit may be in the middle of the list,
\* and there is room for more copies of a key than there are workers.
CONSTANTS
  w1 = w1
  w2 = w2
  k1 = k1
  k2 = k2
  n1 = n1
  n2 = n2
  n3 = n3
  n4 = n4
  n5 = n5
  Threads <- TwoWorkers
  Keys <- TwoKeys
  Nodes <- FiveNodes
  Sizes = {1, 2}
  MaxSize = 3
  HeadNode = HeadNode
  TailNode = TailNode
  Null = Null
SYMMETRY Symmetry
SPECIFICATION Spec
INVARIANTS
  WellLinked
  SizeIsSum
  DuplicatesBounded
PROPERTIES
  RefinesLru
