\* Two producers, two workers, two slots, four calls: the buffer wraps twice
\* and fills, and every pair of roles contends for the mutex.
CONSTANTS
  main = main
  main2 = main2
  w1 = w1
  w2 = w2
  fd1 = fd1
  fd2 = fd2
  Producers <- TwoProducers
  Consumers <- TwoWorkers
  Items <- TwoDescriptors
  NoItem = NoItem
  N = 2
  IntMax = 7
  MaxCalls = 4
SPECIFICATION FairSpec
INVARIANTS
  MutualExclusion
  NoSlotClash
  IInv
PROPERTIES
  IsFifo
  EnqueueReturns
  ItemsDelivered
