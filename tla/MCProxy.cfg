\* Three connections, of which one may send any bad request; a cache that holds
\* two small responses or one other; every fault of the network and of malloc;
\* descriptors that run out.
CONSTANTS
  w1 = w1
  w2 = w2
  c1 = c1
  c2 = c2
  c3 = c3
  b1 = b1
  b2 = b2
  b3 = b3
  b4 = b4
  small = small
  other = other
  large = large
  mute = mute
  Workers <- TwoWorkers
  NoConn = NoConn
  NoKey = NoKey
  NoBuf = NoBuf
  Conns <- ThreeConns
  Keys <- CacheKeys
  Chunks <- CacheChunks
  Size <- CacheSize
  Buffers <- FourBuffers
  Scenarios <- OneBad
  SilentKeys <- NoKeys
  CutKeys <- CutShort
  MaxAddrs = 2
  MaxSize = 2
  SbufSize = 1
  FdLimit = 4
  MayFail = TRUE
  MayOom = TRUE
SYMMETRY Symmetry
SPECIFICATION Spec
CHECK_DEADLOCK FALSE
INVARIANTS
  OneHolder
  LruInitFirst
  BuffersDisjoint
  CachedIsOrigin
PROPERTIES
  ServedOrigin
