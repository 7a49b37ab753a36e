\* Three connections to two workers through a queue of one, some of which
\* block a worker for ever.
CONSTANTS
  w1 = w1
  w2 = w2
  c1 = c1
  c2 = c2
  c3 = c3
  b1 = b1
  b2 = b2
  b3 = b3
  b4 = b4
  small = small
  other = other
  large = large
  mute = mute
  Workers <- TwoWorkers
  NoConn = NoConn
  NoKey = NoKey
  NoBuf = NoBuf
  Conns <- ThreeConns
  Keys <- MuteKeys
  Chunks <- MuteChunks
  Size <- MuteSize
  Buffers <- ThreeBuffers
  Scenarios <- MuteScenarios
  SilentKeys <- OnlyMute
  CutKeys <- NoKeys
  MaxAddrs = 2
  MaxSize = 1
  SbufSize = 1
  FdLimit = 3
  MayFail = FALSE
  MayOom = FALSE
SPECIFICATION FairSpec
CHECK_DEADLOCK FALSE
PROPERTIES
  PromptServed
