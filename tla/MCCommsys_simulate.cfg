CONSTANTS
  Blocks = 2
  CodecIter = 2
  MaxIter = 2
  MaxBlocks = 2
  Tau = 2
  MaxLookahead = 1
  Drifts <- OneSymbolDrifts
  MaxOffset = 1
  MaxTop = 1
  StreamKinds <- BlockOfEachKind
  MaxSysIter = 2
  MaxN = 2
  MaxFrames = 3
  MaxSeeds = 1
  Pval_d = 2
  Pval_i = 3
  Pval_tc = 5
  Pval_te = 7
  MaxTau = 4
  MaxIns = 2
  Caps = {0, 1, 2}
  Zmins <- MinimumDrifts
  Zmaxs = {0, 1, 2}
  DriftLimits <- NarrowLimits
  MaxFrame = 3
  Decoders <- SmallDecoders
  Frames <- SmallFrames
  MaxDecodings = 2
  Loads <- AllClasses
  Sizes = {1, 2}
INIT MCInit
NEXT MCNext
CHECK_DEADLOCK FALSE
INVARIANTS
  BlockInStep
  DriftErrorTrue
  ComparesOwnFrame
  FrameInStep
  TerminatedEndKnown
  NeverAbortsInStream
  SymbolsLocated
  DriftWithinLimits
  ReceiversExact
  PosteriorsExact
  ReadsBack
