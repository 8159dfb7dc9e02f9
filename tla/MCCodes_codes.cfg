CONSTANTS
  Encoders <- SmallEncoders
  MaxSteps = 4
  Codecs <- SmallCodecs
  MaxDecodings = 2
  Codes <- SmallCodes
  MaxIter = 2
  Designs <- SmallDesigns
  MaxSeeds = 2
INIT MCInit
NEXT MCNext
CHECK_DEADLOCK FALSE
INVARIANTS
  EncodersAgree
  PassesClose
  PosteriorExact
  DecodesConsistently
  LdpcPosteriorsExact
  LikelihoodsFollow
  CallsExact
