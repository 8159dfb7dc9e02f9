CONSTANTS
  s1 = s1
  s2 = s2
  s3 = s3
  Slaves <- TwoSlaves
  NumPoints = 2
  Batches = {1}
  Backlog = 2
  Faults = {"crash"}
  Local = FALSE
  MinSamples = 1
  MaxSamples = 2
  FloorGiven = FALSE
  Keys = {"q", "s"}
  MaxKeys = 1
SPECIFICATION FairSpec
PROPERTIES
  SweepEnds
  QuitHonoured
  SlavesStop
  SlavesServed
