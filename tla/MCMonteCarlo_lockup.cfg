CONSTANTS
  s1 = s1
  s2 = s2
  s3 = s3
  Slaves <- TwoSlaves
  NumPoints = 1
  Batches = {1}
  Backlog = 1
  Faults = {"hang"}
  Local = FALSE
  MinSamples = 1
  MaxSamples = 2
  FloorGiven = FALSE
  Keys = {}
  MaxKeys = 0
SPECIFICATION FairSpec
CHECK_DEADLOCK FALSE
PROPERTY SweepEnds
