CONSTANTS
  s1 = s1
  s2 = s2
  s3 = s3
  Slaves <- TwoSlaves
  NumPoints = 2
  Batches = {1}
  Backlog = 1
  Faults = {"crash", "hang", "sigint"}
  Local = FALSE
  MinSamples = 2
  MaxSamples = 2
  FloorGiven = TRUE
  Keys = {"s", "x"}
  MaxKeys = 2
SYMMETRY TwoSymmetry
CHECK_DEADLOCK FALSE
SPECIFICATION Spec
PROPERTIES
  InterruptSpent
  ImplementsSweep
