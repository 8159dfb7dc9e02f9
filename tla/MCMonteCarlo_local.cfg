CONSTANTS
  s1 = s1
  s2 = s2
  s3 = s3
  Slaves <- TwoSlaves
  NumPoints = 3
  Batches = {1}
  Backlog = 1
  Faults = {}
  Local = TRUE
  MinSamples = 2
  MaxSamples = 4
  FloorGiven = TRUE
  Keys = {"q", "s", "x"}
  MaxKeys = 2
SPECIFICATION Spec
INVARIANTS
  RowsReflectSamples
  NeverAborts
