CONSTANTS
  s1 = s1
  s2 = s2
  s3 = s3
  Slaves <- TwoSlaves
  NumPoints = 1
  Batches = {1}
  Backlog = 1
  Faults = {"crash"}
  Local = FALSE
  MinSamples = 1
  MaxSamples = 2
  FloorGiven = FALSE
  Keys = {"q"}
  MaxKeys = 1
SPECIFICATION Spec
INVARIANT RowsReflectSamples
