CONSTANTS
  s1 = s1
  s2 = s2
  s3 = s3
  Slaves <- ThreeSlaves
  NumPoints = 2
  Batches = {1}
  Backlog = 1
  Faults = {"crash"}
  Local = FALSE
  MinSamples = 2
  MaxSamples = 3
  FloorGiven = FALSE
  Keys = {}
  MaxKeys = 0
SYMMETRY ThreeSymmetry
SPECIFICATION Spec
INVARIANTS
  TypeOK
  BusyWhileWaiting
  RepliesInStep
  OneBatchOutstanding
  WorkersConfigured
  AssignedCurrent
  OwnResultsOnly
  ConvergedRowsSound
  NoPointSkipped
PROPERTY StreamsNotRepeated
