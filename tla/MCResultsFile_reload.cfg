CONSTANTS
  NumPoints = 1
  Systems = {1}
  MaxSamples = 2
  MaxRuns = 2
  MaxEdits = 0
  MaxCrashes = 0
SPECIFICATION Spec
PROPERTY StateReloaded
