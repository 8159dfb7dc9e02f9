CONSTANTS
  NumPoints = 2
  Systems = {1}
  MaxSamples = 2
  MaxRuns = 2
  MaxEdits = 1
  MaxCrashes = 1
SPECIFICATION Spec
INVARIANTS
  LinesKept
  NoDetritus
  InterimReplaced
  SavedStateWhole
CONSTRAINT FewSamplesWhenDisturbed
