SPECIFICATION ConvertSpec
CONSTANTS
  FullScale = 16
  EnvelopeHop = 1
  MinSampleCount = 2
  MaxN = 2
  HopLength = 3
  Recordings <- MCRecordings
  Quiet = 1
  SilenceMin = 1
  FragmentMin = 2
  LocalLen = 2
  EnergyHop = 3
  FrameDuration = 2
  Transient = 2
  ContinuousMin = 1
  IntensityMin = 30
  CombineDelta = 5
  Levels = {0, 50, 53}
INVARIANTS
  StretchKept
  EveryPeakHeard
PROPERTY Ends
