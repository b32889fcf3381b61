SPECIFICATION ReceiverSpec
CONSTANTS
  Places = {home, a, b}
  Home = home
  Half = 9
  ZE = 3
  PairDt = 1
  RefAge = 2
  RefMax = 2
  Slack = 1
  Rejects = 3
  Starts = {0, 7}
  MaxBad = 1
  Past = 2
  MagLen = 12
  Preamble = 2
  ShortBits = 2
  LongBits = 4
  Word = 64
  FrameBits = 3
  Margin = 2
  Levels = {0, 300, 2000, 4100, 20000, 52000}
  Short = 18
  Long = 20
  Check = 6
  Code = {6}
  Column <- SmallColumn
  Entries = {1, 2}
  CacheTTL = 1
  Hash <- SmallHash
  Planes <- ThreePlanes
  Formats = {4, 11, 17, 20}
  Payloads <- TwoPayloads
  Noise <- OneOrTwoWrong
  Calls <- SomeCalls
  Selected = {0, 63, 500, 625, 1375, 3125}
  Settings = {0, 1000, 2130, 2132, 2250}
  Rolls <- SomeRolls
  Rates <- SomeRates
  Speeds = {50, 120, 250, 374, 460, 700}
  Machs = {25, 120, 194, 224}
  Climbs <- SomeClimbs
  Advisories <- SomeAdvisories
  HeardLately <- HeardIfOne
  Coordinated <- WithinTwoDegrees
  Values = {v1, v2, v3}
  NoValue = NoValue
  Fresh = 3
  Window = 1
  Hold = 2
  Telling = {v1}
INVARIANTS NoSettingLost FixIsRight SamplesAsReceived EachFrameOnce  AsSent NeverAnother 
PROPERTIES SettingApplied ComesRight
