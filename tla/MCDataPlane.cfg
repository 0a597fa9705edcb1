SPECIFICATION Spec
CONSTANTS
  SourceDays = 3
  Window = 1
  MaxJobs = 3
  NoJob = NoJob
  NaN = NaN
  RawDay <- MCRawDay
  MaxRows = 4
  ScoreWindow = 2
  ScoreMin = 2
  RuoniaLimit = 1
  RepoWindow = 2
  RepoMin = 2
  RepoMinExpanding = 1
  StaleAfter = 1
  OfzWindow = 3
  OfzMin = 2
  YieldRows = 2
  Week = 1
  Month = 2
  CbrWindow = 2
  CbrMin = 1
  RoskaznaWindow = 2
  RoskaznaMin = 1
  DecayDays = 1
  Decay = 65
  TaxEvent = {4}
  MonthEnd = {1, 2}
  QuarterEnd = {2}
  ScoreValue <- MCScoreValue
  SeasonValue <- MCSeasonValue
  Predict <- MCPredict
  PredictWide <- MCPredictWide
  DayIndex = 55
  NoIndex = NoIndex
  MaxChanges = 3
  DumpOrder <- MCDumpOrder
  MaxVersion = 4
  NoFile = NoFile
  NotLoaded = NotLoaded
  NoModel = NoModel
  u1 = u1
  u2 = u2
  u3 = u3
  Url = {u1, u2, u3}
  DayOf <- MCDayOf
  CopyName = {1, 2}
  NameOf <- MCNameOf
  Link <- MCLink
  Dated = {u1, u3}
  LastDay = 3
  ChunkDays = 1
  NoCopy = NoCopy
  NoCsv = NoCsv
  NoRun = NoRun
  TornFile = TornFile
  Request = {r1, r2}
  MaxHistory = 3
  MaxAsked = 4
  NoAnswer = NoAnswer
INVARIANTS
  PartsTypeOK
  LatestIsRead
  CarriedIsRecent
  FlagsHaveCause
  DecayFades
  ShapFollowsStress
  HistoryStands
  ArtifactsOfOneTraining
  CountedOnce
  HolesAreExplained
  AnswersStand
PROPERTY NoLookahead
\* A raw file that is full, answered requests and a crashed process are ends.
CHECK_DEADLOCK FALSE
