CONSTANTS
  cpu0 = cpu0
  cpu1 = cpu1
  cpu2 = cpu2
  core0 = core0
  core1 = core1
  rival = rival
  Test = Test
  Child = Child
  Idle = Idle
  Cpus = {cpu0, cpu1, cpu2}
  Cores = {core0, core1}
  CoreOf <- MixedCoreOf
  CpuInitial = cpu0
  CpuMigration = cpu2
  Tasks = {Test, Child, rival}
  PfBits = {"pf1", "pf2"}
  OtherBits = {"other"}
  Rounds <- TestRounds
  Files = {"f1", "f2"}
  Total = 1
  MaxSessions = 2
  MaxLate = 1
  Labels <- TestLabels
  Contents <- TestContents
  Dataset = "16M"
  MaxFiles <- TestMaxFiles
  Csvs <- TestCsvs
  CsvContents <- TestCsvContents
  Reps = 2
  TimePairs <- TestTimePairs
  Misses = {3}
  Iterations = 2
  MaxRuns = 2
  KeyBytes = 2
  Logs <- TestLogs
  Counters = 2
  Stamps = 5
  Samples = 2
  MaxClock = 7
  MaxSegments = 2
  BootCores = {0, 1, 3}
SPECIFICATION MCSpec
CHECK_DEADLOCK FALSE
INVARIANTS
  TypesOK FailuresExplained PassMeansVerified
  ResultsAsNamed OnlyKeptFilesStay ResultsComplete
  FigureShowsFiles LinesRight
  WholeFilesDrawn BarsShowRuns BarsRecognisable
  DrawnAsMeasured AcceptedRunWhole SeriesAsNamed
  ArchivesAsNamed RecoveriesReal
  NeverUnderestimates
  EntersKernelRight
PROPERTIES TestEnds SessionEnds OneSamplePerStamp ReleasedCoresBoot
