SPECIFICATION FairSpec
CONSTANTS
  Keys <- MCKeys
  Values <- MCValues
  Absent = Absent
  Names = {"production", "development"}
  Production = "production"
  UserFile = "user.json"
  Starts <- MCStarts
  EnvVars <- MCEnvVars
  CliVars <- MCCliVars
  Settings <- MCSettings
  FileStates <- MCFiles
  Writes <- MCWrites
  MaxSources = 1
  MaxEdits = 1
  MaxLoads = 2
  Threads = {t1, t2}
  Providers <- MCProviders
  Console = "Console"
  MaxLogs = 1
  UserThreads = {0, 2}
  UserUrls = {0, 1}
  Hardware = 0
INVARIANTS
  TypeOK
  FirstSourceWins
  SettingsAsConfigured
  Delivered
  LinesWhole
PROPERTY
  LogReturns
CHECK_DEADLOCK FALSE
