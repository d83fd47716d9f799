SPECIFICATION LaunchesSpec
CONSTANTS
  MaxCrashes = 2
  Job <- MCJob
  MaxToken = 3
  MaxRestarts = 3
  Run <- MCRun
  PageSize = 2
  Unreadable <- MCUnreadable
  MaxEnvelope = 3
  MaxDeaths = 2
INVARIANTS
  RecordIsTrusted
  SuccessIsTrue
  HandledInOrder
PROPERTIES
  MigrationsAreRecorded
  MessagesAreHandled
CHECK_DEADLOCK FALSE
