SPECIFICATION ProgressSpec
CONSTANTS
  Thread <- MCThread
  NoThread = "nobody"
  Main = "main"
  Watcher <- MCWatcher
  Screen <- MCScreen
  MaxValue = 3
  MaxAdvances = 2
INVARIANTS
  SealIsTheEnd
  RemovedAreToldTheEnd
PROPERTIES
  TellsEveryChange
  TerminationIsShown
CHECK_DEADLOCK FALSE
