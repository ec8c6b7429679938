SPECIFICATION Spec
CONSTANTS
  Runs = {r1, r2, r3}
  Questions = {"q"}
  CallLists <- MCCallLists
  KnownTools = {"web"}
  Findings <- MCFindings
  Citings <- MCCitings
  MaxTurns = 0
  MaxExecutions = 1
  TailWindow = 1
  MaxText = 1
  RecordHistory = FALSE
  NoAnswer = NoAnswer
  Asks <- MCAsks
  Threads = {"t"}
  NoThread = NoThread
  Owners = {"local"}
  Clients = {"ip"}
  DailyAnswers = 1
  MaxInflight = 2
  MaxHistory = 1
  LastDay = 2
CHECK_DEADLOCK FALSE
INVARIANT DailyBudget
