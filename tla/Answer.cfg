SPECIFICATION Spec
CONSTANTS
  Runs = {r1, r2}
  Questions = {"q"}
  CallLists <- MCCallLists
  KnownTools = {"web"}
  Findings <- MCFindings
  Citings <- MCCitings
  MaxTurns = 1
  MaxExecutions = 1
  TailWindow = 1
  MaxText = 2
  RecordHistory = TRUE
  NoAnswer = NoAnswer
  Asks <- MCAsks
  Threads = {"t"}
  NoThread = NoThread
  Owners = {"local"}
  Clients = {"ip"}
  DailyAnswers = 1
  MaxInflight = 1
  MaxHistory = 1
  LastDay = 2
CHECK_DEADLOCK FALSE
INVARIANTS
  FramesInOrder
  TailHeldBack
  CacheSound
  ThreadIsOneConversation
PROPERTIES
  NobodyRefusedEarly
