\* Two goroutines that share a client made by NewForConfig.
SPECIFICATION FairSpec
CONSTANTS
  editor = editor
  writer = writer
  Callers <- MCCallers
  Methods <- MCMethods
  Keys <- MCKeys
  Labels = {"old", "new"}
  Scopes <- MCScopes
  Written <- MCWritten
  Selectors <- MCSelectors
  Constructor = "NewForConfig"
  QPS = 1
  Burst = 1
  MaxRetries = 1
  MaxVersion = 3
INVARIANTS
  TypeOK
  BurstIsShared
PROPERTIES
  ApiSpec
  UpdatesReplaceWhatWasRead
  EveryCallReturns
