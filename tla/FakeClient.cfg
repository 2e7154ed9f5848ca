\* Two goroutines and a watcher on one fake clientset.
SPECIFICATION Spec
CONSTANTS
  tester = tester
  tested = tested
  watcher = watcher
  Callers <- MCCallers
  Accessor <- MCAccessor
  Methods <- MCMethods
  Scopes <- MCScopes
  Keys <- MCKeys
  Labels = {"old", "new"}
  Written <- MCWritten
  Selectors <- MCSelectors
  Watchers = {watcher}
  Capacity = 1
  MaxActions <- MCMaxActions
\* A panic ends the test, and a Fake that is full takes no more actions.
CHECK_DEADLOCK FALSE
INVARIANTS
  TypeOK
  ActionsReplay
  WatchersMissNothing
PROPERTY ApiSpec
