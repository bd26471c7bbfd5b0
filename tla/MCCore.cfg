SPECIFICATION Spec
CONSTANTS
  Modules <- MCModules
  Waiters <- MCWaiters
  Sinks <- MCSinks
  Listeners <- MCListeners
  Programs <- MCPrograms
INVARIANTS WaitersServed ListenersCalled StartsAsAsked
PROPERTY QuitEndsPox
CHECK_DEADLOCK FALSE
